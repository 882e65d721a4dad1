------------------------- MODULE ReflectQueueProofs -------------------------
(***************************************************************************)
(* For any sessions, hooks and bounds: one queue entry yields at most one  *)
(* reflection, and a queued session never leaves the books, whatever       *)
(* copies the hooks, the worker and the operator write over each other; a  *)
(* provider that keeps failing is asked a bounded number of times for an   *)
(* entry that nobody touches, whoever dies before an attempt is written    *)
(* down; and a queue entry counts every Stop that the hooks queued, as     *)
(* long as no lock directory is removed under a hook that is inside the    *)
(* locked section.                                                         *)
(***************************************************************************)
EXTENDS ReflectQueue, TLAPS

\* The types, with what a process in the middle of something has in hand.
Typed == TypeOK /\ InHand /\ OffsetsBehind

-----------------------------------------------------------------------------
(* Records with some of their fields replaced.                             *)

\* An idle hook, worker and operator are of their types.
LEMMA IdleTypes ==
  IdleHook \in HookState /\ IdleWorker \in WorkerState /\ IdleOperator \in OperatorState
BY BoundsAssumption
DEF IdleHook, HookState, HookLabel, IdleWorker, WorkerState, WorkerLabel,
   IdleOperator, OperatorState, OperatorLabel

\* markQueueEnded and cmdReflect write an entry.
LEMMA EntryEnded == ASSUME NEW e \in Entry PROVE [e EXCEPT !.ended = TRUE] \in Entry
BY DEF Entry

\* A counted attempt leaves an entry.
LEMMA EntryTried == ASSUME NEW e \in Entry PROVE [e EXCEPT !.attempts = @ + 1] \in Entry
BY DEF Entry

\* upsertStopQueue writes an entry.
LEMMA EntryStopped ==
  ASSUME NEW e \in Entry, NEW m \in Nat, NEW n \in Nat
  PROVE  [e EXCEPT !.last = m, !.stops = n, !.attempts = 0] \in Entry
BY DEF Entry

\* bumpToolUses writes an entry.
LEMMA EntryScanned ==
  ASSUME NEW e \in Entry, NEW n \in Nat PROVE [e EXCEPT !.tools = n] \in Entry
BY DEF Entry

\* The reflections of a session are counted by a natural number.
LEMMA WrittenType == ASSUME TypeOK, NEW s \in Sessions PROVE Written(s) \in Nat
BY DEF TypeOK, Written

\* The entry of a session that has none is an entry.
LEMMA NewEntryType == ASSUME TypeOK, NEW s \in Sessions PROVE NewEntry(s) \in Entry
BY WrittenType DEF NewEntry, Entry

\* Counting tries and Stops keeps the type of the history.
LEMMA HistoryTypes ==
  ASSUME NEW r \in History, NEW m \in Nat, NEW n \in Nat, NEW b \in BOOLEAN
  PROVE  /\ [r EXCEPT !.tries = m] \in History
         /\ [r EXCEPT !.stops = m] \in History
         /\ [r EXCEPT !.tries = m, !.stops = n] \in History
         /\ [r EXCEPT !.torn = b] \in History
BY DEF History

-----------------------------------------------------------------------------
(* Typing of the hook's steps.                                             *)

\* A hook that is not idle works on a session.
LEMMA HookSession ==
  ASSUME Typed, NEW h \in Hooks, hook[h].at # "idle"
  PROVE  hook[h].s \in Sessions
BY DEF Typed, InHand

\* A hook moves to a state with a session and a copy in hand, while the
\* transcript grows and the offset does not pass its end.
LEMMA HookMoves ==
  ASSUME Typed, NEW h \in Hooks, NEW v \in HookState,
         hook' = [hook EXCEPT ![h] = v],
         v.at # "idle" => v.s \in Sessions,
         v.at = "write" => v.copy # None,
         v.at = "offset" => v.upto <= turns'[v.s],
         turns' \in [Sessions -> 0..MaxTurns], offset' \in [Sessions -> 0..MaxTurns],
         \A s \in Sessions : turns[s] <= turns'[s] /\ offset'[s] <= turns'[s],
         UNCHANGED <<worker, operator>>
  PROVE  hook' \in [Hooks -> HookState] /\ InHand' /\ OffsetsBehind'
<1>1. hook' \in [Hooks -> HookState]
  BY DEF Typed, TypeOK
<1>2. InHand'
  BY DEF Typed, TypeOK, InHand
<1>3. OffsetsBehind'
  <2>1. ASSUME NEW g \in Hooks, hook'[g].at = "offset" PROVE hook'[g].upto <= turns'[hook'[g].s]
    <3>1. CASE g = h
      BY <2>1, <3>1 DEF Typed, TypeOK
    <3>2. CASE g # h
      <4>1. hook'[g] = hook[g] /\ hook[g] \in HookState
        BY <3>2 DEF Typed, TypeOK
      <4>2. hook[g].s \in Sessions /\ hook[g].upto <= turns[hook[g].s] /\ hook[g].upto \in 0..MaxTurns
        BY <2>1, <4>1, HookSession DEF Typed, OffsetsBehind, HookState
      <4>3. QED
        BY <4>1, <4>2, BoundsAssumption DEF Typed, TypeOK
    <3>3. QED
      BY <3>1, <3>2
  <2>2. QED
    BY <2>1 DEF OffsetsBehind
<1>4. QED
  BY <1>1, <1>2, <1>3

\* The same for a step that moves neither the transcript nor the offset.
LEMMA HookStays ==
  ASSUME Typed, NEW h \in Hooks, NEW v \in HookState,
         hook' = [hook EXCEPT ![h] = v],
         v.at # "idle" => v.s \in Sessions,
         v.at = "write" => v.copy # None,
         v.at = "offset" => v.upto <= turns[v.s],
         UNCHANGED <<turns, offset, worker, operator>>
  PROVE  hook' \in [Hooks -> HookState] /\ InHand' /\ OffsetsBehind'
<1>1. \A s \in Sessions : turns[s] <= turns[s] /\ offset[s] <= turns[s]
  BY BoundsAssumption DEF Typed, TypeOK, OffsetsBehind
<1>2. QED
  BY <1>1, HookMoves DEF Typed, TypeOK

\* Only the label of the hook changes.
LEMMA HookGoes ==
  ASSUME Typed, NEW h \in Hooks, hook[h].at # "idle", NEW l \in HookLabel \ {"write", "offset"},
         hook' = [hook EXCEPT ![h].at = l],
         UNCHANGED <<turns, offset, worker, operator>>
  PROVE  hook' \in [Hooks -> HookState] /\ InHand' /\ OffsetsBehind'
<1> DEFINE v == [hook[h] EXCEPT !.at = l]
<1>1. hook[h] \in HookState
  BY DEF Typed, TypeOK
<1>2. v \in HookState /\ v.at = l /\ v.s = hook[h].s
  BY <1>1 DEF HookState
<1>3. hook' = [hook EXCEPT ![h] = v]
  OBVIOUS
<1> HIDE DEF v
<1>4. QED
  BY <1>2, <1>3, HookSession, HookStays

\* A hook that ends has nothing in hand.
LEMMA HookEnds ==
  ASSUME Typed, NEW h \in Hooks, hook' = [hook EXCEPT ![h] = IdleHook],
         UNCHANGED <<turns, offset, worker, operator>>
  PROVE  hook' \in [Hooks -> HookState] /\ InHand' /\ OffsetsBehind'
<1>1. IdleHook \in HookState /\ IdleHook.at = "idle"
  BY IdleTypes DEF IdleHook
<1>2. QED
  BY <1>1, HookStays

\* Deliver starts a hook for a session, after a turn or at its end.
LEMMA DeliverTyped ==
  ASSUME Typed, NEW h \in Hooks, NEW s \in Sessions, Deliver(h, s)
  PROVE  Typed'
<1> DEFINE started(k) == [IdleHook EXCEPT !.at = "dir", !.kind = k, !.s = s]
<1>1. ASSUME NEW k \in {"stop", "end"}
      PROVE  started(k) \in HookState /\ started(k).at = "dir" /\ started(k).s = s
  <2>1. IdleHook \in HookState /\ "dir" \in HookLabel
    BY IdleTypes DEF HookLabel
  <2>2. QED
    BY <2>1 DEF HookState
<1>2. /\ turns' \in [Sessions -> 0..MaxTurns]
      /\ \A t \in Sessions : turns[t] <= turns'[t] /\ offset[t] <= turns'[t]
  <2>1. /\ turns \in [Sessions -> 0..MaxTurns] /\ offset \in [Sessions -> 0..MaxTurns]
        /\ \A t \in Sessions : offset[t] <= turns[t]
        /\ MaxTurns \in Nat
    BY BoundsAssumption DEF Typed, TypeOK, OffsetsBehind
  <2>2. CASE UNCHANGED turns
    BY <2>1, <2>2
  <2>3. CASE turns[s] < MaxTurns /\ turns' = [turns EXCEPT ![s] = @ + 1]
    BY <2>1, <2>3
  <2>4. QED
    BY <2>2, <2>3 DEF Deliver
<1>3. used' \in [ends : [Sessions -> 0..MaxEnds], mishaps : 0..MaxMishaps]
  <2>1. used \in [ends : [Sessions -> 0..MaxEnds], mishaps : 0..MaxMishaps] /\ MaxEnds \in Nat
    BY BoundsAssumption DEF Typed, TypeOK
  <2>2. CASE UNCHANGED used
    BY <2>1, <2>2
  <2>3. CASE used.ends[s] < MaxEnds /\ used' = [used EXCEPT !.ends[s] = @ + 1]
    BY <2>1, <2>3
  <2>4. QED
    BY <2>2, <2>3 DEF Deliver
<1>4. /\ hook' \in [Hooks -> HookState] /\ InHand' /\ OffsetsBehind'
      /\ UNCHANGED <<onDisk, pending, done, failed, offset, sdir, slock, worker, operator,
                     reflections, history>>
  <2> USE DEF Deliver, buckets, seen
  <2> HIDE DEF started
  <2>1. CASE hook' = [hook EXCEPT ![h] = started("stop")]
    BY <2>1, <1>1, <1>2, HookMoves DEF Typed, TypeOK
  <2>2. CASE hook' = [hook EXCEPT ![h] = started("end")]
    BY <2>2, <1>1, <1>2, HookMoves DEF Typed, TypeOK
  <2>3. CASE UNCHANGED hook
    <3>1. InHand' /\ hook' \in [Hooks -> HookState]
      BY <2>3 DEF Typed, TypeOK, InHand
    <3>2. OffsetsBehind'
      <4>1. hook = [hook EXCEPT ![h] = hook[h]] /\ hook[h] \in HookState /\ hook[h].at = "idle"
        BY DEF Typed, TypeOK
      <4>2. QED
        BY <4>1, <2>3, <1>2, HookMoves DEF Typed, TypeOK
    <3>3. QED
      BY <3>1, <3>2
  <2>4. QED
    BY <2>1, <2>2, <2>3 DEF started
<1>5. QED
  BY <1>2, <1>3, <1>4 DEF Typed, TypeOK

\* The steps around the session lock change no entry.
LEMMA LockTyped ==
  ASSUME Typed, NEW h \in Hooks,
         \/ MakeSessionDir(h) \/ NoSessionDir(h) \/ SessionLock(h) \/ ReclaimLock(h)
         \/ LockTimeout(h) \/ SessionUnlock(h)
  PROVE  Typed'
<1> USE DEF env, buckets, seen
<1> SUFFICES /\ hook' \in [Hooks -> HookState] /\ InHand' /\ OffsetsBehind'
             /\ sdir' \subseteq Sessions /\ slock' \in [Sessions -> Hooks \cup {None}]
             /\ history' \in [Sessions -> History]
  BY DEF Typed, TypeOK, MakeSessionDir, NoSessionDir, SessionLock, ReclaimLock, LockTimeout,
         SessionUnlock
<1>1. hook[h].at # "idle" => hook[h].s \in Sessions
  BY HookSession
<1>2. {"lock", "read", "reclaim"} \subseteq HookLabel \ {"write", "offset"}
  BY DEF HookLabel
<1>3. CASE MakeSessionDir(h)
  BY <1>1, <1>2, <1>3, HookGoes DEF MakeSessionDir, Typed, TypeOK
<1>4. CASE NoSessionDir(h) \/ LockTimeout(h)
  BY <1>4, HookEnds DEF NoSessionDir, LockTimeout, Typed, TypeOK
<1>5. CASE SessionLock(h)
  BY <1>1, <1>2, <1>5, HookGoes DEF SessionLock, Typed, TypeOK
<1>6. CASE ReclaimLock(h)
  <2>1. history' \in [Sessions -> History]
    BY <1>1, <1>6, HistoryTypes DEF ReclaimLock, Typed, TypeOK, Locked
  <2>2. QED
    BY <2>1, <1>1, <1>2, <1>6, HookGoes DEF ReclaimLock, Typed, TypeOK
<1>7. CASE SessionUnlock(h)
  BY <1>1, <1>7, HookEnds DEF SessionUnlock, Typed, TypeOK
<1>8. QED
  BY <1>3, <1>4, <1>5, <1>6, <1>7

\* ReadEntry takes the entry that is there, or a new one.
LEMMA ReadTyped == ASSUME Typed, NEW h \in Hooks, ReadEntry(h) PROVE Typed'
<1> DEFINE s == hook[h].s
           e == IF pending[s] = None THEN NewEntry(s) ELSE pending[s]
           v == [hook[h] EXCEPT !.at = "write", !.copy = e]
<1>1. hook[h] \in HookState /\ s \in Sessions /\ hook[h].at # "idle"
  BY HookSession DEF ReadEntry, Typed, TypeOK
<1>2. e \in Entry
  BY <1>1, NewEntryType DEF Typed, TypeOK
<1>3. /\ hook' \in [Hooks -> HookState] /\ InHand' /\ OffsetsBehind'
  <2>1. CASE hook' = [hook EXCEPT ![h].at = "unlock"]
    <3>1. "unlock" \in HookLabel \ {"write", "offset"}
      BY DEF HookLabel
    <3>2. QED
      BY <2>1, <3>1, <1>1, HookGoes DEF ReadEntry, env
  <2>2. CASE hook' = [hook EXCEPT ![h] = v]
    <3>1. "write" \in HookLabel /\ e # None
      BY <1>2, NoneAssumption DEF HookLabel
    <3> HIDE DEF e
    <3>2. v \in HookState /\ v.at = "write" /\ v.s = s /\ v.copy = e
      BY <1>1, <1>2, <3>1 DEF HookState
    <3> HIDE DEF v
    <3>3. QED
      BY <2>2, <3>1, <3>2, <1>1, HookStays DEF ReadEntry, env
  <2>3. QED
    BY <2>1, <2>2 DEF ReadEntry
<1>4. QED
  BY <1>3 DEF ReadEntry, env, buckets, seen, Typed, TypeOK

\* What the hook writes back is an entry.
LEMMA WriteTyped ==
  ASSUME Typed, NEW h \in Hooks, UpsertStop(h) \/ MarkEnded(h) PROVE Typed'
<1> DEFINE s == hook[h].s
           e == hook[h].copy
           l == IF UpsertStop(h) THEN "scan" ELSE "unlock"
           v == [hook[h] EXCEPT !.at = l, !.copy = None]
<1>1. hook[h] \in HookState /\ s \in Sessions /\ e # None
  BY HookSession DEF UpsertStop, MarkEnded, Typed, TypeOK, InHand
<1>2. e \in Entry /\ turns[s] \in Nat /\ e.stops + 1 \in Nat
  BY <1>1, BoundsAssumption DEF HookState, Entry, Typed, TypeOK
<1>3. pending' \in [Sessions -> Entry \cup {None}]
  <2>1. [e EXCEPT !.last = turns[s], !.stops = @ + 1, !.attempts = 0] \in Entry
    BY <1>2, EntryStopped
  <2>2. [e EXCEPT !.ended = TRUE] \in Entry
    BY <1>2, EntryEnded
  <2>3. ASSUME NEW x \in Entry, pending' = [pending EXCEPT ![s] = x]
        PROVE  pending' \in [Sessions -> Entry \cup {None}]
    BY <2>3 DEF Typed, TypeOK
  <2>4. QED
    BY <2>1, <2>2, <2>3 DEF UpsertStop, MarkEnded
<1>4. history' \in [Sessions -> History]
  <2>1. history \in [Sessions -> History] /\ history[s] \in History
        /\ history[s].stops + 1 \in Nat
    BY <1>1 DEF Typed, TypeOK, History
  <2>2. [history[s] EXCEPT !.tries = 0, !.stops = @ + 1] \in History
        /\ [history[s] EXCEPT !.tries = 0] \in History
    BY <2>1, HistoryTypes
  <2>3. QED
    BY <2>1, <2>2 DEF UpsertStop, MarkEnded
<1>5. hook' \in [Hooks -> HookState] /\ InHand' /\ OffsetsBehind'
  <2>1. l \in HookLabel /\ l \notin {"write", "offset"}
    BY DEF HookLabel
  <2>2. hook' = [hook EXCEPT ![h] = v]
    BY DEF UpsertStop, MarkEnded
  <2> HIDE DEF l
  <2>3. v \in HookState /\ v.at = l /\ v.s = s
    BY <1>1, <2>1 DEF HookState
  <2> HIDE DEF v
  <2>4. QED
    BY <2>1, <2>2, <2>3, <1>1, HookStays DEF UpsertStop, MarkEnded, env
<1>6. QED
  BY <1>3, <1>4, <1>5 DEF UpsertStop, MarkEnded, env, Typed, TypeOK

\* What is between the offset and the end of the transcript is added to an entry.
LEMMA ScanEntry ==
  ASSUME Typed, NEW s \in Sessions, pending[s] # None
  PROVE  [pending[s] EXCEPT !.tools = @ + turns[s] - offset[s]] \in Entry
<1>1. turns[s] - offset[s] \in Nat
  BY BoundsAssumption DEF Typed, TypeOK, OffsetsBehind
<1>2. pending[s] \in Entry /\ pending[s].tools + (turns[s] - offset[s]) \in Nat
  BY <1>1 DEF Typed, TypeOK, Entry
<1>3. pending[s].tools + turns[s] - offset[s] \in Nat
  BY <1>1, <1>2, BoundsAssumption DEF Entry, Typed, TypeOK
<1>4. QED
  BY <1>2, <1>3, EntryScanned

\* scanTranscript adds what lies between the offset and the end.
LEMMA ScanTyped == ASSUME Typed, NEW h \in Hooks, Scan(h) PROVE Typed'
<1> DEFINE s == hook[h].s
           v == [hook[h] EXCEPT !.at = "offset", !.upto = turns[s]]
<1>1. hook[h] \in HookState /\ s \in Sessions /\ hook[h].at # "idle"
  BY HookSession DEF Scan, Typed, TypeOK
<1>2. /\ turns[s] \in 0..MaxTurns /\ turns[s] - offset[s] \in Nat
      /\ turns[s] <= turns[s]
  BY <1>1, BoundsAssumption DEF Typed, TypeOK, OffsetsBehind
<1>3. pending' \in [Sessions -> Entry \cup {None}]
  <2>1. CASE pending[s] # None
    <3>1. [pending[s] EXCEPT !.tools = @ + turns[s] - offset[s]] \in Entry
      BY <1>1, <2>1, ScanEntry
    <3>2. QED
      BY <3>1, <1>1 DEF Scan, Typed, TypeOK
  <2>2. CASE pending[s] = None
    BY <2>2 DEF Scan, Typed, TypeOK
  <2>3. QED
    BY <2>1, <2>2
<1>4. hook' \in [Hooks -> HookState] /\ InHand' /\ OffsetsBehind'
  <2>1. CASE hook' = [hook EXCEPT ![h].at = "unlock"]
    <3>1. "unlock" \in HookLabel \ {"write", "offset"}
      BY DEF HookLabel
    <3>2. QED
      BY <2>1, <3>1, <1>1, HookGoes DEF Scan, env
  <2>2. CASE hook' = [hook EXCEPT ![h] = v]
    <3>1. "offset" \in HookLabel
      BY DEF HookLabel
    <3>2. v \in HookState /\ v.at = "offset" /\ v.s = s /\ v.upto = turns[s]
      BY <1>1, <1>2, <3>1 DEF HookState
    <3> HIDE DEF v
    <3>3. QED
      BY <2>2, <3>2, <1>1, <1>2, HookStays DEF Scan, env
  <2>3. QED
    BY <2>1, <2>2 DEF Scan
<1>5. QED
  BY <1>3, <1>4 DEF Scan, env, seen, Typed, TypeOK

\* The offset that is written is not past the end of the transcript.
LEMMA OffsetTyped == ASSUME Typed, NEW h \in Hooks, WriteOffset(h) PROVE Typed'
<1> DEFINE s == hook[h].s
           v == [hook[h] EXCEPT !.at = "unlock", !.upto = 0]
<1>1. /\ hook[h] \in HookState /\ s \in Sessions /\ hook[h].upto \in 0..MaxTurns
      /\ hook[h].upto <= turns[s]
  BY HookSession DEF WriteOffset, Typed, TypeOK, HookState, OffsetsBehind
<1>2. /\ offset' \in [Sessions -> 0..MaxTurns]
      /\ \A t \in Sessions : turns[t] <= turns'[t] /\ offset'[t] <= turns'[t]
  BY <1>1, BoundsAssumption DEF WriteOffset, env, Typed, TypeOK, OffsetsBehind
<1>3. hook' \in [Hooks -> HookState] /\ InHand' /\ OffsetsBehind'
  <2>1. "unlock" \in HookLabel /\ 0 \in 0..MaxTurns
    BY BoundsAssumption DEF HookLabel
  <2>2. v \in HookState /\ v.at = "unlock" /\ v.s = s
    BY <1>1, <2>1 DEF HookState
  <2>3. hook' = [hook EXCEPT ![h] = v]
    BY DEF WriteOffset
  <2> HIDE DEF v
  <2>4. QED
    BY <2>2, <2>3, <1>1, <1>2, HookMoves DEF WriteOffset, env, Typed, TypeOK
<1>4. QED
  BY <1>1, <1>2, <1>3 DEF WriteOffset, env, buckets, seen, Typed, TypeOK

-----------------------------------------------------------------------------
(* Typing of the worker, the operator and the environment.                 *)

\* The worker moves to a state with a session and its entry in hand.
LEMMA WorkerMoves ==
  ASSUME Typed, NEW w \in WorkerState, worker' = w,
         w.at \notin {"idle", "next"} => w.s \in Sessions,
         w.at = "await" => w.list[w.s] # None,
         UNCHANGED <<turns, offset, hook, operator>>
  PROVE  worker' \in WorkerState /\ InHand' /\ OffsetsBehind'
<1>1. InHand'
  BY DEF Typed, InHand
<1>2. OffsetsBehind'
  BY DEF Typed, OffsetsBehind
<1>3. QED
  BY <1>1, <1>2

\* A worker that drops an entry goes on with the next one or is idle.
LEMMA DropType ==
  ASSUME Typed, NEW s \in Sessions
  PROVE  Drop(s) \in WorkerState /\ Drop(s).at \in {"idle", "next"}
<1> DEFINE l == [worker.list EXCEPT ![s] = None]
           w == [worker EXCEPT !.at = "next", !.list = l, !.s = None, !.upto = 0, !.to = "done"]
<1>1. worker \in WorkerState
  BY DEF Typed, TypeOK
<1>2. /\ l \in [Sessions -> Entry \cup {None}] /\ "next" \in WorkerLabel
      /\ 0 \in 0..MaxTurns
  BY <1>1, BoundsAssumption DEF WorkerState, WorkerLabel
<1> HIDE DEF l
<1>3. w \in WorkerState /\ w.at = "next"
  BY <1>1, <1>2 DEF WorkerState
<1>4. IdleWorker \in WorkerState /\ IdleWorker.at = "idle"
  BY IdleTypes DEF IdleWorker
<1>5. Drop(s) = w \/ Drop(s) = IdleWorker
  BY DEF Drop, l
<1>6. QED
  BY <1>3, <1>4, <1>5

\* A worker that begins moveToTerminal has the session in hand.
LEMMA MoveToType ==
  ASSUME Typed, NEW s \in Sessions, NEW b \in {"done", "failed"}
  PROVE  /\ MoveTo(s, b) \in WorkerState /\ MoveTo(s, b).at = "copy"
         /\ MoveTo(s, b).s = s
<1>1. worker \in WorkerState /\ "copy" \in WorkerLabel
  BY DEF Typed, TypeOK, WorkerLabel
<1>2. QED
  BY <1>1 DEF MoveTo, WorkerState

\* A pass starts with a listing of the pending bucket.
LEMMA PassTyped ==
  ASSUME Typed, StartPass PROVE Typed'
<1> DEFINE w == [IdleWorker EXCEPT !.at = "next", !.list = pending]
<1>1. /\ IdleWorker \in WorkerState /\ "next" \in WorkerLabel
      /\ pending \in [Sessions -> Entry \cup {None}]
  BY IdleTypes DEF Typed, TypeOK, WorkerLabel
<1>2. w \in WorkerState /\ w.at = "next"
  BY <1>1 DEF WorkerState
<1> HIDE DEF w
<1>3. worker' = w
  BY DEF StartPass, w
<1>4. QED
  BY <1>2, <1>3, WorkerMoves DEF StartPass, env, buckets, seen, Typed, TypeOK

\* eligible() and the guard: an entry older than the session's newest
\* reflection is not reflected, and only such an entry is taken for reflected.
LEMMA VerdictsGuard ==
  ASSUME NEW s, NEW e
  PROVE  /\ "exists" \in Verdicts(s, e) => Written(s) > e.epoch
         /\ "reflect" \in Verdicts(s, e) => ~(Written(s) > e.epoch)
BY DEF Verdicts

\* The newest reflection of a reflected session covers some turns.
LEMMA NewestType ==
  ASSUME TypeOK, NEW s \in Sessions, Written(s) > 0
  PROVE  Last(reflections[s]).upto \in 0..MaxTurns
<1> DEFINE R == [upto : 0..MaxTurns, epoch : Nat]
<1>1. reflections[s] \in Seq(R)
  BY DEF TypeOK
<1>2. Len(reflections[s]) \in DOMAIN reflections[s]
  BY <1>1 DEF Written
<1> HIDE DEF R
<1>3. reflections[s][Len(reflections[s])] \in R
  BY <1>1, <1>2
<1>4. QED
  BY <1>3 DEF Last, R

\* The verdict on an entry sends it to the critic, to a bucket or nowhere.
LEMMA JudgeTyped == ASSUME Typed, NEW s \in Sessions, Judge(s) PROVE Typed'
<1> DEFINE e == worker.list[s]
<1>1. /\ worker \in WorkerState /\ e \in Entry /\ turns[s] \in 0..MaxTurns
      /\ "await" \in WorkerLabel
  BY DEF Judge, Typed, TypeOK, WorkerState, WorkerLabel
<1>2. worker' \in WorkerState /\ InHand' /\ OffsetsBehind'
  <2>1. CASE worker' = Drop(s)
    BY <2>1, DropType, WorkerMoves DEF Judge, env
  <2>2. CASE worker' = [worker EXCEPT !.at = "await", !.s = s, !.upto = turns[s]]
    <3> DEFINE w == [worker EXCEPT !.at = "await", !.s = s, !.upto = turns[s]]
    <3>1. w \in WorkerState /\ w.s = s /\ w.list[s] # None
      BY <1>1 DEF WorkerState, Judge
    <3>2. worker' = w
      BY <2>2
    <3> HIDE DEF w
    <3>3. QED
      BY <3>1, <3>2, WorkerMoves DEF Judge, env
  <2>3. ASSUME NEW b \in {"done", "failed"}, NEW k \in 0..MaxTurns,
               worker' = [MoveTo(s, b) EXCEPT !.upto = k]
        PROVE  worker' \in WorkerState /\ InHand' /\ OffsetsBehind'
    <3> DEFINE m == MoveTo(s, b)
               w == [m EXCEPT !.upto = k]
    <3>1. m \in WorkerState /\ m.at = "copy" /\ m.s = s
      BY MoveToType
    <3>2. worker' = w
      BY <2>3
    <3> HIDE DEF m
    <3>3. w \in WorkerState /\ w.at = "copy" /\ w.s = s
      BY <3>1 DEF WorkerState
    <3> HIDE DEF w
    <3>4. QED
      BY <3>2, <3>3, WorkerMoves DEF Judge, env
  <2>4. PICK v \in Verdicts(s, e) : worker' =
            IF v = "wait" \/ (worker.broken /\ v # "unknown") THEN Drop(s)
            ELSE IF v = "reflect" THEN [worker EXCEPT !.at = "await", !.s = s, !.upto = turns[s]]
            ELSE [MoveTo(s, IF v = "unknown" THEN "failed" ELSE "done")
                    EXCEPT !.upto = IF v = "exists" THEN Last(reflections[s]).upto ELSE turns[s]]
    BY DEF Judge
  <2>5. (IF v = "exists" THEN Last(reflections[s]).upto ELSE turns[s]) \in 0..MaxTurns
    <3>1. CASE v = "exists"
      <4>1. Written(s) > e.epoch /\ e.epoch \in Nat /\ Written(s) \in Nat
        BY <3>1, <2>4, <1>1, VerdictsGuard, WrittenType DEF Entry, Typed
      <4>2. Written(s) > 0
        BY <4>1
      <4>3. QED
        BY <4>2, <3>1, NewestType DEF Typed
    <3>2. CASE v # "exists"
      BY <3>2, <1>1
    <3>3. QED
      BY <3>1, <3>2
  <2>6. QED
    BY <2>1, <2>2, <2>3, <2>4, <2>5
<1>3. QED
  BY <1>2 DEF Judge, env, buckets, seen, Typed, TypeOK

\* The answer of the critic: a reflection, or none, or another try.
LEMMA AnswerTyped == ASSUME Typed, NEW s \in Sessions, Answer(s) PROVE Typed'
<1> DEFINE e == worker.list[s]
           R == [upto : 0..MaxTurns, epoch : Nat]
<1>1. /\ worker \in WorkerState /\ e \in Entry /\ worker.upto \in 0..MaxTurns
      /\ history \in [Sessions -> History] /\ history[s] \in History
      /\ history[s].tries + 1 \in Nat /\ e.epoch \in Nat
  BY DEF Answer, Typed, TypeOK, InHand, WorkerState, History, Entry
<1>2. pending' \in [Sessions -> Entry \cup {None}]
  <2>1. ASSUME NEW x \in Entry, pending' = [pending EXCEPT ![s] = x]
        PROVE  pending' \in [Sessions -> Entry \cup {None}]
    BY <2>1 DEF Typed, TypeOK
  <2>2. [e EXCEPT !.attempts = @ + 1] \in Entry
    BY <1>1, EntryTried
  <2>3. CASE UNCHANGED pending
    BY <2>3 DEF Typed, TypeOK
  <2>4. QED
    BY <2>1, <2>2, <2>3, <1>1
    DEF Answer, Recorded, NotRecorded, FailedInPassing, NotConfigured, Broke, PutBack
<1>3. reflections' \in [Sessions -> Seq(R)]
  <2>1. reflections \in [Sessions -> Seq(R)]
    BY DEF Typed, TypeOK
  <2>2. CASE UNCHANGED reflections
    BY <2>1, <2>2
  <2>3. CASE Recorded(s, e)
    <3> DEFINE r == [upto |-> worker.upto, epoch |-> e.epoch]
    <3>1. r \in R
      BY <1>1
    <3>2. reflections' = [reflections EXCEPT ![s] = Append(reflections[s], r)]
      BY <2>3 DEF Recorded
    <3> HIDE DEF r, R
    <3>3. Append(reflections[s], r) \in Seq(R)
      BY <2>1, <3>1
    <3>4. QED
      BY <3>2, <3>3, <2>1
  <2>4. QED
    BY <2>2, <2>3
    DEF Answer, NotRecorded, FailedInPassing, NotConfigured, Broke, PutBack
<1>4. history' \in [Sessions -> History]
  <2>1. ASSUME NEW x \in History, history' = [history EXCEPT ![s] = x]
        PROVE  history' \in [Sessions -> History]
    BY <2>1, <1>1
  <2>2. /\ [history[s] EXCEPT !.tries = @ + 1, !.stops = 0] \in History
        /\ [history[s] EXCEPT !.tries = @ + 1] \in History
        /\ [history[s] EXCEPT !.stops = 0] \in History
    BY <1>1, HistoryTypes
  <2>3. QED
    BY <2>1, <2>2, <1>1
    DEF Answer, Recorded, NotRecorded, FailedInPassing, NotConfigured, Broke
<1>5. worker' \in WorkerState /\ InHand' /\ OffsetsBehind'
  <2>1. /\ MoveTo(s, "done") \in WorkerState /\ MoveTo(s, "done").at = "copy"
        /\ MoveTo(s, "done").s = s
        /\ MoveTo(s, "failed") \in WorkerState /\ MoveTo(s, "failed").at = "copy"
        /\ MoveTo(s, "failed").s = s
    BY MoveToType
  <2>2. CASE worker' = MoveTo(s, "done") \/ worker' = MoveTo(s, "failed")
    BY <2>1, <2>2, WorkerMoves DEF Answer, env
  <2>3. CASE worker' = Drop(s) \/ worker' = IdleWorker
    <3>1. IdleWorker \in WorkerState /\ IdleWorker.at = "idle"
      BY IdleTypes DEF IdleWorker
    <3>2. QED
      BY <3>1, <2>3, DropType, WorkerMoves DEF Answer, env
  <2>4. CASE worker' = [Drop(s) EXCEPT !.broken = TRUE]
    <3> DEFINE d == Drop(s)
               w == [d EXCEPT !.broken = TRUE]
    <3>1. d \in WorkerState /\ d.at \in {"idle", "next"}
      BY DropType
    <3>2. worker' = w
      BY <2>4
    <3> HIDE DEF d
    <3>3. w \in WorkerState /\ w.at \in {"idle", "next"}
      BY <3>1 DEF WorkerState
    <3> HIDE DEF w
    <3>4. QED
      BY <3>2, <3>3, WorkerMoves DEF Answer, env
  <2>5. QED
    BY <2>2, <2>3, <2>4
    DEF Answer, Recorded, NotRecorded, FailedInPassing, NotConfigured, Broke
<1>6. QED
  BY <1>2, <1>3, <1>4, <1>5 DEF Answer, env, Typed, TypeOK

\* moveEntry and reapSessionDir for the entry in hand.
LEMMA MoveTyped ==
  ASSUME Typed, NEW s \in Sessions, CopyEntry(s) \/ RemoveEntry(s) \/ ReapSessionDir(s)
  PROVE  Typed'
<1>1. /\ worker \in WorkerState /\ {"remove", "reap"} \subseteq WorkerLabel
      /\ 0 \in 0..MaxTurns /\ history \in [Sessions -> History] /\ history[s] \in History
  BY BoundsAssumption DEF Typed, TypeOK, WorkerLabel
<1>2. ASSUME NEW l \in {"remove", "reap"}, worker' = [worker EXCEPT !.at = l], worker.s = s,
             UNCHANGED <<turns, offset, hook, operator>>
      PROVE  worker' \in WorkerState /\ InHand' /\ OffsetsBehind'
  <2> DEFINE w == [worker EXCEPT !.at = l]
  <2>1. w \in WorkerState /\ w.at = l /\ w.s = s
    BY <1>1, <1>2 DEF WorkerState
  <2>2. worker' = w
    BY <1>2
  <2> HIDE DEF w
  <2>3. QED
    BY <1>2, <2>1, <2>2, WorkerMoves
<1>3. ASSUME NEW x \in History, history' = [history EXCEPT ![s] = x]
      PROVE  history' \in [Sessions -> History]
  BY <1>1, <1>3
<1>4. CASE CopyEntry(s)
  BY <1>2, <1>4 DEF CopyEntry, Copied, env, buckets, seen, Typed, TypeOK
<1>5. CASE RemoveEntry(s)
  <2>1. [history[s] EXCEPT !.stops = 0] \in History
    BY <1>1, HistoryTypes
  <2>2. history' \in [Sessions -> History]
    BY <2>1, <1>3, <1>5 DEF RemoveEntry, Removed
  <2>3. QED
    BY <1>2, <1>5, <2>2 DEF RemoveEntry, Removed, env, Typed, TypeOK
<1>6. CASE ReapSessionDir(s)
  <2>1. [history[s] EXCEPT !.torn = @ \/ Locked(s)] \in History
    BY <1>1, HistoryTypes DEF Locked, History
  <2>2. history' \in [Sessions -> History]
    BY <2>1, <1>3, <1>6 DEF ReapSessionDir, Reaped
  <2>3. Drop(s) \in WorkerState /\ Drop(s).at \in {"idle", "next"} /\ worker' = Drop(s)
    BY <1>6, DropType DEF ReapSessionDir
  <2>4. InHand'
    BY <1>6, <2>3 DEF ReapSessionDir, Typed, InHand
  <2>5. /\ offset' \in [Sessions -> 0..MaxTurns]
        /\ OffsetsBehind'
    BY <1>6, BoundsAssumption DEF ReapSessionDir, Reaped, env, Typed, TypeOK, OffsetsBehind
  <2>6. QED
    BY <1>6, <2>2, <2>3, <2>4, <2>5 DEF ReapSessionDir, Reaped, env, buckets, Typed, TypeOK
<1>7. QED
  BY <1>4, <1>5, <1>6

\* A mishap is counted within its bound.
LEMMA MishapCounted ==
  ASSUME TypeOK, Mishap
  PROVE  used' \in [ends : [Sessions -> 0..MaxEnds], mishaps : 0..MaxMishaps]
<1>1. /\ used \in [ends : [Sessions -> 0..MaxEnds], mishaps : 0..MaxMishaps]
      /\ used.mishaps < MaxMishaps /\ MaxMishaps \in Nat
  BY BoundsAssumption DEF TypeOK, Mishap
<1>2. used.mishaps + 1 \in 0..MaxMishaps
  BY <1>1
<1>3. used' = [used EXCEPT !.mishaps = used.mishaps + 1]
  BY DEF Mishap
<1>4. QED
  BY <1>1, <1>2, <1>3

\* The operator moves to a state with a session and its entry in hand.
LEMMA OperatorMoves ==
  ASSUME Typed, NEW o \in OperatorState, operator' = o,
         o.at # "idle" => o.s \in Sessions, o.at = "mark" => o.copy # None,
         UNCHANGED <<hook, worker>>
  PROVE  operator' \in OperatorState /\ InHand'
BY DEF Typed, InHand

\* `sil reflect` and `queue skip` write back what they loaded, or move it.
LEMMA CommandTyped ==
  ASSUME Typed, NEW s \in Sessions, StartCommand(s) \/ CmdReflect(s) \/ SkipSession(s)
  PROVE  Typed'
<1>1. /\ operator \in OperatorState /\ history \in [Sessions -> History]
      /\ {"mark", "copy", "remove", "reap"} \subseteq OperatorLabel
      /\ history[s] \in History /\ IdleOperator \in OperatorState /\ IdleOperator.at = "idle"
  BY IdleTypes DEF Typed, TypeOK, OperatorLabel, IdleOperator
<1>2. ASSUME NEW x \in History, history' = [history EXCEPT ![s] = x]
      PROVE  history' \in [Sessions -> History]
  BY <1>1, <1>2
<1>3. CASE StartCommand(s)
  <2>1. used' \in [ends : [Sessions -> 0..MaxEnds], mishaps : 0..MaxMishaps]
    BY <1>3, MishapCounted DEF StartCommand, Typed
  <2>2. PICK at \in {"mark", "copy"} : operator' = [at |-> at, s |-> s, copy |-> pending[s]]
    BY <1>3 DEF StartCommand
  <2>3. operator' \in OperatorState /\ InHand'
    BY <1>1, <1>3, <2>2 DEF StartCommand, OperatorState, Typed, TypeOK, InHand
  <2>4. QED
    BY <1>3, <2>1, <2>3 DEF StartCommand, buckets, seen, Typed, TypeOK, OffsetsBehind
<1>4. CASE CmdReflect(s)
  <2>1. operator.copy \in Entry
    BY <1>1, <1>4 DEF CmdReflect, OperatorState, Typed, InHand
  <2>2. [operator.copy EXCEPT !.ended = TRUE] \in Entry
    BY <2>1, EntryEnded
  <2>3. ASSUME NEW x \in Entry, pending' = [pending EXCEPT ![s] = x]
        PROVE  pending' \in [Sessions -> Entry \cup {None}]
    BY <2>3 DEF Typed, TypeOK
  <2>4. [history[s] EXCEPT !.tries = 0, !.stops = 0] \in History
    BY <1>1, HistoryTypes
  <2>5. pending' \in [Sessions -> Entry \cup {None}]
    BY <1>4, <2>2, <2>3 DEF CmdReflect
  <2>6. history' \in [Sessions -> History]
    BY <1>2, <1>4, <2>4 DEF CmdReflect
  <2>7. operator' \in OperatorState /\ InHand'
    BY <1>1, <1>4, OperatorMoves DEF CmdReflect
  <2>8. QED
    BY <1>4, <2>5, <2>6, <2>7 DEF CmdReflect, env, Typed, TypeOK, OffsetsBehind
<1>5. CASE SkipSession(s)
  <2>1. operator' \in OperatorState /\ InHand'
    <3>1. ASSUME NEW l \in {"remove", "reap"}, operator' = [operator EXCEPT !.at = l]
          PROVE  operator' \in OperatorState /\ InHand'
      <4> DEFINE o == [operator EXCEPT !.at = l]
      <4>1. o \in OperatorState /\ o.at = l /\ o.s = s
        BY <1>1, <1>5 DEF SkipSession, OperatorState
      <4>2. operator' = o
        BY <3>1
      <4> HIDE DEF o
      <4>3. QED
        BY <1>5, <4>1, <4>2, OperatorMoves DEF SkipSession
    <3>2. QED
      BY <1>1, <1>5, <3>1, OperatorMoves DEF SkipSession
  <2>2. /\ [history[s] EXCEPT !.stops = 0] \in History
        /\ [history[s] EXCEPT !.torn = @ \/ Locked(s)] \in History
    BY <1>1, HistoryTypes DEF Locked, History
  <2>3. history' \in [Sessions -> History]
    BY <1>1, <1>2, <1>5, <2>2 DEF SkipSession, Removed, Reaped
  <2>4. offset' \in [Sessions -> 0..MaxTurns] /\ OffsetsBehind'
    <3>1. /\ offset \in [Sessions -> 0..MaxTurns] /\ turns \in [Sessions -> 0..MaxTurns]
          /\ 0 \in 0..MaxTurns /\ UNCHANGED <<turns, hook>>
      BY <1>5, BoundsAssumption DEF SkipSession, env, Typed, TypeOK
    <3>2. offset' = offset \/ offset' = [offset EXCEPT ![s] = 0]
      BY <1>5 DEF SkipSession, Reaped
    <3>3. QED
      BY <3>1, <3>2 DEF Typed, OffsetsBehind
  <2>5. /\ pending' \in [Sessions -> Entry \cup {None}] /\ done' \subseteq Sessions
        /\ failed' = failed /\ sdir' \subseteq Sessions
        /\ slock' \in [Sessions -> Hooks \cup {None}]
    BY <1>5 DEF SkipSession, Copied, Removed, Reaped, buckets, Typed, TypeOK
  <2>6. QED
    BY <1>5, <2>1, <2>3, <2>4, <2>5 DEF SkipSession, env, Typed, TypeOK
<1>6. QED
  BY <1>3, <1>4, <1>5

\* A transcript is deleted, or a process dies.
LEMMA MishapTyped ==
  ASSUME Typed, Crash \/ \E s \in Sessions : TranscriptGoes(s) PROVE Typed'
<1>1. used' \in [ends : [Sessions -> 0..MaxEnds], mishaps : 0..MaxMishaps]
  BY MishapCounted DEF Crash, TranscriptGoes, Typed
<1>2. /\ IdleHook \in HookState /\ IdleWorker \in WorkerState /\ IdleOperator \in OperatorState
      /\ IdleHook.at = "idle" /\ IdleWorker.at = "idle" /\ IdleOperator.at = "idle"
  BY IdleTypes DEF IdleHook, IdleWorker, IdleOperator
<1>3. ASSUME NEW s \in Sessions, TranscriptGoes(s) PROVE Typed'
  BY <1>1, <1>3 DEF TranscriptGoes, buckets, seen, Typed, TypeOK, InHand, OffsetsBehind
<1>4. CASE Crash
  <2>1. /\ hook' \in [Hooks -> HookState] /\ worker' \in WorkerState
        /\ operator' \in OperatorState /\ InHand' /\ OffsetsBehind'
    <3>1. ASSUME NEW h \in Hooks, hook' = [hook EXCEPT ![h] = IdleHook], UNCHANGED <<worker, operator>>
          PROVE  hook' \in [Hooks -> HookState] /\ InHand' /\ OffsetsBehind'
      BY <1>4, <3>1, HookEnds DEF Crash
    <3>2. CASE worker' = IdleWorker /\ UNCHANGED <<hook, operator>>
      BY <1>2, <1>4, <3>2, WorkerMoves DEF Crash, Typed, TypeOK
    <3>3. CASE operator' = IdleOperator /\ UNCHANGED <<hook, worker>>
      <4>1. operator' \in OperatorState /\ InHand'
        BY <1>2, <3>3, OperatorMoves
      <4>2. QED
        BY <1>4, <3>3, <4>1 DEF Crash, Typed, TypeOK, OffsetsBehind
    <3>4. QED
      BY <1>4, <3>1, <3>2, <3>3 DEF Crash, Typed, TypeOK
  <2>2. QED
    BY <1>1, <1>4, <2>1 DEF Crash, buckets, seen, Typed, TypeOK
<1>5. QED
  BY <1>3, <1>4

\* The types hold at the start.
LEMMA TypedInit == Init => Typed
<1> SUFFICES ASSUME Init PROVE Typed
  OBVIOUS
<1>1. TypeOK
  <2>1. ASSUME NEW s \in Sessions PROVE <<>> \in Seq([upto : 0..MaxTurns, epoch : Nat])
    OBVIOUS
  <2>2. QED
    BY <2>1, IdleTypes, BoundsAssumption DEF Init, TypeOK, History
<1>2. InHand /\ OffsetsBehind
  BY BoundsAssumption DEF Init, InHand, OffsetsBehind, IdleHook, IdleWorker, IdleOperator
<1>3. QED
  BY <1>1, <1>2 DEF Typed

\* Every step of a hook, the worker or the operator keeps the types.
LEMMA TypedNext == Typed /\ [Next]_vars => Typed'
<1> SUFFICES ASSUME Typed, [Next]_vars PROVE Typed'
  OBVIOUS
<1>1. ASSUME NEW h \in Hooks, HookStep(h) PROVE Typed'
  BY <1>1, LockTyped, ReadTyped, WriteTyped, ScanTyped, OffsetTyped DEF HookStep
<1>2. ASSUME NEW h \in Hooks, NEW s \in Sessions, Deliver(h, s) PROVE Typed'
  BY <1>2, DeliverTyped
<1>3. CASE WorkerStep
  BY <1>3, PassTyped, JudgeTyped, MoveTyped DEF WorkerStep
<1>4. ASSUME NEW s \in Sessions, Answer(s) PROVE Typed'
  BY <1>4, AnswerTyped
<1>5. ASSUME NEW s \in Sessions, StartCommand(s) \/ CmdReflect(s) \/ SkipSession(s) PROVE Typed'
  BY <1>5, CommandTyped
<1>6. CASE Crash \/ \E s \in Sessions : TranscriptGoes(s)
  BY <1>6, MishapTyped
<1>7. CASE UNCHANGED vars
  BY <1>7 DEF vars, Typed, TypeOK, InHand, OffsetsBehind
<1>8. QED
  BY <1>1, <1>2, <1>3, <1>4, <1>5, <1>6, <1>7 DEF Next

\* Every reachable state of the queue, its hooks, worker and operator is typed.
THEOREM Typing == Spec => []TypeOK
<1>1. Spec => []Typed
  BY TypedInit, TypedNext, PTL DEF Spec
<1>2. Typed => TypeOK
  BY DEF Typed
<1>3. QED
  BY <1>1, <1>2, PTL

-----------------------------------------------------------------------------
(* One entry, one reflection.                                              *)

Epochs == EpochsPassed /\ AskedOnce /\ EpochsInOrder

\* While no reflection is written, only entries that are dated already matter.
LEMMA EpochsKept ==
  ASSUME Typed, Epochs, UNCHANGED reflections,
         \A s \in Sessions : Dated(s, pending'[s]) /\ Dated(s, worker'.list[s]),
         \A h \in Hooks : hook'[h].at = "write" => Dated(hook'[h].s, hook'[h].copy),
         operator'.at = "mark" => Dated(operator'.s, operator'.copy),
         worker'.at = "await" => worker'.list[worker'.s].epoch = Written(worker'.s)
  PROVE  Epochs'
BY DEF Epochs, EpochsPassed, AskedOnce, EpochsInOrder, Dated, Written

\* A hook has an entry to write when it has read one.
LEMMA HookWrites ==
  ASSUME Typed, NEW h \in Hooks, ~ReadEntry(h),
         HookStep(h) \/ \E s \in Sessions : Deliver(h, s)
  PROVE  hook'[h].at # "write"
<1>1. hook \in [Hooks -> HookState] /\ hook[h] \in HookState /\ IdleHook.at = "idle"
  BY DEF Typed, TypeOK, IdleHook
<1>2. ASSUME NEW t \in Sessions, Deliver(h, t) PROVE hook'[h].at # "write"
  <2>1. CASE hook' = hook
    BY <1>2, <2>1 DEF Deliver
  <2>2. ASSUME NEW k, hook' = [hook EXCEPT ![h] = [IdleHook EXCEPT !.at = "dir", !.kind = k, !.s = t]]
        PROVE  hook'[h].at # "write"
    BY <1>1, <2>2 DEF IdleHook
  <2>3. QED
    BY <1>2, <2>1, <2>2 DEF Deliver
<1>3. CASE MakeSessionDir(h) \/ SessionLock(h) \/ ReclaimLock(h)
  BY <1>1, <1>3 DEF MakeSessionDir, SessionLock, ReclaimLock, HookState
<1>4. CASE NoSessionDir(h) \/ LockTimeout(h) \/ SessionUnlock(h)
  BY <1>1, <1>4 DEF NoSessionDir, LockTimeout, SessionUnlock
<1>5. CASE UpsertStop(h)
  BY <1>1, <1>5 DEF UpsertStop, HookState
<1>6. CASE MarkEnded(h)
  BY <1>1, <1>6 DEF MarkEnded, HookState
<1>7. CASE Scan(h)
  BY <1>1, <1>7 DEF Scan, HookState
<1>8. CASE WriteOffset(h)
  BY <1>1, <1>8 DEF WriteOffset, HookState
<1>9. QED
  BY <1>2, <1>3, <1>4, <1>5, <1>6, <1>7, <1>8 DEF HookStep

\* A hook reads an entry, or makes one dated now, and writes it back.
LEMMA HookEpochs ==
  ASSUME Typed, Epochs, NEW h \in Hooks,
         HookStep(h) \/ \E s \in Sessions : Deliver(h, s)
  PROVE  Epochs'
<1> USE DEF env, buckets, seen
<1> DEFINE s == hook[h].s
<1>1. UNCHANGED <<worker, operator, reflections>>
  BY DEF HookStep, Deliver, MakeSessionDir, NoSessionDir, SessionLock, ReclaimLock,
     LockTimeout, ReadEntry, UpsertStop, MarkEnded, Scan, WriteOffset, SessionUnlock
<1>2. /\ hook \in [Hooks -> HookState] /\ pending \in [Sessions -> Entry \cup {None}]
      /\ hook[h].at # "idle" => s \in Sessions
  BY HookSession DEF Typed, TypeOK
<1>3. \A g \in Hooks \ {h} : hook'[g] = hook[g]
  BY <1>2
  DEF HookStep, Deliver, MakeSessionDir, NoSessionDir, SessionLock, ReclaimLock,
     LockTimeout, ReadEntry, UpsertStop, MarkEnded, Scan, WriteOffset, SessionUnlock
<1>4. hook'[h].at = "write" => Dated(hook'[h].s, hook'[h].copy)
  <2>1. CASE ReadEntry(h)
    <3>1. hook[h] \in HookState /\ Written(s) \in Nat
      BY <1>2, <2>1, WrittenType DEF ReadEntry, Typed
    <3>2. CASE hook' = [hook EXCEPT ![h].at = "unlock"]
      BY <1>2, <3>1, <3>2 DEF HookState
    <3>3. CASE hook' = [hook EXCEPT ![h].at = "write", ![h].copy = NewEntry(s)]
      <4>1. hook'[h].s = s /\ hook'[h].copy = NewEntry(s)
        BY <1>2, <3>1, <3>3 DEF HookState
      <4>2. NewEntry(s).epoch <= Written(s)
        BY <3>1 DEF NewEntry
      <4>3. QED
        BY <4>1, <4>2 DEF Dated
    <3>4. CASE hook' = [hook EXCEPT ![h].at = "write", ![h].copy = pending[s]]
      <4>1. hook'[h].s = s /\ hook'[h].copy = pending[s]
        BY <1>2, <3>1, <3>4 DEF HookState
      <4>2. Dated(s, pending[s])
        BY <1>2, <2>1 DEF Epochs, EpochsPassed, ReadEntry
      <4>3. QED
        BY <4>1, <4>2
    <3>5. QED
      BY <2>1, <3>2, <3>3, <3>4 DEF ReadEntry
  <2>2. CASE ~ReadEntry(h)
    BY <2>2, HookWrites
  <2>3. QED
    BY <2>1, <2>2
<1>5. \A t \in Sessions : Dated(t, pending'[t])
  <2>1. \A t \in Sessions : Dated(t, pending[t])
    BY DEF Epochs, EpochsPassed
  <2>2. ASSUME NEW x, s \in Sessions, Dated(s, x), pending' = [pending EXCEPT ![s] = x]
        PROVE  \A t \in Sessions : Dated(t, pending'[t])
    BY <1>2, <2>1, <2>2
  <2>3. CASE UpsertStop(h) \/ MarkEnded(h)
    <3> DEFINE e == hook[h].copy
               x == [e EXCEPT !.last = turns[s], !.stops = @ + 1, !.attempts = 0]
               y == [e EXCEPT !.ended = TRUE]
    <3>1. s \in Sessions /\ Dated(s, e) /\ e # None /\ e \in Entry
      BY <1>2, <2>3 DEF UpsertStop, MarkEnded, Epochs, EpochsPassed, Typed, InHand, HookState
    <3>2. x.epoch = e.epoch /\ y.epoch = e.epoch
      BY <3>1 DEF Entry
    <3>3. Dated(s, x) /\ Dated(s, y)
      BY <3>1, <3>2 DEF Dated
    <3>4. pending' = [pending EXCEPT ![s] = x] \/ pending' = [pending EXCEPT ![s] = y]
      BY <2>3 DEF UpsertStop, MarkEnded
    <3> HIDE DEF x, y
    <3>5. QED
      BY <2>2, <3>1, <3>3, <3>4
  <2>4. CASE Scan(h)
    <3> DEFINE x == [pending[s] EXCEPT !.tools = @ + turns[s] - offset[s]]
    <3>1. CASE UNCHANGED pending
      BY <2>1, <3>1
    <3>2. CASE pending[s] # None /\ pending' = [pending EXCEPT ![s] = x]
      <4>1. s \in Sessions /\ pending[s] \in Entry
        BY <1>2, <2>4, <3>2 DEF Scan
      <4>2. x.epoch = pending[s].epoch
        BY <4>1 DEF Entry
      <4>3. Dated(s, x)
        BY <2>1, <3>2, <4>1, <4>2 DEF Dated
      <4> HIDE DEF x
      <4>4. QED
        BY <2>2, <3>2, <4>1, <4>3
    <3>3. QED
      BY <2>4, <3>1, <3>2 DEF Scan
  <2>5. CASE ~(UpsertStop(h) \/ MarkEnded(h) \/ Scan(h))
    <3>1. UNCHANGED pending
      BY <2>5 DEF HookStep, Deliver, MakeSessionDir, NoSessionDir, SessionLock, ReclaimLock,
         LockTimeout, ReadEntry, WriteOffset, SessionUnlock
    <3>2. QED
      BY <2>1, <3>1
  <2>6. QED
    BY <2>3, <2>4, <2>5
<1>6. QED
  BY <1>1, <1>3, <1>4, <1>5, EpochsKept DEF Epochs, EpochsPassed, AskedOnce

\* The worker's copies are those of its listing, and the guard looks at the
\* reflections again before it asks.
LEMMA PassEpochs ==
  ASSUME Typed, Epochs, WorkerStep PROVE Epochs'
<1> USE DEF env, buckets, seen
<1>1. /\ UNCHANGED <<hook, operator, reflections>>
      /\ worker \in WorkerState /\ worker.list \in [Sessions -> Entry \cup {None}]
      /\ \A t \in Sessions : Dated(t, None)
  BY DEF WorkerStep, StartPass, Judge, CopyEntry, RemoveEntry, ReapSessionDir, Typed, TypeOK,
     WorkerState, Dated
<1>2. \A t \in Sessions : Dated(t, pending[t]) /\ Dated(t, worker.list[t])
  BY DEF Epochs, EpochsPassed
<1>3. SUFFICES /\ \A t \in Sessions : Dated(t, pending'[t]) /\ Dated(t, worker'.list[t])
               /\ worker'.at = "await" => worker'.list[worker'.s].epoch = Written(worker'.s)
  BY <1>1, EpochsKept DEF Epochs, EpochsPassed
<1>4. CASE StartPass
  BY <1>2, <1>4 DEF StartPass, IdleWorker
<1>5. ASSUME NEW s \in Sessions
      PROVE  Drop(s).at # "await" /\ \A t \in Sessions : Dated(t, Drop(s).list[t])
  <2>1. CASE Drop(s) = IdleWorker
    BY <1>1, <2>1 DEF IdleWorker
  <2>2. CASE Drop(s) = [worker EXCEPT !.at = "next", !.list[s] = None, !.s = None, !.upto = 0, !.to = "done"]
    BY <1>1, <1>2, <2>2 DEF WorkerState
  <2>3. QED
    BY <2>1, <2>2 DEF Drop
<1>6. ASSUME NEW s \in Sessions, Judge(s)
      PROVE  /\ \A t \in Sessions : Dated(t, worker'.list[t])
             /\ worker'.at = "await" => worker'.list[worker'.s].epoch = Written(worker'.s)
  <2> DEFINE e == worker.list[s]
  <2>1. CASE worker' = Drop(s)
    BY <1>5, <2>1
  <2>2. ASSUME NEW b, NEW k, worker' = [MoveTo(s, b) EXCEPT !.upto = k]
        PROVE  worker'.at # "await" /\ worker'.list = worker.list
    BY <1>1, <2>2 DEF MoveTo, WorkerState
  <2>3. CASE /\ worker' = [worker EXCEPT !.at = "await", !.s = s, !.upto = turns[s]]
             /\ "reflect" \in Verdicts(s, e)
    <3>1. worker'.list = worker.list /\ worker'.s = s
      BY <1>1, <2>3 DEF WorkerState
    <3>2. e # None /\ e \in Entry /\ Written(s) \in Nat /\ e.epoch \in Nat
      BY <1>1, <1>6, WrittenType DEF Judge, Typed, Entry
    <3>3. e.epoch <= Written(s) /\ ~(Written(s) > e.epoch)
      BY <1>2, <2>3, <3>2, VerdictsGuard DEF Dated
    <3>4. QED
      BY <1>2, <3>1, <3>2, <3>3
  <2>4. QED
    BY <1>2, <1>6, <2>1, <2>2, <2>3 DEF Judge
<1>7. ASSUME NEW s \in Sessions, CopyEntry(s) \/ RemoveEntry(s)
      PROVE  /\ \A t \in Sessions : Dated(t, pending'[t]) /\ Dated(t, worker'.list[t])
             /\ worker'.at # "await"
  <2>1. worker'.list = worker.list /\ worker'.at # "await"
    BY <1>1, <1>7 DEF CopyEntry, RemoveEntry, WorkerState
  <2>2. pending' = pending \/ pending' = [pending EXCEPT ![s] = None]
    BY <1>7 DEF CopyEntry, RemoveEntry, Removed
  <2>3. QED
    BY <1>1, <1>2, <2>1, <2>2 DEF Typed, TypeOK
<1>8. ASSUME NEW s \in Sessions, ReapSessionDir(s)
      PROVE  /\ \A t \in Sessions : Dated(t, pending'[t]) /\ Dated(t, worker'.list[t])
             /\ worker'.at # "await"
  BY <1>2, <1>5, <1>8 DEF ReapSessionDir
<1>9. QED
  BY <1>2, <1>4, <1>6, <1>7, <1>8 DEF WorkerStep, Judge

\* A reflection is of the epoch that is past when it is written.
LEMMA AnswerEpochs ==
  ASSUME Typed, Epochs, NEW s \in Sessions, Answer(s) PROVE Epochs'
<1> USE DEF env
<1> DEFINE e == worker.list[s]
<1>1. /\ UNCHANGED <<hook, operator>> /\ pending \in [Sessions -> Entry \cup {None}]
      /\ worker \in WorkerState /\ worker.list \in [Sessions -> Entry \cup {None}]
      /\ worker.at = "await" /\ worker.s = s
      /\ e # None /\ e \in Entry /\ e.epoch = Written(s) /\ Written(s) \in Nat
      /\ Dated(s, e) /\ \A t \in Sessions : Dated(t, None)
      /\ \A t \in Sessions : Dated(t, pending[t]) /\ Dated(t, worker.list[t])
  BY WrittenType DEF Answer, Typed, TypeOK, WorkerState, InHand, Epochs, EpochsPassed, AskedOnce, Dated
<1>2. /\ MoveTo(s, "done").at = "copy" /\ MoveTo(s, "done").list = worker.list
      /\ MoveTo(s, "failed").at = "copy" /\ MoveTo(s, "failed").list = worker.list
  BY <1>1 DEF MoveTo, WorkerState
<1>3. CASE Recorded(s, e)
  <2> DEFINE R == [upto : 0..MaxTurns, epoch : Nat]
             r == [upto |-> worker.upto, epoch |-> e.epoch]
  <2>1. /\ reflections \in [Sessions -> Seq(R)] /\ r \in R /\ r.epoch = Written(s)
        /\ reflections' = [reflections EXCEPT ![s] = Append(reflections[s], r)]
        /\ UNCHANGED pending /\ worker' = MoveTo(s, "done")
    BY <1>1, <1>3 DEF Recorded, Typed, TypeOK, WorkerState, Entry
  <2> HIDE DEF r, R
  <2>2. \A t \in Sessions : Written(t) \in Nat /\ Written(t)' \in Nat /\ Written(t) <= Written(t)'
    BY <2>1 DEF Written
  <2>3. \A t \in Sessions, x \in Entry \cup {None} : Dated(t, x) => (x # None => x.epoch <= Written(t)')
    <3>1. ASSUME NEW t \in Sessions, NEW x \in Entry, Dated(t, x), x # None
          PROVE  x.epoch <= Written(t)'
      <4>1. x.epoch \in Nat /\ x.epoch <= Written(t)
        BY <3>1 DEF Dated, Entry
      <4>2. QED
        BY <2>2, <4>1
    <3>2. QED
      BY <3>1
  <2>4. EpochsPassed'
    <3>1. ASSUME NEW h \in Hooks, hook'[h].at = "write" PROVE Dated(hook[h].s, hook[h].copy)'
      BY <1>1, <2>3, <3>1, HookSession DEF Typed, TypeOK, HookState, Epochs, EpochsPassed, Dated
    <3>2. operator'.at = "mark" => Dated(operator.s, operator.copy)'
      BY <1>1, <2>3 DEF Typed, TypeOK, InHand, OperatorState, Epochs, EpochsPassed, Dated
    <3>3. ASSUME NEW t \in Sessions PROVE Dated(t, pending[t])' /\ Dated(t, worker.list[t])'
      BY <1>1, <1>2, <2>1, <2>3 DEF Dated
    <3>4. QED
      BY <3>1, <3>2, <3>3 DEF EpochsPassed
  <2>5. AskedOnce'
    BY <1>2, <2>1 DEF AskedOnce
  <2>6. EpochsInOrder'
    <3>1. ASSUME NEW t \in Sessions, NEW i \in DOMAIN reflections'[t]
          PROVE  reflections'[t][i].epoch = i - 1
      <4>1. CASE t = s /\ i = Len(reflections[s]) + 1
        BY <2>1, <4>1 DEF Written
      <4>2. CASE ~(t = s /\ i = Len(reflections[s]) + 1)
        BY <2>1, <3>1, <4>2 DEF Epochs, EpochsInOrder
      <4>3. QED
        BY <4>1, <4>2
    <3>2. QED
      BY <3>1 DEF EpochsInOrder
  <2>7. QED
    BY <2>4, <2>5, <2>6 DEF Epochs
<1>4. CASE ~Recorded(s, e)
  <2>1. UNCHANGED reflections
    BY <1>4 DEF Answer, NotRecorded, FailedInPassing, NotConfigured, Broke, PutBack
  <2>2. \A t \in Sessions : Dated(t, pending'[t])
    <3> DEFINE x == [e EXCEPT !.attempts = @ + 1]
    <3>1. x.epoch = e.epoch
      BY <1>1 DEF Entry
    <3>2. Dated(s, x)
      BY <1>1, <3>1 DEF Dated
    <3>3. \/ pending' = pending \/ pending' = [pending EXCEPT ![s] = e]
          \/ pending' = [pending EXCEPT ![s] = x]
      BY <1>4 DEF Answer, NotRecorded, FailedInPassing, NotConfigured, Broke, PutBack
    <3> HIDE DEF x
    <3>4. QED
      BY <1>1, <3>2, <3>3
  <2>3. worker'.at # "await" /\ \A t \in Sessions : Dated(t, worker'.list[t])
    <3>1. Drop(s).at # "await" /\ \A t \in Sessions : Dated(t, Drop(s).list[t])
      BY <1>1 DEF Drop, IdleWorker, WorkerState
    <3>2. IdleWorker.at # "await" /\ \A t \in Sessions : Dated(t, IdleWorker.list[t])
      BY <1>1 DEF IdleWorker
    <3>3. Drop(s) \in WorkerState
      BY DropType
    <3>4. CASE worker' = [Drop(s) EXCEPT !.broken = TRUE]
      <4> DEFINE d == Drop(s)
      <4>1. d \in WorkerState /\ worker' = [d EXCEPT !.broken = TRUE]
        BY <3>3, <3>4
      <4> HIDE DEF d
      <4>2. worker'.at = d.at /\ worker'.list = d.list
        BY <4>1 DEF WorkerState
      <4>3. QED
        BY <3>1, <4>2 DEF d
    <3>5. CASE worker' \in {Drop(s), IdleWorker, MoveTo(s, "done"), MoveTo(s, "failed")}
      BY <1>1, <1>2, <3>1, <3>2, <3>5
    <3>6. QED
      BY <1>4, <3>4, <3>5 DEF Answer, NotRecorded, FailedInPassing, NotConfigured, Broke
  <2>4. QED
    BY <1>1, <2>1, <2>2, <2>3, EpochsKept DEF Epochs, EpochsPassed
<1>5. QED
  BY <1>3, <1>4

\* An operator command writes back an entry it loaded; a death forgets copies.
LEMMA OtherEpochs ==
  ASSUME Typed, Epochs,
         \/ \E s \in Sessions : \/ StartCommand(s) \/ CmdReflect(s) \/ SkipSession(s)
                               \/ TranscriptGoes(s)
         \/ Crash
  PROVE  Epochs'
<1> USE DEF env, buckets, seen
<1>1. /\ UNCHANGED reflections /\ pending \in [Sessions -> Entry \cup {None}]
      /\ \A t \in Sessions : Dated(t, None)
      /\ \A t \in Sessions : Dated(t, pending[t]) /\ Dated(t, worker.list[t])
  BY DEF StartCommand, CmdReflect, SkipSession, TranscriptGoes, Crash, Typed, TypeOK, Dated,
     Epochs, EpochsPassed
<1>2. ASSUME NEW s \in Sessions, StartCommand(s) PROVE Epochs'
  BY <1>1, <1>2, EpochsKept DEF StartCommand, Epochs, EpochsPassed, AskedOnce
<1>3. ASSUME NEW s \in Sessions, CmdReflect(s) PROVE Epochs'
  <2> DEFINE e == operator.copy
             x == [e EXCEPT !.ended = TRUE]
  <2>1. e # None /\ e \in Entry /\ Dated(s, e)
    BY <1>3 DEF CmdReflect, Typed, TypeOK, InHand, OperatorState, Epochs, EpochsPassed
  <2>2. x.epoch = e.epoch /\ pending' = [pending EXCEPT ![s] = x]
    BY <1>3, <2>1 DEF CmdReflect, Entry
  <2>3. Dated(s, x)
    BY <2>1, <2>2 DEF Dated
  <2> HIDE DEF x
  <2>4. \A t \in Sessions : Dated(t, pending'[t])
    BY <1>1, <2>2, <2>3
  <2>5. operator'.at # "mark" /\ UNCHANGED <<hook, worker>>
    BY <1>3 DEF CmdReflect, IdleOperator
  <2>6. QED
    BY <1>1, <2>4, <2>5, EpochsKept DEF Epochs, EpochsPassed, AskedOnce
<1>4. ASSUME NEW s \in Sessions, SkipSession(s) PROVE Epochs'
  <2>1. operator'.at # "mark" /\ UNCHANGED <<hook, worker>>
    BY <1>4 DEF SkipSession, Typed, TypeOK, OperatorState, IdleOperator
  <2>2. pending' = pending \/ pending' = [pending EXCEPT ![s] = None]
    BY <1>4 DEF SkipSession, Removed
  <2>3. \A t \in Sessions : Dated(t, pending'[t])
    BY <1>1, <2>2
  <2>4. QED
    BY <1>1, <2>1, <2>3, EpochsKept DEF Epochs, EpochsPassed, AskedOnce
<1>5. ASSUME NEW s \in Sessions, TranscriptGoes(s) PROVE Epochs'
  BY <1>1, <1>5, EpochsKept DEF TranscriptGoes, Epochs, EpochsPassed, AskedOnce
<1>6. CASE Crash
  <2>1. /\ UNCHANGED pending
        /\ \A h \in Hooks : hook'[h] = hook[h] \/ hook'[h].at # "write"
        /\ operator' = operator \/ operator'.at # "mark"
        /\ \/ worker' = worker
           \/ worker'.at # "await" /\ \A t \in Sessions : worker'.list[t] = None
    BY <1>6 DEF Crash, IdleHook, IdleWorker, IdleOperator, Typed, TypeOK
  <2>2. /\ \A h \in Hooks : hook'[h].at = "write" => Dated(hook'[h].s, hook'[h].copy)
        /\ operator'.at = "mark" => Dated(operator'.s, operator'.copy)
    BY <2>1 DEF Epochs, EpochsPassed
  <2>3. \A t \in Sessions : Dated(t, pending'[t]) /\ Dated(t, worker'.list[t])
    BY <1>1, <2>1
  <2>4. QED
    BY <1>1, <2>1, <2>2, <2>3, EpochsKept DEF Epochs, AskedOnce
<1>7. QED
  BY <1>2, <1>3, <1>4, <1>5, <1>6

\* At the start nothing is queued or written.
LEMMA EpochsInit == Init => Epochs
BY DEF Init, Epochs, EpochsPassed, AskedOnce, EpochsInOrder, Dated, IdleHook, IdleWorker,
   IdleOperator

\* Every step keeps the epochs in order.
LEMMA EpochsNext == Typed /\ Epochs /\ [Next]_vars => Epochs'
<1> SUFFICES ASSUME Typed, Epochs, [Next]_vars PROVE Epochs'
  OBVIOUS
<1>1. CASE Next
  BY <1>1, HookEpochs, PassEpochs, AnswerEpochs, OtherEpochs DEF Next
<1>2. CASE UNCHANGED vars
  BY <1>2 DEF vars, Epochs, EpochsPassed, AskedOnce, EpochsInOrder, Dated, Written
<1>3. QED
  BY <1>1, <1>2

\* One queue entry yields at most one reflection, whoever dies and whatever old
\* copies are written back (the guard in reflectPending).
THEOREM OneReflection == Spec => []OneReflectionPerEntry
<1>1. Typed /\ Epochs => OneReflectionPerEntry
  BY DEF Typed, TypeOK, Epochs, EpochsInOrder, OneReflectionPerEntry
<1>2. QED
  BY <1>1, TypedInit, TypedNext, EpochsInit, EpochsNext, PTL DEF Spec

-----------------------------------------------------------------------------
(* No entry vanishes.                                                      *)

\* At the start nobody removes a pending file.
LEMMA CopiedInit == Init => CopiedFirst
BY DEF Init, CopiedFirst, IdleWorker, IdleOperator

\* The terminal buckets only grow, and each removal follows a copy.
LEMMA CopiedNext ==
  Typed /\ CopiedFirst /\ [Next]_vars =>
    CopiedFirst' /\ done \subseteq done' /\ failed \subseteq failed'
<1> SUFFICES ASSUME Typed, CopiedFirst, [Next]_vars
             PROVE  CopiedFirst' /\ done \subseteq done' /\ failed \subseteq failed'
  OBVIOUS
<1> USE DEF env, buckets, seen
<1>1. worker \in WorkerState /\ operator \in OperatorState
  BY DEF Typed, TypeOK
<1>2. ASSUME done \subseteq done', failed \subseteq failed',
             worker'.at = "remove" => worker'.s \in done' \cup failed',
             operator'.at = "remove" => operator'.s \in done'
      PROVE  CopiedFirst' /\ done \subseteq done' /\ failed \subseteq failed'
  BY <1>2 DEF CopiedFirst
<1>3. ASSUME NEW s \in Sessions, CopyEntry(s)
      PROVE  CopiedFirst' /\ done \subseteq done' /\ failed \subseteq failed'
  BY <1>1, <1>3 DEF CopyEntry, Copied, CopiedFirst, WorkerState
<1>4. ASSUME NEW s \in Sessions, SkipSession(s)
      PROVE  CopiedFirst' /\ done \subseteq done' /\ failed \subseteq failed'
  BY <1>1, <1>4 DEF SkipSession, Copied, CopiedFirst, OperatorState, IdleOperator
<1>5. ASSUME NEW s \in Sessions, RemoveEntry(s) \/ ReapSessionDir(s)
      PROVE  CopiedFirst' /\ done \subseteq done' /\ failed \subseteq failed'
  BY <1>1, <1>5, DropType DEF RemoveEntry, ReapSessionDir, CopiedFirst, WorkerState
<1>6. ASSUME NEW s \in Sessions, Judge(s)
      PROVE  CopiedFirst' /\ done \subseteq done' /\ failed \subseteq failed'
  <2>1. worker'.at # "remove"
    <3>1. ASSUME NEW b, NEW k, worker' = [MoveTo(s, b) EXCEPT !.upto = k] PROVE worker'.at = "copy"
      BY <1>1, <3>1 DEF MoveTo, WorkerState
    <3>2. CASE worker' = [worker EXCEPT !.at = "await", !.s = s, !.upto = turns[s]]
      BY <1>1, <3>2 DEF WorkerState
    <3>3. Drop(s).at # "remove"
      BY DropType
    <3>4. QED
      BY <1>6, <3>1, <3>2, <3>3 DEF Judge
  <2>2. QED
    BY <1>6, <2>1 DEF Judge, CopiedFirst
<1>7. ASSUME NEW s \in Sessions, Answer(s)
      PROVE  CopiedFirst' /\ done \subseteq done' /\ failed \subseteq failed'
  <2>1. worker'.at # "remove"
    <3>1. MoveTo(s, "done").at = "copy" /\ MoveTo(s, "failed").at = "copy"
      BY MoveToType
    <3>2. /\ Drop(s) \in WorkerState /\ Drop(s).at \in {"idle", "next"}
          /\ IdleWorker.at = "idle"
      BY DropType DEF IdleWorker
    <3>3. CASE worker' = [Drop(s) EXCEPT !.broken = TRUE]
      <4> DEFINE d == Drop(s)
      <4>1. d \in WorkerState /\ d.at \in {"idle", "next"} /\ worker' = [d EXCEPT !.broken = TRUE]
        BY <3>2, <3>3
      <4> HIDE DEF d
      <4>2. QED
        BY <4>1 DEF WorkerState
    <3>4. CASE worker' \in {Drop(s), IdleWorker, MoveTo(s, "done"), MoveTo(s, "failed")}
      BY <3>1, <3>2, <3>4
    <3>5. QED
      BY <1>7, <3>3, <3>4
      DEF Answer, Recorded, NotRecorded, FailedInPassing, NotConfigured, Broke
  <2>2. QED
    BY <1>7, <2>1 DEF Answer, CopiedFirst
<1>8. CASE StartPass
  BY <1>8 DEF StartPass, CopiedFirst, IdleWorker
<1>9. ASSUME NEW s \in Sessions, StartCommand(s) \/ CmdReflect(s) \/ TranscriptGoes(s)
      PROVE  CopiedFirst' /\ done \subseteq done' /\ failed \subseteq failed'
  BY <1>9 DEF StartCommand, CmdReflect, TranscriptGoes, CopiedFirst, IdleOperator
<1>10. ASSUME NEW h \in Hooks, HookStep(h) \/ \E s \in Sessions : Deliver(h, s)
       PROVE  CopiedFirst' /\ done \subseteq done' /\ failed \subseteq failed'
  BY <1>10 DEF HookStep, Deliver, MakeSessionDir, NoSessionDir, SessionLock, ReclaimLock,
     LockTimeout, ReadEntry, UpsertStop, MarkEnded, Scan, WriteOffset, SessionUnlock, CopiedFirst
<1>11. CASE Crash
  BY <1>11 DEF Crash, CopiedFirst, IdleWorker, IdleOperator
<1>12. CASE UNCHANGED vars
  BY <1>12 DEF vars, CopiedFirst
<1>13. QED
  BY <1>3, <1>4, <1>5, <1>6, <1>7, <1>8, <1>9, <1>10, <1>11, <1>12 DEF Next, WorkerStep

\* A session whose pending entry goes has its terminal copy: all other writes
\* to the bucket put an entry there.
LEMMA PendingGoes ==
  ASSUME Typed, Next, NEW t \in Sessions, pending[t] # None, pending'[t] = None
  PROVE  \/ worker.at = "remove" /\ worker.s = t
         \/ operator.at = "remove" /\ operator.s = t
<1> USE DEF env, buckets, seen
<1>1. /\ pending \in [Sessions -> Entry \cup {None}] /\ None \notin Entry
      /\ worker \in WorkerState /\ operator \in OperatorState
  BY NoneAssumption DEF Typed, TypeOK
<1>2. ASSUME NEW s \in Sessions, NEW x \in Entry, pending' = [pending EXCEPT ![s] = x]
      PROVE  FALSE
  BY <1>1, <1>2
<1>3. ASSUME UNCHANGED pending PROVE FALSE
  BY <1>3
<1>4. ASSUME NEW h \in Hooks, UpsertStop(h) \/ MarkEnded(h) PROVE FALSE
  <2> DEFINE s == hook[h].s
             e == hook[h].copy
  <2>1. hook[h] \in HookState /\ s \in Sessions /\ e # None
    BY <1>4, HookSession DEF UpsertStop, MarkEnded, Typed, TypeOK, InHand
  <2>2. e \in Entry /\ turns[s] \in 0..MaxTurns
    BY <2>1 DEF HookState, Typed, TypeOK
  <2>3. e \in Entry /\ turns[s] \in Nat /\ e.stops + 1 \in Nat
    BY <2>2, BoundsAssumption DEF Entry
  <2>4. /\ [e EXCEPT !.last = turns[s], !.stops = @ + 1, !.attempts = 0] \in Entry
        /\ [e EXCEPT !.ended = TRUE] \in Entry
    BY <2>3, EntryStopped, EntryEnded
  <2>5. QED
    BY <1>2, <1>4, <2>1, <2>4 DEF UpsertStop, MarkEnded
<1>5. ASSUME NEW h \in Hooks, Scan(h) PROVE FALSE
  <2> DEFINE s == hook[h].s
             x == [pending[s] EXCEPT !.tools = @ + turns[s] - offset[s]]
  <2>1. s \in Sessions
    BY <1>5, HookSession DEF Scan
  <2>2. CASE pending[s] # None /\ pending' = [pending EXCEPT ![s] = x]
    <3>1. /\ pending[s] \in Entry /\ turns[s] \in 0..MaxTurns /\ offset[s] \in 0..MaxTurns
          /\ offset[s] <= turns[s]
      BY <1>1, <2>1, <2>2 DEF Typed, TypeOK, OffsetsBehind
    <3>2. pending[s].tools + turns[s] - offset[s] \in Nat
      BY <3>1, BoundsAssumption DEF Entry
    <3>3. x \in Entry
      BY <3>1, <3>2, EntryScanned
    <3> HIDE DEF x
    <3>4. QED
      BY <1>2, <2>1, <2>2, <3>3
  <2>3. QED
    BY <1>3, <1>5, <2>2 DEF Scan
<1>6. ASSUME NEW s \in Sessions, Answer(s) PROVE FALSE
  <2> DEFINE e == worker.list[s]
             x == [e EXCEPT !.attempts = @ + 1]
  <2>1. e \in Entry /\ x \in Entry
    BY <1>1, <1>6, EntryTried DEF Answer, Typed, InHand, WorkerState
  <2>2. \/ UNCHANGED pending \/ pending' = [pending EXCEPT ![s] = e]
        \/ pending' = [pending EXCEPT ![s] = x]
    BY <1>6 DEF Answer, Recorded, NotRecorded, FailedInPassing, NotConfigured, Broke, PutBack
  <2> HIDE DEF x
  <2>3. QED
    BY <1>2, <1>3, <2>1, <2>2
<1>7. ASSUME NEW s \in Sessions, CmdReflect(s) PROVE FALSE
  <2> DEFINE x == [operator.copy EXCEPT !.ended = TRUE]
  <2>1. operator.copy \in Entry
    BY <1>1, <1>7 DEF CmdReflect, Typed, InHand, OperatorState
  <2>2. x \in Entry /\ pending' = [pending EXCEPT ![s] = x]
    BY <1>7, <2>1, EntryEnded DEF CmdReflect
  <2> HIDE DEF x
  <2>3. QED
    BY <1>2, <2>2
<1>8. ASSUME NEW s \in Sessions, RemoveEntry(s) PROVE worker.at = "remove" /\ worker.s = t
  BY <1>1, <1>8 DEF RemoveEntry, Removed
<1>9. ASSUME NEW s \in Sessions, SkipSession(s) PROVE operator.at = "remove" /\ operator.s = t
  BY <1>1, <1>9 DEF SkipSession, Removed
<1>10. ASSUME NEW s \in Sessions,
              \/ Judge(s) \/ CopyEntry(s) \/ ReapSessionDir(s) \/ StartCommand(s)
              \/ TranscriptGoes(s)
       PROVE  FALSE
  BY <1>3, <1>10 DEF Judge, CopyEntry, ReapSessionDir, StartCommand, TranscriptGoes
<1>11. ASSUME NEW h \in Hooks,
              \/ MakeSessionDir(h) \/ NoSessionDir(h) \/ SessionLock(h) \/ ReclaimLock(h)
              \/ LockTimeout(h) \/ ReadEntry(h) \/ WriteOffset(h) \/ SessionUnlock(h)
              \/ \E s \in Sessions : Deliver(h, s)
       PROVE  FALSE
  BY <1>3, <1>11 DEF MakeSessionDir, NoSessionDir, SessionLock, ReclaimLock, LockTimeout,
     ReadEntry, WriteOffset, SessionUnlock, Deliver
<1>12. CASE StartPass \/ Crash
  BY <1>3, <1>12 DEF StartPass, Crash
<1>13. QED
  BY <1>4, <1>5, <1>6, <1>7, <1>8, <1>9, <1>10, <1>11, <1>12 DEF Next, HookStep, WorkerStep

\* A session that was queued stays in the books, whatever dies in the middle of
\* moveEntry or skipSession, and whatever copy is written over its entry.
THEOREM NothingVanishes == Spec => EntryNeverVanishes
<1>1. Typed /\ CopiedFirst /\ [Next]_vars
        => [\A s \in Sessions : InBooks(s) => InBooks(s)']_vars
  <2> SUFFICES ASSUME Typed, CopiedFirst, Next, NEW s \in Sessions, InBooks(s)
               PROVE  InBooks(s)'
    OBVIOUS
  <2>1. done \subseteq done' /\ failed \subseteq failed'
    BY CopiedNext
  <2>2. CASE s \in done \cup failed
    BY <2>1, <2>2 DEF InBooks
  <2>3. CASE pending[s] # None /\ pending'[s] = None
    <3>1. s \in done \cup failed
      BY <2>3, PendingGoes DEF CopiedFirst
    <3>2. QED
      BY <2>1, <3>1 DEF InBooks
  <2>4. QED
    BY <2>2, <2>3 DEF InBooks
<1>2. QED
  BY <1>1, TypedInit, TypedNext, CopiedInit, CopiedNext, PTL DEF Spec, EntryNeverVanishes

-----------------------------------------------------------------------------
(* Every call that failed is written down in the entry, but for those lost *)
(* to a mishap and the last one, while the worker retires the entry.       *)

Counted(s, e, open) ==
  e # None => /\ e.attempts < MaxAttempts
              /\ history[s].tries <= e.attempts + used.mishaps + open

\* The worker is about to remove the pending file of s, or has s in hand.
Retires(s) == worker.at \in {"copy", "remove"} /\ worker.s = s
Moves(s) == worker.at \in {"copy", "remove", "reap"} /\ worker.s = s

QueuedCounted == \A s \in Sessions : Counted(s, pending[s], IF Retires(s) THEN 1 ELSE 0)
ListedCounted == \A s \in Sessions : ~Moves(s) => Counted(s, worker.list[s], 0)
CopiesCounted ==
  /\ \A h \in Hooks : hook[h].at = "write" => hook[h].copy.attempts < MaxAttempts
  /\ operator.at = "mark" => operator.copy.attempts < MaxAttempts

Attempts == QueuedCounted /\ ListedCounted /\ CopiesCounted /\ RetriesBounded

-----------------------------------------------------------------------------
(* Steps in which no call fails.                                           *)

\* An entry a process writes is the one that was there, the one the worker
\* listed, or one whose calls are counted anew.
SameCount(s) ==
  pending'[s] # None =>
    \/ history'[s].tries = 0 /\ pending'[s].attempts < MaxAttempts
    \/ pending[s] # None /\ pending'[s].attempts = pending[s].attempts
    \/ ~Moves(s) /\ worker.list[s] # None /\ pending'[s].attempts = worker.list[s].attempts

\* The types of what is counted.
CountsTyped ==
  /\ used.mishaps \in Nat
  /\ \A s \in Sessions : history[s].tries \in Nat
  /\ \A s \in Sessions : pending[s] # None => pending[s].attempts \in Nat
  /\ \A s \in Sessions : worker.list[s] # None => worker.list[s].attempts \in Nat

\* What is counted is counted by natural numbers.
LEMMA CountTypes == Typed => CountsTyped
<1> SUFFICES ASSUME Typed PROVE CountsTyped
  OBVIOUS
<1>1. /\ used \in [ends : [Sessions -> 0..MaxEnds], mishaps : 0..MaxMishaps]
      /\ MaxMishaps \in Nat
  BY BoundsAssumption DEF Typed, TypeOK
<1>2. used.mishaps \in Nat
  BY <1>1
<1>3. worker.list \in [Sessions -> Entry \cup {None}]
  BY DEF Typed, TypeOK, WorkerState
<1>4. QED
  BY <1>2, <1>3 DEF Typed, TypeOK, History, Entry, CountsTyped

\* They are after a step, too.
LEMMA CountTypesNext == Typed' => CountsTyped'
BY CountTypes, PTL

\* While no call fails, what is written down stays what was counted.
LEMMA AttemptsKept ==
  ASSUME Typed, Typed', Attempts,
         used.mishaps <= used'.mishaps,
         \A s \in Sessions : history'[s].tries \in {0, history[s].tries} /\ SameCount(s),
         \A s \in Sessions :
           Retires(s) => Retires(s)' \/ used.mishaps < used'.mishaps \/ pending'[s] = None,
         \A s \in Sessions : worker'.list[s] \in {None, worker.list[s]},
         \A s \in Sessions : Moves(s) => Moves(s)' \/ worker'.list[s] = None,
         CopiesCounted'
  PROVE  Attempts'
<1> DEFINE m == used.mishaps
           n == used'.mishaps
<1>1. m \in Nat /\ n \in Nat /\ m <= n /\ MaxAttempts \in Nat
  BY CountTypes, CountTypesNext, BoundsAssumption DEF CountsTyped
<1>2. ASSUME NEW s \in Sessions
      PROVE  /\ history[s].tries \in Nat /\ history'[s].tries \in Nat
             /\ history'[s].tries <= history[s].tries
             /\ history[s].tries <= MaxAttempts + m
             /\ pending[s] # None => pending[s].attempts \in Nat
             /\ pending'[s] # None => pending'[s].attempts \in Nat
             /\ worker.list[s] # None => worker.list[s].attempts \in Nat
             /\ history'[s].tries \in {0, history[s].tries} /\ SameCount(s)
             /\ Counted(s, pending[s], IF Retires(s) THEN 1 ELSE 0)
             /\ ~Moves(s) => Counted(s, worker.list[s], 0)
  BY CountTypes, CountTypesNext DEF CountsTyped, Attempts, QueuedCounted, ListedCounted, RetriesBounded
<1> HIDE DEF m, n
<1>3. QueuedCounted'
  <2>1. ASSUME NEW s \in Sessions, pending'[s] # None
        PROVE  /\ pending'[s].attempts < MaxAttempts
               /\ history'[s].tries <= pending'[s].attempts + n + (IF Retires(s)' THEN 1 ELSE 0)
    <3>1. CASE history'[s].tries = 0 /\ pending'[s].attempts < MaxAttempts
      BY <1>1, <1>2, <2>1, <3>1
    <3>2. CASE pending[s] # None /\ pending'[s].attempts = pending[s].attempts
      <4>1. /\ pending[s].attempts < MaxAttempts
            /\ history[s].tries <= pending[s].attempts + m + (IF Retires(s) THEN 1 ELSE 0)
        BY <1>2, <3>2 DEF Counted, m
      <4>2. Retires(s) => Retires(s)' \/ m < n
        BY <2>1 DEF m, n
      <4>3. QED
        BY <1>1, <1>2, <3>2, <4>1, <4>2
    <3>3. CASE ~Moves(s) /\ worker.list[s] # None /\ pending'[s].attempts = worker.list[s].attempts
      <4>1. /\ worker.list[s].attempts < MaxAttempts
            /\ history[s].tries <= worker.list[s].attempts + m
        BY <1>1, <1>2, <3>3 DEF Counted, m
      <4>2. QED
        BY <1>1, <1>2, <3>3, <4>1
    <3>4. QED
      BY <1>2, <2>1, <3>1, <3>2, <3>3 DEF SameCount
  <2>2. QED
    BY <2>1 DEF QueuedCounted, Counted, n
<1>4. ListedCounted'
  <2>1. ASSUME NEW s \in Sessions, ~Moves(s)', worker'.list[s] # None
        PROVE  /\ worker'.list[s].attempts < MaxAttempts
               /\ history'[s].tries <= worker'.list[s].attempts + n + 0
    <3>1. ~Moves(s) /\ worker'.list[s] = worker.list[s]
      BY <2>1
    <3>2. /\ worker.list[s].attempts < MaxAttempts
          /\ history[s].tries <= worker.list[s].attempts + m
      BY <1>1, <1>2, <2>1, <3>1 DEF Counted, m
    <3>3. QED
      BY <1>1, <1>2, <2>1, <3>1, <3>2
  <2>2. QED
    BY <2>1 DEF ListedCounted, Counted, n
<1>5. RetriesBounded'
  <2>1. ASSUME NEW s \in Sessions PROVE history'[s].tries <= MaxAttempts + n
    BY <1>1, <1>2
  <2>2. QED
    BY <2>1 DEF RetriesBounded, n
<1>6. QED
  BY <1>3, <1>4, <1>5 DEF Attempts

\* What is written of the history of one session leaves the calls counted, or
\* counts them anew.
LEMMA TriesKept ==
  ASSUME Typed, NEW s \in Sessions, NEW b \in BOOLEAN, NEW n \in Nat,
         \/ UNCHANGED history
         \/ history' = [history EXCEPT ![s].torn = b]
         \/ history' = [history EXCEPT ![s].stops = n]
         \/ history' = [history EXCEPT ![s].tries = 0]
         \/ history' = [history EXCEPT ![s].tries = 0, ![s].stops = n]
  PROVE  \A t \in Sessions : history'[t].tries \in {0, history[t].tries}
<1>1. history \in [Sessions -> History]
  BY DEF Typed, TypeOK
<1>2. QED
  BY <1>1 DEF History

\* A hook reads an entry and writes it back with the calls counted anew, or
\* counts tool uses in the one that is there.
LEMMA HookAttempts ==
  ASSUME Typed, Typed', Attempts, NEW h \in Hooks,
         HookStep(h) \/ \E s \in Sessions : Deliver(h, s)
  PROVE  Attempts'
<1> USE DEF env, buckets, seen
<1> DEFINE s == hook[h].s
<1>1. UNCHANGED <<worker, operator>>
  BY DEF HookStep, Deliver, MakeSessionDir, NoSessionDir, SessionLock, ReclaimLock,
     LockTimeout, ReadEntry, UpsertStop, MarkEnded, Scan, WriteOffset, SessionUnlock
<1>2. /\ hook \in [Hooks -> HookState] /\ pending \in [Sessions -> Entry \cup {None}]
      /\ history \in [Sessions -> History]
      /\ hook[h].at # "idle" => s \in Sessions
  BY HookSession DEF Typed, TypeOK
<1>3. \A g \in Hooks \ {h} : hook'[g] = hook[g]
  BY <1>2
  DEF HookStep, Deliver, MakeSessionDir, NoSessionDir, SessionLock, ReclaimLock,
     LockTimeout, ReadEntry, UpsertStop, MarkEnded, Scan, WriteOffset, SessionUnlock
<1>4. used'.mishaps = used.mishaps
  <2>1. CASE used' = used
    BY <2>1
  <2>2. ASSUME NEW t \in Sessions, used' = [used EXCEPT !.ends[t] = @ + 1] PROVE used'.mishaps = used.mishaps
    BY <2>2 DEF Typed, TypeOK
  <2>3. QED
    BY <2>1, <2>2
    DEF HookStep, Deliver, MakeSessionDir, NoSessionDir, SessionLock, ReclaimLock,
       LockTimeout, ReadEntry, UpsertStop, MarkEnded, Scan, WriteOffset, SessionUnlock
<1>5. hook'[h].at = "write" => hook'[h].copy.attempts < MaxAttempts
  <2>1. CASE ReadEntry(h)
    <3>1. hook[h] \in HookState
      BY <1>2
    <3>2. CASE hook' = [hook EXCEPT ![h].at = "unlock"]
      BY <1>2, <3>1, <3>2 DEF HookState
    <3>3. CASE hook' = [hook EXCEPT ![h].at = "write", ![h].copy = NewEntry(s)]
      <4>1. hook'[h].copy = NewEntry(s)
        BY <1>2, <3>1, <3>3 DEF HookState
      <4>2. NewEntry(s).attempts < MaxAttempts
        BY BoundsAssumption DEF NewEntry
      <4>3. QED
        BY <4>1, <4>2
    <3>4. CASE /\ hook' = [hook EXCEPT ![h].at = "write", ![h].copy = pending[s]]
               /\ pending[s] # None
      <4>1. hook'[h].copy = pending[s]
        BY <1>2, <3>1, <3>4 DEF HookState
      <4>2. pending[s].attempts < MaxAttempts
        BY <1>2, <2>1, <3>4 DEF Attempts, QueuedCounted, Counted, ReadEntry
      <4>3. QED
        BY <4>1, <4>2
    <3>5. QED
      BY <2>1, <3>2, <3>3, <3>4 DEF ReadEntry
  <2>2. CASE ~ReadEntry(h)
    BY <2>2, HookWrites
  <2>3. QED
    BY <2>1, <2>2
<1>6. CopiesCounted'
  BY <1>1, <1>3, <1>5 DEF Attempts, CopiesCounted
<1>7. \A t \in Sessions : history'[t].tries \in {0, history[t].tries}
  <2>1. ASSUME NEW b \in BOOLEAN, s \in Sessions, history' = [history EXCEPT ![s].torn = b]
        PROVE  \A t \in Sessions : history'[t].tries \in {0, history[t].tries}
    BY <2>1, TriesKept
  <2>2. CASE ReclaimLock(h)
    <3>1. (history[s].torn \/ Locked(s)) \in BOOLEAN
      BY <1>2, <2>2 DEF ReclaimLock, Locked, History
    <3>2. s \in Sessions /\ history' = [history EXCEPT ![s].torn = history[s].torn \/ Locked(s)]
      BY <1>2, <2>2 DEF ReclaimLock
    <3>3. QED
      BY <2>1, <3>1, <3>2
  <2>3. CASE UpsertStop(h)
    BY <1>2, <2>3 DEF UpsertStop, History
  <2>4. CASE MarkEnded(h)
    BY <1>2, <2>4 DEF MarkEnded, History
  <2>5. CASE UNCHANGED history
    BY <2>5
  <2>6. QED
    BY <2>2, <2>3, <2>4, <2>5
    DEF HookStep, Deliver, MakeSessionDir, NoSessionDir, SessionLock,
       LockTimeout, ReadEntry, Scan, WriteOffset, SessionUnlock
<1>8. \A t \in Sessions : SameCount(t)
  <2>1. CASE UpsertStop(h) \/ MarkEnded(h)
    <3> DEFINE e == hook[h].copy
               x == [e EXCEPT !.last = turns[s], !.stops = @ + 1, !.attempts = 0]
               y == [e EXCEPT !.ended = TRUE]
    <3>1. s \in Sessions /\ e \in Entry /\ e.attempts < MaxAttempts
      BY <1>2, <2>1 DEF UpsertStop, MarkEnded, Attempts, CopiesCounted, Typed, InHand, HookState
    <3>2. x.attempts = 0 /\ y.attempts = e.attempts
      BY <3>1 DEF Entry
    <3>3. pending' = [pending EXCEPT ![s] = x] \/ pending' = [pending EXCEPT ![s] = y]
      BY <2>1 DEF UpsertStop, MarkEnded
    <3>4. history'[s].tries = 0
      BY <1>2, <2>1, <3>1 DEF UpsertStop, MarkEnded, History
    <3> HIDE DEF x, y, e
    <3>5. pending'[s] # None => pending'[s].attempts < MaxAttempts
      BY <1>2, <3>1, <3>2, <3>3, BoundsAssumption
    <3>6. \A t \in Sessions \ {s} : pending'[t] = pending[t]
      BY <1>2, <3>3
    <3>7. QED
      BY <3>4, <3>5, <3>6 DEF SameCount
  <2>2. CASE Scan(h)
    <3> DEFINE x == [pending[s] EXCEPT !.tools = @ + turns[s] - offset[s]]
    <3>1. CASE UNCHANGED pending
      BY <3>1 DEF SameCount
    <3>2. CASE pending[s] # None /\ pending' = [pending EXCEPT ![s] = x]
      <4>1. s \in Sessions /\ pending[s] \in Entry
        BY <1>2, <2>2, <3>2 DEF Scan
      <4>2. x.attempts = pending[s].attempts
        BY <4>1 DEF Entry
      <4> HIDE DEF x
      <4>3. QED
        BY <1>2, <3>2, <4>1, <4>2 DEF SameCount
    <3>3. QED
      BY <2>2, <3>1, <3>2 DEF Scan
  <2>3. CASE UNCHANGED pending
    BY <2>3 DEF SameCount
  <2>4. QED
    BY <2>1, <2>2, <2>3
    DEF HookStep, Deliver, MakeSessionDir, NoSessionDir, SessionLock, ReclaimLock,
       LockTimeout, ReadEntry, WriteOffset, SessionUnlock
<1>9. QED
  <2>1. used.mishaps <= used'.mishaps
    BY <1>4, CountTypes DEF CountsTyped
  <2>2. /\ \A t \in Sessions : worker'.list[t] \in {None, worker.list[t]}
        /\ \A t \in Sessions : Retires(t) => Retires(t)'
        /\ \A t \in Sessions : Moves(t) => Moves(t)'
    BY <1>1 DEF Retires, Moves
  <2>3. QED
    BY <1>6, <1>7, <1>8, <2>1, <2>2, AttemptsKept

-----------------------------------------------------------------------------
(* The worker and the operator.                                            *)

\* An entry that leaves the pass leaves the other listed ones as they are.
LEMMA DropCounts ==
  ASSUME Typed, NEW s \in Sessions
  PROVE  /\ Drop(s).at \in {"idle", "next"} /\ Drop(s).list[s] = None
         /\ \A t \in Sessions : Drop(s).list[t] \in {None, worker.list[t]}
<1>1. worker \in WorkerState /\ worker.list \in [Sessions -> Entry \cup {None}]
  BY DEF Typed, TypeOK, WorkerState
<1>2. CASE Drop(s) = IdleWorker
  BY <1>2 DEF IdleWorker
<1>3. CASE Drop(s) = [worker EXCEPT !.at = "next", !.list[s] = None, !.s = None, !.upto = 0, !.to = "done"]
  BY <1>1, <1>3 DEF WorkerState
<1>4. QED
  BY <1>2, <1>3 DEF Drop

\* A step of the worker that leaves the counts, the pending bucket and the
\* copies of the others alone.
LEMMA WorkerGoes ==
  ASSUME Typed, Typed', Attempts,
         worker.at \in {"next", "await"},
         UNCHANGED <<pending, hook, operator, used>>,
         \A t \in Sessions : history'[t].tries = history[t].tries,
         \A t \in Sessions : worker'.list[t] \in {None, worker.list[t]}
  PROVE  Attempts'
<1>1. \A t \in Sessions : SameCount(t) /\ ~Retires(t) /\ ~Moves(t)
  BY DEF SameCount, Retires, Moves
<1>2. used.mishaps <= used'.mishaps /\ CopiesCounted'
  BY CountTypes DEF CountsTyped, Attempts, CopiesCounted
<1>3. QED
  BY <1>1, <1>2, AttemptsKept

\* A pass lists what is pending, and the verdict on a listed entry counts nothing.
LEMMA PassAttempts ==
  ASSUME Typed, Typed', Attempts, StartPass \/ \E s \in Sessions : Judge(s)
  PROVE  Attempts'
<1> USE DEF env, buckets, seen
<1>1. CASE StartPass
  <2>1. /\ UNCHANGED <<pending, hook, operator, used, history>>
        /\ worker'.list = pending /\ worker'.at = "next" /\ worker.at = "idle"
    BY <1>1 DEF StartPass, IdleWorker
  <2>2. \A t \in Sessions : ~Retires(t) /\ ~Retires(t)'
    BY <2>1 DEF Retires
  <2>3. QED
    BY <2>1, <2>2 DEF Attempts, QueuedCounted, ListedCounted, CopiesCounted, RetriesBounded, Counted
<1>2. ASSUME NEW s \in Sessions, Judge(s) PROVE Attempts'
  <2>1. worker \in WorkerState /\ worker.at = "next"
    BY <1>2 DEF Judge, Typed, TypeOK
  <2>2. \A t \in Sessions : worker'.list[t] \in {None, worker.list[t]}
    <3>1. CASE worker' = Drop(s)
      BY <3>1, DropCounts
    <3>2. ASSUME NEW b, NEW k, worker' = [MoveTo(s, b) EXCEPT !.upto = k]
          PROVE  worker'.list = worker.list
      BY <2>1, <3>2 DEF MoveTo, WorkerState
    <3>3. CASE worker' = [worker EXCEPT !.at = "await", !.s = s, !.upto = turns[s]]
      BY <2>1, <3>3 DEF WorkerState
    <3>4. QED
      BY <1>2, <3>1, <3>2, <3>3 DEF Judge
  <2>3. QED
    BY <1>2, <2>1, <2>2, WorkerGoes DEF Judge
<1>3. QED
  BY <1>1, <1>2

\* moveEntry removes the pending file before the session leaves the hand.
LEMMA MoveAttempts ==
  ASSUME Typed, Typed', Attempts, NEW s \in Sessions,
         CopyEntry(s) \/ RemoveEntry(s) \/ ReapSessionDir(s)
  PROVE  Attempts'
<1> USE DEF env, buckets, seen
<1>1. /\ worker \in WorkerState /\ UNCHANGED <<hook, operator, used>> /\ worker.s = s
      /\ history \in [Sessions -> History] /\ pending \in [Sessions -> Entry \cup {None}]
  BY DEF CopyEntry, RemoveEntry, ReapSessionDir, Typed, TypeOK
<1>2. used.mishaps <= used'.mishaps /\ CopiesCounted'
  BY <1>1, CountTypes DEF CountsTyped, Attempts, CopiesCounted
<1>3. CASE CopyEntry(s)
  <2>1. worker'.at = "remove" /\ worker'.s = s /\ worker'.list = worker.list
    BY <1>1, <1>3 DEF CopyEntry, WorkerState
  <2>2. \A t \in Sessions : /\ Retires(t) => Retires(t)'
                            /\ Moves(t) => Moves(t)'
    BY <1>1, <2>1 DEF Retires, Moves
  <2>3. UNCHANGED <<pending, history>>
    BY <1>3 DEF CopyEntry
  <2>4. QED
    BY <1>2, <2>1, <2>2, <2>3, AttemptsKept DEF SameCount
<1>4. CASE RemoveEntry(s)
  <2>1. worker'.at = "reap" /\ worker'.s = s /\ worker'.list = worker.list
    BY <1>1, <1>4 DEF RemoveEntry, WorkerState
  <2>2. pending' = [pending EXCEPT ![s] = None]
    BY <1>4 DEF RemoveEntry, Removed
  <2>3. \A t \in Sessions : /\ SameCount(t)
                            /\ Retires(t) => pending'[t] = None
                            /\ Moves(t) => Moves(t)'
    BY <1>1, <2>1, <2>2 DEF Retires, Moves, SameCount
  <2>4. \A t \in Sessions : history'[t].tries \in {0, history[t].tries}
    BY <1>1, <1>4 DEF RemoveEntry, Removed, History
  <2>5. QED
    BY <1>2, <2>1, <2>3, <2>4, AttemptsKept
<1>5. CASE ReapSessionDir(s)
  <2>1. worker'.list[s] = None /\ \A t \in Sessions : worker'.list[t] \in {None, worker.list[t]}
    BY <1>5, DropCounts DEF ReapSessionDir
  <2>2. \A t \in Sessions : /\ ~Retires(t)
                            /\ Moves(t) => worker'.list[t] = None
    BY <1>1, <1>5, <2>1 DEF ReapSessionDir, Retires, Moves
  <2>3. \A t \in Sessions : SameCount(t)
    BY <1>5 DEF ReapSessionDir, SameCount
  <2>4. \A t \in Sessions : history'[t].tries \in {0, history[t].tries}
    BY <1>1, <1>5 DEF ReapSessionDir, Reaped, History
  <2>5. QED
    BY <1>2, <2>1, <2>2, <2>3, <2>4, AttemptsKept
<1>6. QED
  BY <1>3, <1>4, <1>5

\* A call that failed is written down, or the entry is retired.
LEMMA AnswerAttempts ==
  ASSUME Typed, Typed', Attempts, NEW s \in Sessions, Answer(s) PROVE Attempts'
<1> USE DEF env
<1> DEFINE e == worker.list[s]
           m == used.mishaps
<1>1. /\ UNCHANGED <<hook, operator, used>> /\ pending \in [Sessions -> Entry \cup {None}]
      /\ worker \in WorkerState /\ worker.list \in [Sessions -> Entry \cup {None}]
      /\ worker.at = "await" /\ worker.s = s /\ e # None /\ e \in Entry
      /\ history \in [Sessions -> History]
  BY DEF Answer, Typed, TypeOK, WorkerState, InHand
<1>2. /\ \A t \in Sessions : ~Retires(t) /\ ~Moves(t)
      /\ m \in Nat /\ MaxAttempts \in Nat /\ e.attempts \in Nat
      /\ history[s].tries \in Nat
      /\ e.attempts < MaxAttempts /\ history[s].tries <= e.attempts + m
  <2>1. \A t \in Sessions : ~Retires(t) /\ ~Moves(t)
    BY <1>1 DEF Retires, Moves
  <2>2. Counted(s, e, 0)
    BY <2>1 DEF Attempts, ListedCounted
  <2>3. /\ m \in Nat /\ MaxAttempts \in Nat /\ e.attempts \in Nat
        /\ history[s].tries \in Nat
    BY <1>1, CountTypes, BoundsAssumption DEF CountsTyped
  <2>4. QED
    BY <1>1, <2>1, <2>2, <2>3 DEF Counted
<1>3. used.mishaps <= used'.mishaps /\ CopiesCounted'
  BY <1>1, <1>2 DEF Attempts, CopiesCounted
<1>4. \A b \in {"done", "failed"} : MoveTo(s, b).at = "copy" /\ MoveTo(s, b).s = s /\ MoveTo(s, b).list = worker.list
  BY <1>1 DEF MoveTo, WorkerState
<1>5. CASE Recorded(s, e) \/ NotRecorded(s) \/ Broke(s)
  <2>1. UNCHANGED <<pending, history>> /\ worker'.list = worker.list
    BY <1>4, <1>5 DEF Recorded, NotRecorded, Broke
  <2>2. QED
    BY <1>1, <2>1, WorkerGoes
<1>6. CASE NotConfigured(s, e)
  <2>1. worker'.list[s] = None /\ \A t \in Sessions : worker'.list[t] \in {None, worker.list[t]}
    <3> DEFINE d == Drop(s)
    <3>1. d \in WorkerState /\ d.list[s] = None /\ \A t \in Sessions : d.list[t] \in {None, worker.list[t]}
      BY DropType, DropCounts
    <3>2. worker' = IdleWorker \/ worker' = [d EXCEPT !.broken = TRUE]
      BY <1>6 DEF NotConfigured
    <3> HIDE DEF d
    <3>3. IdleWorker.list[s] = None /\ \A t \in Sessions : IdleWorker.list[t] = None
      BY DEF IdleWorker
    <3>4. [d EXCEPT !.broken = TRUE].list = d.list
      BY <3>1 DEF WorkerState
    <3>5. QED
      BY <3>1, <3>2, <3>3, <3>4
  <2>2. \A t \in Sessions : SameCount(t)
    <3>1. pending' = [pending EXCEPT ![s] = e]
      BY <1>6 DEF NotConfigured, PutBack
    <3>2. QED
      BY <1>1, <1>2, <3>1 DEF SameCount
  <2>3. \A t \in Sessions : history'[t].tries \in {0, history[t].tries}
    BY <1>1, <1>6 DEF NotConfigured, History
  <2>4. QED
    BY <1>2, <1>3, <2>1, <2>2, <2>3, AttemptsKept
<1>7. CASE FailedInPassing(s, e)
  <2> DEFINE x == [e EXCEPT !.attempts = @ + 1]
  <2>1. /\ history'[s].tries = history[s].tries + 1
        /\ \A t \in Sessions \ {s} : history'[t] = history[t]
    BY <1>1, <1>7 DEF FailedInPassing, History
  <2>2. x # None /\ x.attempts = e.attempts + 1
    BY <1>1, EntryTried, NoneAssumption DEF Entry
  <2>3. \/ /\ e.attempts + 1 < MaxAttempts /\ pending' = [pending EXCEPT ![s] = x]
           /\ worker' = Drop(s)
        \/ UNCHANGED pending /\ worker' = MoveTo(s, "failed")
    BY <1>7 DEF FailedInPassing, MayRetry, PutBack
  <2> HIDE DEF x, e, m
  <2>4. RetriesBounded'
    <3>1. history'[s].tries <= MaxAttempts + m
      BY <1>2, <2>1
    <3>2. QED
      BY <1>1, <2>1, <3>1 DEF Attempts, RetriesBounded, m
  <2>5. ASSUME NEW t \in Sessions \ {s} PROVE Counted(t, pending[t], IF Retires(t) THEN 1 ELSE 0)'
    <3>1. Counted(t, pending[t], 0)
      BY <1>2 DEF Attempts, QueuedCounted
    <3>2. pending'[t] = pending[t] /\ history'[t] = history[t] /\ ~Retires(t)'
      BY <1>1, <1>4, <2>1, <2>3, DropCounts DEF Retires
    <3>3. QED
      BY <1>1, <3>1, <3>2 DEF Counted
  <2>6. ASSUME NEW t \in Sessions, ~Moves(t)' PROVE Counted(t, worker.list[t], 0)'
    <3>1. worker'.list[t] = None \/ (t # s /\ worker'.list[t] = worker.list[t])
      BY <1>4, <2>3, <2>6, DropCounts DEF Moves
    <3>2. Counted(t, worker.list[t], 0)
      BY <1>2 DEF Attempts, ListedCounted
    <3>3. QED
      BY <1>1, <2>1, <3>1, <3>2 DEF Counted
  <2>7. Counted(s, pending[s], IF Retires(s) THEN 1 ELSE 0)'
    <3>1. CASE pending' = [pending EXCEPT ![s] = x] /\ e.attempts + 1 < MaxAttempts
      <4>1. pending'[s] = x /\ history'[s].tries <= x.attempts + m
        BY <1>1, <1>2, <2>1, <2>2, <3>1
      <4>2. x.attempts < MaxAttempts /\ x.attempts \in Nat /\ history'[s].tries \in Nat
        BY <1>2, <2>1, <2>2, <3>1
      <4>3. history'[s].tries <= x.attempts + m + (IF Retires(s)' THEN 1 ELSE 0)
        BY <1>2, <4>1, <4>2
      <4>4. QED
        BY <1>1, <4>1, <4>2, <4>3 DEF Counted, m
    <3>2. CASE UNCHANGED pending /\ worker' = MoveTo(s, "failed")
      <4>1. Counted(s, pending[s], 0) /\ (pending[s] # None => pending[s].attempts \in Nat)
        BY <1>2, CountTypes DEF Attempts, QueuedCounted, CountsTyped
      <4>2. Retires(s)'
        BY <1>4, <3>2 DEF Retires
      <4>3. pending[s] # None => history'[s].tries <= pending[s].attempts + m + 1
        BY <1>2, <2>1, <4>1 DEF Counted, m
      <4>4. QED
        BY <1>1, <3>2, <4>1, <4>2, <4>3 DEF Counted, m
    <3>3. QED
      BY <2>3, <3>1, <3>2
  <2>8. QED
    BY <1>3, <2>4, <2>5, <2>6, <2>7 DEF Attempts, QueuedCounted, ListedCounted
<1>8. QED
  BY <1>5, <1>6, <1>7 DEF Answer

\* A command writes back an entry it loaded, with the calls counted anew; a
\* death forgets copies, and is a mishap.
LEMMA OtherAttempts ==
  ASSUME Typed, Typed', Attempts,
         \/ \E s \in Sessions : \/ StartCommand(s) \/ CmdReflect(s) \/ SkipSession(s)
                               \/ TranscriptGoes(s)
         \/ Crash
  PROVE  Attempts'
<1> USE DEF env, buckets, seen
<1>1. /\ pending \in [Sessions -> Entry \cup {None}] /\ history \in [Sessions -> History]
      /\ used.mishaps \in Nat
  BY CountTypes DEF Typed, TypeOK, CountsTyped
<1>2. /\ Mishap => used.mishaps < used'.mishaps
      /\ used' = used => used.mishaps <= used'.mishaps
  <2>1. used \in [ends : [Sessions -> 0..MaxEnds], mishaps : 0..MaxMishaps]
    BY DEF Typed, TypeOK
  <2>2. QED
    BY <1>1, <2>1 DEF Mishap
<1>3. ASSUME UNCHANGED worker
      PROVE  /\ \A t \in Sessions : worker'.list[t] \in {None, worker.list[t]}
             /\ \A t \in Sessions : Retires(t) => Retires(t)'
             /\ \A t \in Sessions : Moves(t) => Moves(t)'
  BY <1>3 DEF Retires, Moves
<1>4. ASSUME UNCHANGED pending PROVE \A t \in Sessions : SameCount(t)
  BY <1>4 DEF SameCount
<1>5. ASSUME NEW s \in Sessions, StartCommand(s) PROVE Attempts'
  <2>1. pending[s].attempts < MaxAttempts /\ pending[s] # None
    BY <1>5 DEF StartCommand, Attempts, QueuedCounted, Counted
  <2>2. CopiesCounted'
    BY <1>5, <2>1 DEF StartCommand, Attempts, CopiesCounted
  <2>3. used.mishaps <= used'.mishaps
    BY <1>1, <1>2, <1>5, CountTypesNext DEF StartCommand, CountsTyped
  <2>4. UNCHANGED <<pending, worker, history>>
    BY <1>5 DEF StartCommand
  <2>5. QED
    BY <1>3, <1>4, <2>2, <2>3, <2>4, AttemptsKept
<1>6. ASSUME NEW s \in Sessions, CmdReflect(s) PROVE Attempts'
  <2> DEFINE e == operator.copy
             x == [e EXCEPT !.ended = TRUE]
  <2>1. e \in Entry /\ e.attempts < MaxAttempts
    BY <1>6 DEF CmdReflect, Typed, TypeOK, InHand, OperatorState, Attempts, CopiesCounted
  <2>2. x.attempts = e.attempts /\ pending' = [pending EXCEPT ![s] = x]
    BY <1>6, <2>1 DEF CmdReflect, Entry
  <2>3. /\ history'[s].tries = 0
        /\ \A t \in Sessions : history'[t].tries \in {0, history[t].tries}
    BY <1>1, <1>6 DEF CmdReflect, History
  <2> HIDE DEF x, e
  <2>4. \A t \in Sessions : SameCount(t)
    BY <1>1, <2>1, <2>2, <2>3 DEF SameCount
  <2>5. UNCHANGED worker /\ CopiesCounted' /\ used' = used
    BY <1>6 DEF CmdReflect, IdleOperator, Attempts, CopiesCounted
  <2>6. QED
    BY <1>2, <1>3, <2>3, <2>4, <2>5, AttemptsKept
<1>7. ASSUME NEW s \in Sessions, SkipSession(s) PROVE Attempts'
  <2>1. operator \in OperatorState /\ UNCHANGED <<hook, worker, used>>
    BY <1>7 DEF SkipSession, Typed, TypeOK
  <2>2. operator'.at # "mark" /\ CopiesCounted'
    BY <1>7, <2>1 DEF SkipSession, OperatorState, IdleOperator, Attempts, CopiesCounted
  <2>3. pending' = pending \/ pending' = [pending EXCEPT ![s] = None]
    BY <1>7 DEF SkipSession, Removed
  <2>4. \A t \in Sessions : SameCount(t)
    BY <1>1, <2>3 DEF SameCount
  <2>5. \A t \in Sessions : history'[t].tries \in {0, history[t].tries}
    BY <1>1, <1>7 DEF SkipSession, Removed, Reaped, History
  <2>6. QED
    BY <1>2, <1>3, <2>1, <2>2, <2>4, <2>5, AttemptsKept
<1>8. ASSUME NEW s \in Sessions, TranscriptGoes(s) PROVE Attempts'
  <2>1. UNCHANGED <<pending, hook, worker, operator, history>>
    BY <1>8 DEF TranscriptGoes
  <2>2. used.mishaps <= used'.mishaps /\ CopiesCounted'
    BY <1>1, <1>2, <1>8, <2>1, CountTypesNext DEF TranscriptGoes, CountsTyped, Attempts, CopiesCounted
  <2>3. QED
    BY <1>3, <1>4, <2>1, <2>2, AttemptsKept
<1>9. CASE Crash
  <2>1. /\ UNCHANGED <<pending, history>> /\ used.mishaps < used'.mishaps
        /\ \A h \in Hooks : hook'[h] = hook[h] \/ hook'[h].at # "write"
        /\ operator' = operator \/ operator'.at # "mark"
        /\ \/ worker' = worker
           \/ \A t \in Sessions : worker'.list[t] = None
    BY <1>2, <1>9 DEF Crash, IdleHook, IdleWorker, IdleOperator, Typed, TypeOK
  <2>2. used.mishaps <= used'.mishaps
    BY <1>1, <2>1, CountTypesNext DEF CountsTyped
  <2>3. CopiesCounted'
    BY <2>1 DEF Attempts, CopiesCounted
  <2>4. \A t \in Sessions : /\ worker'.list[t] \in {None, worker.list[t]}
                            /\ Moves(t) => Moves(t)' \/ worker'.list[t] = None
    BY <2>1, <1>3
  <2>5. QED
    BY <1>4, <2>1, <2>2, <2>3, <2>4, AttemptsKept
<1>10. QED
  BY <1>5, <1>6, <1>7, <1>8, <1>9

\* At the start nothing is queued and nothing was tried.
LEMMA AttemptsInit == Init => Attempts
BY BoundsAssumption
DEF Init, Attempts, QueuedCounted, ListedCounted, CopiesCounted, RetriesBounded, Counted,
   IdleHook, IdleWorker, IdleOperator

\* Every step keeps what is written down up to what was counted.
LEMMA AttemptsNext == Typed /\ Attempts /\ [Next]_vars => Attempts'
<1> SUFFICES ASSUME Typed, Attempts, [Next]_vars PROVE Attempts'
  OBVIOUS
<1>1. Typed'
  BY TypedNext
<1>2. CASE Next
  BY <1>1, <1>2, HookAttempts, PassAttempts, MoveAttempts, AnswerAttempts, OtherAttempts
  DEF Next, WorkerStep
<1>3. CASE UNCHANGED vars
  BY <1>3
  DEF vars, Attempts, QueuedCounted, ListedCounted, CopiesCounted, RetriesBounded, Counted,
     Retires, Moves
<1>4. QED
  BY <1>2, <1>3

\* A provider that keeps failing is asked MAX_ATTEMPTS times for an entry that
\* nobody touches, and once more for each mishap (failedInPassing and the
\* attempts that reflectPending writes back).
THEOREM Retries == Spec => []RetriesBounded
<1>1. Attempts => RetriesBounded
  BY DEF Attempts
<1>2. QED
  BY <1>1, TypedInit, TypedNext, AttemptsInit, AttemptsNext, PTL DEF Spec

-----------------------------------------------------------------------------
(* The lock directory of a hook in its section stays, so that the entry it *)
(* read is still the newest one when it writes.                            *)

SectionsHeld ==
  \A h \in Hooks, s \in Sessions : InSection(h, s) /\ ~history[s].torn => slock[s] = h

NoneStopped == \A s \in Sessions : pending[s] = None => history[s].stops = 0

CopiesKeep ==
  \A h \in Hooks : hook[h].at = "write" /\ ~history[hook[h].s].torn =>
    hook[h].copy.stops >= history[hook[h].s].stops

Held == SectionsHeld /\ NoneStopped /\ CopiesKeep /\ StopsNotLost

\* The types of what is counted.
StopsTyped ==
  /\ \A s \in Sessions : history[s].stops \in Nat /\ history[s].torn \in BOOLEAN
  /\ \A s \in Sessions : pending[s] # None => pending[s] \in Entry /\ pending[s].stops \in Nat
  /\ \A h \in Hooks : hook[h].at = "write" =>
       hook[h].s \in Sessions /\ hook[h].copy \in Entry /\ hook[h].copy.stops \in Nat

\* What is counted of the Stops has its type in every typed state.
LEMMA StopTypes == Typed => StopsTyped
BY DEF Typed, TypeOK, InHand, StopsTyped, History, Entry, HookState

\* So it is after a step.
LEMMA StopTypesNext == Typed' => StopsTyped'
BY StopTypes, PTL

\* While no hook enters a section and no lock directory goes under one that is
\* inside, the sections stay held.
LEMMA SectionsKept ==
  ASSUME Held,
         \A t \in Sessions : history[t].torn => history'[t].torn,
         \A g \in Hooks, t \in Sessions : InSection(g, t)' => InSection(g, t),
         \A g \in Hooks, t \in Sessions :
           InSection(g, t)' /\ ~history'[t].torn => slock'[t] = slock[t]
  PROVE  SectionsHeld'
BY DEF Held, SectionsHeld

\* A lock directory that is removed under a hook is told from one that is not.
LEMMA LockGoes ==
  ASSUME Typed, Held, NEW s \in Sessions,
         \A g \in Hooks, t \in Sessions : InSection(g, t)' => InSection(g, t),
         slock' = [slock EXCEPT ![s] = None],
         history' = [history EXCEPT ![s].torn = @ \/ Locked(s)]
  PROVE  SectionsHeld'
<1>1. /\ history \in [Sessions -> History] /\ slock \in [Sessions -> Hooks \cup {None}]
  BY DEF Typed, TypeOK
<1>2. /\ history'[s].torn = (history[s].torn \/ Locked(s))
      /\ \A t \in Sessions \ {s} : history'[t] = history[t] /\ slock'[t] = slock[t]
  BY <1>1 DEF History
<1>3. \A g \in Hooks : InSection(g, s) /\ ~history[s].torn => Locked(s)
  BY DEF Held, SectionsHeld, Locked
<1>4. QED
  BY <1>2, <1>3, SectionsKept

\* The Stops of t are counted as before, or anew from none.
SameStops(t) ==
  \/ history'[t].stops = 0
  \/ /\ history'[t].stops = history[t].stops
     /\ pending'[t] = None <=> pending[t] = None
     /\ pending[t] # None => pending'[t].stops = pending[t].stops

\* While no hook reads or writes an entry, what is counted stays covered.
LEMMA StopsKept ==
  ASSUME Typed, Typed', Held, SectionsHeld',
         \A g \in Hooks : hook'[g] = hook[g] \/ hook'[g].at # "write",
         \A t \in Sessions : history[t].torn => history'[t].torn,
         \A t \in Sessions : SameStops(t)
  PROVE  Held'
<1>1. StopsTyped /\ StopsTyped'
  BY StopTypes, StopTypesNext
<1>2. NoneStopped'
  BY <1>1 DEF NoneStopped, Held, SameStops
<1>3. CopiesKeep'
  <2>1. ASSUME NEW g \in Hooks, hook'[g].at = "write", ~history'[hook'[g].s].torn
        PROVE  hook'[g].copy.stops >= history'[hook'[g].s].stops
    <3>1. hook'[g] = hook[g] /\ hook[g].s \in Sessions /\ hook[g].copy.stops \in Nat
      BY <1>1, <2>1 DEF StopsTyped
    <3>2. hook[g].copy.stops >= history[hook[g].s].stops
      BY <2>1, <3>1 DEF Held, CopiesKeep
    <3>3. QED
      BY <1>1, <3>1, <3>2 DEF StopsTyped, SameStops
  <2>2. QED
    BY <2>1 DEF CopiesKeep
<1>4. StopsNotLost'
  BY <1>1 DEF StopsNotLost, Held, SameStops, StopsTyped
<1>5. QED
  BY <1>2, <1>3, <1>4 DEF Held

-----------------------------------------------------------------------------
(* The worker, the operator and the mishaps.                               *)

\* They count no Stop: they write the entry back and count anew, or leave it.
LEMMA OtherStops ==
  ASSUME Typed, NEW s \in Sessions,
         \/ Answer(s) \/ CopyEntry(s) \/ RemoveEntry(s) \/ ReapSessionDir(s)
         \/ CmdReflect(s) \/ SkipSession(s)
  PROVE  \A t \in Sessions : /\ SameStops(t)
                             /\ history[t].torn => history'[t].torn
<1> USE DEF env, buckets, seen
<1>1. history \in [Sessions -> History] /\ pending \in [Sessions -> Entry \cup {None}]
  BY DEF Typed, TypeOK
<1>2. CASE UNCHANGED <<pending, history>>
  BY <1>2 DEF SameStops
<1>3. ASSUME NEW e, NEW n, \/ history' = [history EXCEPT ![s].stops = 0]
                           \/ history' = [history EXCEPT ![s].tries = n, ![s].stops = 0],
             pending' = [pending EXCEPT ![s] = e]
      PROVE  \A t \in Sessions : SameStops(t) /\ (history[t].torn => history'[t].torn)
  BY <1>1, <1>3 DEF SameStops, History
<1>4. CASE Answer(s)
  <2>1. CASE Recorded(s, worker.list[s]) \/ NotRecorded(s) \/ Broke(s)
    BY <1>2, <2>1 DEF Recorded, NotRecorded, Broke
  <2>2. CASE NotConfigured(s, worker.list[s])
    BY <1>3, <2>2 DEF NotConfigured, PutBack
  <2>3. CASE FailedInPassing(s, worker.list[s]) /\ MayRetry(worker.list[s])
    BY <1>3, <2>3 DEF FailedInPassing, PutBack
  <2>4. CASE FailedInPassing(s, worker.list[s]) /\ ~MayRetry(worker.list[s])
    BY <1>1, <2>4 DEF FailedInPassing, SameStops, History
  <2>5. QED
    BY <1>4, <2>1, <2>2, <2>3, <2>4 DEF Answer
<1>5. ASSUME UNCHANGED pending, history' = [history EXCEPT ![s].torn = @ \/ Locked(s)]
      PROVE  \A t \in Sessions : SameStops(t) /\ (history[t].torn => history'[t].torn)
  BY <1>1, <1>5 DEF SameStops, History
<1>6. CASE CopyEntry(s) \/ RemoveEntry(s) \/ ReapSessionDir(s)
  BY <1>2, <1>3, <1>5, <1>6 DEF CopyEntry, RemoveEntry, Removed, ReapSessionDir, Reaped
<1>7. CASE CmdReflect(s)
  BY <1>3, <1>7 DEF CmdReflect
<1>8. CASE SkipSession(s)
  BY <1>2, <1>3, <1>5, <1>8 DEF SkipSession, Removed, Reaped
<1>9. QED
  BY <1>4, <1>6, <1>7, <1>8

\* Their removal of a session directory is told when it tears a lock.
LEMMA OtherHeld ==
  ASSUME Typed, Typed', Held,
         \/ StartPass
         \/ \E s \in Sessions : \/ Judge(s) \/ Answer(s)
                               \/ CopyEntry(s) \/ RemoveEntry(s) \/ ReapSessionDir(s)
                               \/ StartCommand(s) \/ CmdReflect(s) \/ SkipSession(s)
                               \/ TranscriptGoes(s)
         \/ Crash
  PROVE  Held'
<1> USE DEF env, buckets, seen
<1>1. ASSUME UNCHANGED <<pending, history>>
      PROVE  \A t \in Sessions : SameStops(t) /\ (history[t].torn => history'[t].torn)
  BY <1>1 DEF SameStops
<1>2. CASE \/ StartPass \/ Crash
           \/ \E s \in Sessions : Judge(s) \/ StartCommand(s) \/ TranscriptGoes(s)
  <2>1. UNCHANGED <<pending, history, slock>>
    BY <1>2 DEF StartPass, Crash, Judge, StartCommand, TranscriptGoes
  <2>2. \A g \in Hooks : hook'[g] = hook[g] \/ hook'[g].at = "idle"
    <3>1. CASE Crash
      BY <3>1 DEF Crash, IdleHook, Typed, TypeOK
    <3>2. CASE UNCHANGED hook
      BY <3>2
    <3>3. QED
      BY <1>2, <3>1, <3>2 DEF StartPass, Judge, StartCommand, TranscriptGoes
  <2>3. SectionsHeld'
    BY <2>1, <2>2, SectionsKept DEF InSection
  <2>4. QED
    BY <1>1, <2>1, <2>2, <2>3, StopsKept
<1>3. ASSUME NEW s \in Sessions,
             \/ Answer(s) \/ CopyEntry(s) \/ RemoveEntry(s) \/ ReapSessionDir(s)
             \/ CmdReflect(s) \/ SkipSession(s)
      PROVE  Held'
  <2>1. UNCHANGED hook
    BY <1>3 DEF Answer, CopyEntry, RemoveEntry, ReapSessionDir, CmdReflect, SkipSession
  <2>2. \A t \in Sessions : SameStops(t) /\ (history[t].torn => history'[t].torn)
    BY <1>3, OtherStops
  <2>3. \/ UNCHANGED slock
        \/ /\ slock' = [slock EXCEPT ![s] = None]
           /\ history' = [history EXCEPT ![s].torn = @ \/ Locked(s)]
    BY <1>3
    DEF Answer, CopyEntry, RemoveEntry, ReapSessionDir, CmdReflect, SkipSession, Reaped
  <2>4. \A g \in Hooks, t \in Sessions : InSection(g, t)' => InSection(g, t)
    BY <2>1 DEF InSection
  <2>5. SectionsHeld'
    BY <2>2, <2>3, <2>4, SectionsKept, LockGoes
  <2>6. QED
    BY <2>1, <2>2, <2>5, StopsKept
<1>4. QED
  BY <1>2, <1>3

-----------------------------------------------------------------------------
(* The hooks.                                                              *)

\* Outside its section a hook holds nothing; it enters one when it makes the
\* lock directory, and no other is inside then.
LEMMA LockHeld ==
  ASSUME Typed, Typed', Held, NEW h \in Hooks,
         \/ MakeSessionDir(h) \/ NoSessionDir(h) \/ SessionLock(h) \/ ReclaimLock(h)
         \/ LockTimeout(h) \/ SessionUnlock(h)
         \/ \E s \in Sessions : Deliver(h, s)
  PROVE  Held'
<1> USE DEF env, buckets, seen
<1> DEFINE s == hook[h].s
<1>1. /\ hook \in [Hooks -> HookState] /\ hook[h] \in HookState
      /\ slock \in [Sessions -> Hooks \cup {None}] /\ history \in [Sessions -> History]
      /\ UNCHANGED pending
      /\ hook[h].at # "idle" => s \in Sessions
  BY HookSession
  DEF MakeSessionDir, NoSessionDir, SessionLock, ReclaimLock, LockTimeout, SessionUnlock, Deliver,
     Typed, TypeOK
<1>2. /\ \A g \in Hooks \ {h} : hook'[g] = hook[g]
      /\ hook'[h] = hook[h] \/ hook'[h].at \in {"idle", "dir", "lock", "reclaim", "read"}
      /\ hook'[h].at = "read" => hook'[h] = hook[h] \/ SessionLock(h)
  <2>1. CASE \/ MakeSessionDir(h) \/ NoSessionDir(h) \/ ReclaimLock(h)
             \/ LockTimeout(h) \/ SessionUnlock(h)
    BY <1>1, <2>1
    DEF MakeSessionDir, NoSessionDir, ReclaimLock, LockTimeout, SessionUnlock, IdleHook, HookState
  <2>2. CASE SessionLock(h)
    BY <1>1, <2>2 DEF SessionLock, HookState
  <2>3. ASSUME NEW t \in Sessions, Deliver(h, t) PROVE hook' = hook \/ hook'[h].at = "dir"
    <3>1. ASSUME NEW k, hook' = [hook EXCEPT ![h] = [IdleHook EXCEPT !.at = "dir", !.kind = k, !.s = t]]
          PROVE  hook'[h].at = "dir"
      BY <1>1, <3>1 DEF IdleHook
    <3>2. QED
      BY <2>3, <3>1 DEF Deliver
  <2>4. ASSUME NEW t \in Sessions, Deliver(h, t) PROVE \A g \in Hooks \ {h} : hook'[g] = hook[g]
    BY <1>1, <2>4 DEF Deliver
  <2>5. QED
    BY <2>1, <2>2, <2>3, <2>4
<1>3. \A t \in Sessions : SameStops(t) /\ (history[t].torn => history'[t].torn)
  <2>1. CASE ReclaimLock(h)
    <3>1. s \in Sessions /\ history' = [history EXCEPT ![s].torn = @ \/ Locked(s)]
      BY <1>1, <2>1 DEF ReclaimLock
    <3> HIDE DEF s
    <3>2. \A t \in Sessions : /\ history'[t].stops = history[t].stops
                              /\ history[t].torn => history'[t].torn
      BY <1>1, <3>1 DEF History
    <3>3. QED
      BY <1>1, <3>2 DEF SameStops
  <2>2. CASE UNCHANGED history
    BY <1>1, <2>2 DEF SameStops
  <2>3. QED
    BY <2>1, <2>2
    DEF MakeSessionDir, NoSessionDir, SessionLock, LockTimeout, SessionUnlock, Deliver
<1>4. SectionsHeld'
  <2>1. CASE SessionLock(h) /\ slock[s] = None
    <3>1. /\ s \in Sessions /\ UNCHANGED history /\ slock' = [slock EXCEPT ![s] = h]
          /\ hook' = [hook EXCEPT ![h].at = "read"]
      BY <1>1, <2>1 DEF SessionLock
    <3>2. /\ slock'[s] = h /\ \A t \in Sessions \ {s} : slock'[t] = slock[t]
          /\ hook'[h].s = s
      BY <1>1, <3>1 DEF HookState
    <3>3. ASSUME NEW g \in Hooks, NEW t \in Sessions, InSection(g, t)', ~history'[t].torn
          PROVE  slock'[t] = g
      <4>1. CASE g = h
        BY <3>2, <3>3, <4>1 DEF InSection
      <4>2. CASE g # h
        <5>1. InSection(g, t) /\ ~history[t].torn
          BY <1>2, <3>1, <3>3, <4>2 DEF InSection
        <5>2. slock[t] = g
          BY <5>1 DEF Held, SectionsHeld
        <5>3. t # s
          BY <2>1, <5>2, NoneAssumption
        <5>4. QED
          BY <3>2, <5>2, <5>3
      <4>3. QED
        BY <4>1, <4>2
    <3>4. QED
      BY <3>3 DEF SectionsHeld
  <2>2. CASE ~(SessionLock(h) /\ slock[s] = None)
    <3>1. hook'[h].at = "read" => hook'[h] = hook[h]
      <4>1. ASSUME SessionLock(h), slock[s] # None PROVE hook'[h].at # "read"
        BY <1>1, <4>1 DEF SessionLock, HookState
      <4>2. QED
        BY <1>2, <2>2, <4>1
    <3>2. \A g \in Hooks, t \in Sessions : InSection(g, t)' => InSection(g, t) /\ hook'[g] = hook[g]
      BY <1>2, <3>1 DEF InSection
    <3>3. CASE ReclaimLock(h)
      BY <1>1, <3>2, <3>3, LockGoes DEF ReclaimLock
    <3>4. CASE SessionUnlock(h)
      <4>1. /\ hook'[h].at = "idle" /\ UNCHANGED history /\ InSection(h, s)
            /\ slock' = [slock EXCEPT ![s] = None] /\ s \in Sessions
        BY <1>1, <3>4 DEF SessionUnlock, IdleHook, InSection
      <4>2. ASSUME NEW g \in Hooks, NEW t \in Sessions, InSection(g, t)', ~history'[t].torn
            PROVE  slock'[t] = slock[t]
        <5>1. InSection(g, t) /\ g # h /\ ~history[t].torn
          BY <3>2, <4>1, <4>2 DEF InSection
        <5>2. slock[t] = g /\ (t = s => slock[t] = h)
          BY <4>1, <5>1 DEF Held, SectionsHeld
        <5>3. QED
          BY <1>1, <4>1, <5>1, <5>2
      <4>3. QED
        BY <1>3, <3>2, <4>2, SectionsKept
    <3>5. CASE UNCHANGED slock
      BY <1>3, <3>2, <3>5, SectionsKept
    <3>6. QED
      BY <2>2, <3>3, <3>4, <3>5
      DEF MakeSessionDir, NoSessionDir, SessionLock, LockTimeout, Deliver
  <2>3. QED
    BY <2>1, <2>2
<1>5. QED
  BY <1>2, <1>3, <1>4, StopsKept

\* A hook that reads or writes an entry is in its section, and stays there.
LEMMA SectionStays ==
  ASSUME Typed, Held, NEW h \in Hooks,
         ReadEntry(h) \/ UpsertStop(h) \/ MarkEnded(h) \/ Scan(h) \/ WriteOffset(h)
  PROVE  /\ hook[h].s \in Sessions /\ InSection(h, hook[h].s) /\ hook'[h].s = hook[h].s
         /\ \A g \in Hooks \ {h} : hook'[g] = hook[g]
         /\ \A t \in Sessions : history'[t].torn = history[t].torn
         /\ SectionsHeld'
<1> USE DEF env, buckets, seen
<1> DEFINE s == hook[h].s
<1>1. /\ hook \in [Hooks -> HookState] /\ hook[h] \in HookState /\ UNCHANGED slock
      /\ history \in [Sessions -> History] /\ s \in Sessions /\ InSection(h, s)
  BY HookSession
  DEF ReadEntry, UpsertStop, MarkEnded, Scan, WriteOffset, InSection, Typed, TypeOK
<1>2. hook'[h].s = s
  <2>1. CASE ReadEntry(h)
    BY <1>1, <2>1 DEF ReadEntry, HookState
  <2>2. CASE UpsertStop(h) \/ MarkEnded(h)
    BY <1>1, <2>2 DEF UpsertStop, MarkEnded, HookState
  <2>3. CASE Scan(h) \/ WriteOffset(h)
    BY <1>1, <2>3 DEF Scan, WriteOffset, HookState
  <2>4. QED
    BY <2>1, <2>2, <2>3
<1>3. \A g \in Hooks \ {h} : hook'[g] = hook[g]
  BY <1>1 DEF ReadEntry, UpsertStop, MarkEnded, Scan, WriteOffset
<1>4. \A t \in Sessions : history'[t].torn = history[t].torn
  BY <1>1 DEF ReadEntry, UpsertStop, MarkEnded, Scan, WriteOffset, History
<1> HIDE DEF s
<1>5. \A g \in Hooks, t \in Sessions : InSection(g, t)' => InSection(g, t)
  BY <1>1, <1>2, <1>3 DEF InSection, s
<1>6. SectionsHeld'
  BY <1>1, <1>4, <1>5, SectionsKept
<1>7. QED
  BY <1>1, <1>2, <1>3, <1>4, <1>6 DEF s

\* What a hook read under the lock is what it writes back, one Stop later.
LEMMA WriteHeld ==
  ASSUME Typed, Typed', Held, NEW h \in Hooks, UpsertStop(h) \/ MarkEnded(h)
  PROVE  Held'
<1> USE DEF env, buckets, seen
<1> DEFINE s == hook[h].s
           e == hook[h].copy
           x == [e EXCEPT !.last = turns[s], !.stops = @ + 1, !.attempts = 0]
           y == [e EXCEPT !.ended = TRUE]
<1>1. /\ s \in Sessions /\ InSection(h, s) /\ hook'[h].s = s /\ SectionsHeld'
      /\ \A g \in Hooks \ {h} : hook'[g] = hook[g]
      /\ \A t \in Sessions : history'[t].torn = history[t].torn
  BY SectionStays
<1>2. /\ StopsTyped /\ StopsTyped' /\ hook[h].at = "write" /\ e \in Entry /\ e.stops \in Nat
      /\ pending \in [Sessions -> Entry \cup {None}] /\ history \in [Sessions -> History]
      /\ hook \in [Hooks -> HookState]
  BY StopTypes, StopTypesNext DEF StopsTyped, UpsertStop, MarkEnded, Typed, TypeOK
<1>3. /\ x \in Entry /\ x.stops = e.stops + 1 /\ y \in Entry /\ y.stops = e.stops
  <2>1. \A t \in Sessions : turns[t] \in Nat
    BY BoundsAssumption DEF Typed, TypeOK
  <2>2. turns[s] \in Nat /\ e.stops + 1 \in Nat
    BY <1>1, <1>2, <2>1
  <2>3. x \in Entry /\ y \in Entry
    BY <1>2, <2>2, EntryStopped, EntryEnded
  <2>4. QED
    BY <1>2, <2>3 DEF Entry
<1>4. \/ /\ pending' = [pending EXCEPT ![s] = x]
         /\ history'[s].stops = history[s].stops + 1
      \/ /\ pending' = [pending EXCEPT ![s] = y]
         /\ history'[s].stops = history[s].stops
  BY <1>1, <1>2 DEF UpsertStop, MarkEnded, History
<1>5. /\ \A t \in Sessions \ {s} : history'[t] = history[t]
      /\ hook'[h].at # "write"
  BY <1>1, <1>2 DEF UpsertStop, MarkEnded, HookState
<1>6. ~history[s].torn => e.stops >= history[s].stops
  BY <1>1, <1>2 DEF Held, CopiesKeep
<1> HIDE DEF x, y, e
<1>7. /\ pending'[s] # None
      /\ ~history[s].torn => pending'[s].stops >= history'[s].stops
      /\ \A t \in Sessions \ {s} : pending'[t] = pending[t]
  BY <1>1, <1>2, <1>3, <1>4, <1>6, NoneAssumption DEF StopsTyped
<1> HIDE DEF s
<1>8. NoneStopped' /\ StopsNotLost'
  BY <1>1, <1>5, <1>7 DEF Held, NoneStopped, StopsNotLost
<1>9. CopiesKeep'
  <2>1. ASSUME NEW g \in Hooks, hook'[g].at = "write", ~history'[hook'[g].s].torn
        PROVE  hook'[g].copy.stops >= history'[hook'[g].s].stops
    <3>1. g # h /\ hook'[g] = hook[g] /\ hook[g].s \in Sessions
      BY <1>1, <1>2, <1>5, <2>1 DEF StopsTyped
    <3>2. InSection(g, hook[g].s) /\ ~history[hook[g].s].torn
      BY <1>1, <2>1, <3>1 DEF InSection
    <3>3. hook[g].s # s
      BY <1>1, <3>1, <3>2 DEF Held, SectionsHeld, s
    <3>4. QED
      BY <1>5, <2>1, <3>1, <3>2, <3>3 DEF Held, CopiesKeep
  <2>2. QED
    BY <2>1 DEF CopiesKeep
<1>10. QED
  BY <1>1, <1>8, <1>9 DEF Held

\* A hook reads the entry that is there, or makes one when no Stop is counted.
LEMMA ReadHeld == ASSUME Typed, Typed', Held, NEW h \in Hooks, ReadEntry(h) PROVE Held'
<1> USE DEF env, buckets, seen
<1> DEFINE s == hook[h].s
           e == IF pending[s] = None THEN NewEntry(s) ELSE pending[s]
<1>1. /\ s \in Sessions /\ SectionsHeld'
      /\ \A g \in Hooks \ {h} : hook'[g] = hook[g]
      /\ hook'[h].s = s /\ UNCHANGED <<pending, history>>
  BY SectionStays DEF ReadEntry
<1>2. /\ StopsTyped /\ hook \in [Hooks -> HookState] /\ hook[h] \in HookState
  BY StopTypes DEF Typed, TypeOK
<1>3. ~history[s].torn => e.stops >= history[s].stops
  BY <1>1, <1>2 DEF Held, NoneStopped, StopsNotLost, StopsTyped, NewEntry
<1>4. hook'[h].at = "write" => hook'[h].copy = e
  BY <1>2 DEF ReadEntry, HookState
<1> HIDE DEF e, s
<1>5. NoneStopped' /\ StopsNotLost'
  BY <1>1 DEF Held, NoneStopped, StopsNotLost
<1>6. CopiesKeep'
  BY <1>1, <1>3, <1>4 DEF Held, CopiesKeep
<1>7. QED
  BY <1>1, <1>5, <1>6 DEF Held

\* Counting tool uses leaves the Stops as they are.
LEMMA ScanHeld ==
  ASSUME Typed, Typed', Held, NEW h \in Hooks, Scan(h) \/ WriteOffset(h) PROVE Held'
<1> USE DEF env, buckets, seen
<1> DEFINE s == hook[h].s
<1>1. /\ s \in Sessions /\ SectionsHeld' /\ UNCHANGED history
      /\ \A g \in Hooks \ {h} : hook'[g] = hook[g]
  BY SectionStays DEF Scan, WriteOffset
<1>2. /\ hook \in [Hooks -> HookState] /\ hook[h] \in HookState
      /\ pending \in [Sessions -> Entry \cup {None}]
  BY DEF Typed, TypeOK
<1>3. hook'[h].at # "write"
  BY <1>2, HookWrites DEF HookStep, ReadEntry, Scan, WriteOffset
<1>4. \A t \in Sessions : SameStops(t)
  <2>1. CASE UNCHANGED pending
    BY <1>1, <2>1 DEF SameStops
  <2>2. CASE pending[s] # None /\ pending' = [pending EXCEPT ![s].tools = @ + turns[s] - offset[s]]
    <3> DEFINE x == [pending[s] EXCEPT !.tools = @ + turns[s] - offset[s]]
    <3>1. pending[s] \in Entry /\ x \in Entry
      BY <1>1, <1>2, <2>2, ScanEntry
    <3>2. x.stops = pending[s].stops
      BY <3>1 DEF Entry
    <3> HIDE DEF x
    <3>3. pending'[s] = x
      BY <1>1, <1>2, <2>2 DEF x
    <3>4. pending'[s] # None
      BY <3>1, <3>3, NoneAssumption
    <3>5. \A t \in Sessions \ {s} : pending'[t] = pending[t]
      BY <1>2, <2>2
    <3> HIDE DEF s
    <3>6. QED
      BY <1>1, <2>2, <3>2, <3>3, <3>4, <3>5 DEF SameStops
  <2>3. QED
    BY <2>1, <2>2 DEF Scan, WriteOffset
<1>5. QED
  BY <1>1, <1>3, <1>4, StopsKept

\* Every step of a hook keeps the Stops counted.
LEMMA HookHeld ==
  ASSUME Typed, Typed', Held, NEW h \in Hooks,
         HookStep(h) \/ \E s \in Sessions : Deliver(h, s)
  PROVE  Held'
BY LockHeld, WriteHeld, ReadHeld, ScanHeld DEF HookStep

-----------------------------------------------------------------------------
(* No Stop is lost.                                                        *)

\* At the start nothing is queued and nobody is in a section.
LEMMA HeldInit == Init => Held
BY DEF Init, Held, SectionsHeld, NoneStopped, CopiesKeep, StopsNotLost, InSection, IdleHook

\* Every step keeps the Stops counted.
LEMMA HeldNext == Typed /\ Held /\ [Next]_vars => Held'
<1> SUFFICES ASSUME Typed, Held, [Next]_vars PROVE Held'
  OBVIOUS
<1>1. Typed'
  BY TypedNext
<1>2. CASE Next
  BY <1>1, <1>2, HookHeld, OtherHeld DEF Next, WorkerStep
<1>3. CASE UNCHANGED vars
  BY <1>3 DEF vars, Held, SectionsHeld, NoneStopped, CopiesKeep, StopsNotLost, InSection
<1>4. QED
  BY <1>2, <1>3

\* The session lock keeps every Stop, unless its directory was removed under a
\* hook that held it (withDirLock and reapSessionDir).
THEOREM StopsKeptCounted == Spec => []StopsNotLost
<1>1. Held => StopsNotLost
  BY DEF Held
<1>2. QED
  BY <1>1, TypedInit, TypedNext, HeldInit, HeldNext, PTL DEF Spec
=============================================================================
