# Verification of the self-improvement loop

The repository turns the sessions of a coding agent into lessons. Hooks queue
each session, a background worker asks a critic about it, the recurring
criticisms become staged branches of a git repository, an operator reviews
those, and lessons can be edited in a console. All of it runs as short-lived
processes of one machine that share a directory: files that are renamed into
place, lock files, a git repository and SQLite databases. There is no server
that orders what they do, so what makes the system correct is the order of
system calls, git commands and transactions in several processes, any of which
may die, and what a client does about answers it never got.

This directory models those parts in TLA+, checks them with TLC and proves the
safety of seven of them with TLAPS. `PROJECT.json` lists the components, the
runs, the source lines behind every definition, the hazards, the findings and
the theorems.

## Contents

| module | what it is |
|---|---|
| `WorkerLock` | the lock file and reclaim mutex of `packages/worker`, one system call per step |
| `WorkerLockProofs` | TLAPS: mutual exclusion, live locks stay, nobody is refused without a cause |
| `ReflectQueue` | the session queue: Stop and SessionEnd hooks, worker, operator commands |
| `ReflectQueueProofs` | TLAPS: one reflection per entry, no entry vanishes, retries are bounded, the session lock keeps every Stop |
| `OnceLog` | abstract: a record is stored once or given up once |
| `SpillImport` | hook writes, the spill, import, legacy export and migrate of one stream |
| `SpillImportProofs` | TLAPS: stored once, nothing left behind, the bound drops old, refinement of `OnceLog` |
| `CurationLedger` | abstract: a request is decided once, a purged lesson is closed |
| `Curation` | the tables of the lesson curation store and the sources its transactions read |
| `CurationProofs` | TLAPS: revisions, scope, purge, baselines, refinement of `CurationLedger` |
| `StoreInit` | how that store comes to exist and how a process finds out whether it does |
| `StoreInitProofs` | TLAPS: the guard is owned, one installation, no false damage |
| `LessonEditor` | the lesson editor's functions: state in, state out |
| `LessonSession` | one pane of the web console around `LessonEditor`, its host and the stores |
| `LessonEditorProofs` | TLAPS: the operators of `LessonEditor` keep an editor's state sound towards requests and stores |
| `LessonSessionProofs` | TLAPS: no save misreported, forgotten or decided twice, nothing purged shown, no wording lost |
| `PromotionLedger` | the rows of the promotion ledger: what each write makes of one, what a tick plans |
| `TargetRepo` | the git repository of a world: commits, branches, merges, worktrees |
| `Review` | accept, reject, delete, re-home, retire, register, revise, refine, next to curriculum ticks |
| `ReviewProofs` | TLAPS: one file serves, one pattern at a time, as reviewed, never blocked, no treadmill |
| `LedgerRepair` | the forecast of `repair-promoted-at`, from the history `Review` makes |
| `MC*` | the instances TLC checks, with their `.cfg` files |

`Review` EXTENDS `TargetRepo`, which EXTENDS `PromotionLedger`; `LessonSession`
EXTENDS `LessonEditor`. Run a check with `tlc -config MCReview.cfg MCReview`, a
proof with `tlapm StoreInitProofs.tla`.

## Inventory

For each part: the state it keeps, what changes it, whom it meets, and what
makes it correct. The status is in `PROJECT.json`.

**Worker lock** (`packages/worker/src/index.ts:42-214`). State: the file
`worker.lock` with the holder's pid and a second file, the reclaim mutex.
Operations: `acquire`, `release`, `withLock`. Users: the worker loop, a manual
tick and every review command. Hard: a holder that died must be told from one
that lives and has not written its pid yet; two processes may reclaim at once; a
reclaimer may die. Correct when one process is inside `withLock`, a live lock is
never unlinked and a leftover never blocks the worker for good.

**Session queue** (`apps/hook/src/{queue,scan,handlers}.ts`,
`packages/store/src/queue.ts`, `packages/worker/src/index.ts:218-532`). State:
one JSON file per session in `pending`, `done` or `failed`; per session a
directory with the scan offset and the lock directory. Operations: the Stop
hook (`upsertStopQueue`, `scanTranscript`), SessionEnd (`markQueueEnded`),
`reflectPending` (list, judge, ask the critic, retry, move, reap), `sil
reflect`, `queue skip`. Hooks exclude each other with `withDirLock`; the worker
and the operator take no session lock. Hard: every reader acts on a copy that
others overwrite; hooks time out; the worker dies between a reflection and the
move. Correct when no entry vanishes, an entry is reflected once, retries are
bounded, Stops are not lost and a finished session leaves the queue.

**Hook stream writes, spill, import, export** (`packages/statedb`). State: the
tables `log_records` and `legacy_imports`, a flag that suspends imports, and
per stream an old JSONL path and a spill directory with an open file, sealed
segments, claims and backups. Operations: `hookWriteBatch`, `spillWrite`,
`sealIfFull`, `applyBound`, `importPasses`, `exportLegacy`, `migrateLegacy`.
Hooks never wait for the database: they spill instead. Importers of several
processes rename, read, commit and rename; hooks of the previous release may
still append to the old path and rotate it. Correct when each record is stored
once, or was dropped by the documented bound, a rotation brings back no more
than the lines it kept, and none sits in a file that nobody looks for.

**Loop state tables** (`packages/statedb/src/{open,streams,docs,aliases,migrations,reflection-index}.ts`).
Schema versions, documents, aliases and the reflection index, each changed in
one SQLite transaction. Correct when a migration is all or nothing and a
document's read-modify-write keeps the other keys.

**Critic, reflections, evidence packs** (`packages/{critic,transcript}`,
`packages/store/src/reflections.ts`). The critic builds a prompt from the
transcript, parses the answer and writes a reflection, then feedback events,
then a lesson. Correct when a second pass over the same entry does not write a
second reflection, and a crash between the three writes loses none of them (the
second does not hold: see the hazards).

**Curriculum plan and run** (`packages/curriculum`). State: the evidence counts,
the ledger, one staged branch per pattern, worktrees. A tick plans each pattern
that recurs (`plan.ts`), routes and drafts an artifact, judges it, commits it to
the pattern's branch and, if the configuration says so, merges it
(`run.ts`, `stageOne`). Hard: the branch may be there already, re-homed,
retired, merged and not deleted, or held by a worktree. Correct when a pattern is
served by one artifact and what was refused waits for new evidence.

**Review and ledger** (`packages/review`, `packages/store/src/{ledger,proposal-events}.ts`).
Every operation is a handful of git commands under the worker lock; the ledger
is a file in the same repository, so that it has a version per branch. Accept
commits a prepared row on the reviewed branch and then fast-forwards. Correct
when what merges is what the operator looked at, no other pattern's row or file
is disturbed, and an operation that stops half-way can be repeated or undone.

**Lesson curation store** (`packages/store/src/curation`). State: an identity
marker, a guard file, a database with records, revisions and request receipts.
Operations: inspect, open, initialize; `applyCurationMutation` (capture, edit,
important, acknowledge the source, purge). Correct when there is one
installation, a request is applied once, a stale revision is refused, a lesson
keeps its scope and a purge leaves nothing.

**Lesson editor and curated-lessons pane** (`packages/core/src/lesson-curation-ui.ts`,
`apps/web/src/lib/curated-session.ts`). A pure reducer and the controller around
it. State: the record open, the draft, the request under way, the list of saves
whose outcome is unknown, the list of records known to be purged, the store the
host reports, and a snapshot in session storage. Hard: answers are late, lost or
refused after an unknown first attempt; the store is replaced; the page is
reloaded. Correct when no save is misreported or forgotten, no wording is lost
and nothing purged is shown.

**Control protocol** (`packages/core/src/control-*.ts`,
`packages/ops/src/{mutation,control}.ts`). Carries the console's mutations: a
precondition, a request id, an outcome that is definite or unknown.

**Lesson inbox** (`packages/store/src/inbox.ts`, `apps/hook/src/lessons.ts`).
Lessons are files with delivery counts that are read, changed and written
without a lock, best effort by their documentation.

**Module spool** (`packages/core/src/spool.ts`, `apps/hook/src/spool-ingest.ts`,
`apps/hook-module`). The module inside the host's sandbox buffers appends and
moves in a spool; the Stop hook applies and deletes it. Correct when a spool is
applied once although the hook may die in between.

**Nudges, feedback, scorecards** (`packages/{nudges,feedback}`). Once-per-session
markers and gates; stored events are aggregated, compacted and trimmed.

**OpenClaw bridge** (`packages/openclaw`, `integrations/openclaw`). A scan that
queues sessions of another host and writes pending entries without the session
lock.

**Providers, operations registry, server, web console, CLI, configuration,
scripts.** Transports, argument checks, routing and views. The server's log
follower keeps an offset into a file that rotates.

## WorkerLock

| model | code |
|---|---|
| `lock`, `mutex` | the two files: who created them, and whether a pid can be read from them |
| `age` | the age of the mutex against `RECLAIM_MUTEX_STALE_MS` |
| `pc` | the next system call of a process in `acquire` or `release` |
| `won`, `seen` | the local outcome of the create in the section; whose file the last look at the path found |
| `alone` | history: processes whose call no other live process has overlapped |
| `CreateLock` ... `Probe` | the fast path (`createExclusive`, `settledPid`, then `pidAlive`) |
| `TakeMutex` ... `WriteMutex` | `takeReclaimMutex`: create, stat, unlink, one more create |
| `Reread` ... `ClearMutex` | the guarded section and its `finally` |
| `Truncate`, `Release` | `release` empties the file, then unlinks the path |
| `Crash`, `AgeMutex` | a process dies at any step; 60 s pass |

A path can be unlinked and created again while a descriptor stays open:
`WritePid` writes only if the file at the path is still the writer's own, and
`UnlinkLock` removes whatever is there.

The pid in a file is read in one step (`Settle`, `Reread`) and the process it
names is asked for in a later one (`Probe`, `Reprobe`): in between it may release
the lock and exit, and another process may create its own.

The code leaves five windows open, each a few system calls wide or bounded by a
timer:

- `settle`: an empty file whose creator (or releaser) is alive outlasts the 50 ms
  of re-reads;
- `age`: a live reclaimer takes 60 s;
- `swap`: the mutex that is unlinked is not the one that was measured;
- `reread`: the lock that is unlinked appeared after a look that left nothing at
  the path;
- `probe`: the holder that the re-read found releases the lock and exits before
  it is asked for, and another lock file is at the path by then.

`Windows` says which of them the machine may fall into. Each one alone gives two
holders (TLC finds that with three processes), which is why the passing run and
the theorems take `Windows = {}`; they say that these five are the only ways in
which the modelled protocol loses the lock. The `reread` and `probe` windows
contradict the comment beside them (see "Known disagreements").

`RefusedForCause` is about the other side of the lock: `LockHeld` costs a worker
run, so a process that no other live one overlapped since its call began must get
the lock, except for the young mutex of a dead reclaimer.

The run `worker_lock` has three processes: one holds or dies, two race to
reclaim, so that each step of the section meets a rival and a death. With two
processes no reclaimer could be overtaken by a second one. Deadlock checking is
off because all processes may be dead.

*Fairness*: a process that runs takes its next step, the worker loop asks for
the lock on every poll, and time passes. Nothing is assumed about who wins.
`LeftoverReclaimed` says a dead holder's file goes away unless everybody dies.

## ReflectQueue

| model | code |
|---|---|
| `pending`, `done`, `failed` | the queue buckets |
| `turns`, `onDisk`, `offset` | the transcript, and how far `scanTranscript` has read it |
| `sdir`, `slock` | the session directory and the lock directory in it |
| `hook[h]` | a hook process between its reads and writes |
| `worker` | one `reflectPending`: its listing, the entry in hand, the open critic call |
| `operator` | `sil reflect` or `queue skip` between load and write |
| `reflections`, `history`, `used` | what happened, for the properties and the bounds |

Time matters in one comparison only: the guard against a second reflection asks
whether the session's newest reflection is later than the entry's `first_stop`.
The model's clock is therefore the number of reflections written (`epoch`). The
lock directory and the pid file in it appear in one step: a hook that finds a
directory without a pid waits as it does for a live holder. A turn ended under
`stop_hook_active` adds to the transcript and queues nothing. Each
read, write, copy, removal and critic call is a step, so that a copy is stale
when it is used. Every `mkdir` counts: after `reapSessionDir` a waiting hook
finds no session directory, `withDirLock` throws and its event is dropped.

Two passing runs ask different things:

- `reflect_queue`: one session, two hooks, one turn, one SessionEnd and two
  mishaps (a death of any process, an operator command, a deleted transcript).
  Two mishaps allow a death during the clean-up of a death, or a command
  between a death and the next pass. One turn gives a Stop and a SessionEnd that
  race, which is the pair that shares an entry. A larger instance, two sessions
  of two turns each and three attempts, of which one session belongs to a world
  the configuration lacks, held every property over 1,111,835 states; it is not
  part of the suite.
- `reflect_live`: fairness, one session and one mishap.

`StopsNotLost` excepts a lock directory that was removed under its holder
(`torn`): `reapSessionDir` does so, and so does a waiter that takes a retaken
directory for the dead one's. The model contains both; no text promises
otherwise. `RetriesBounded` allows one more call per death, since the attempt is
written after the call.

*Fairness*: hook processes end (they have a time limit); the worker loop polls;
a transcript that nobody writes grows old (`SF` on a verdict other than "wait",
which the clock makes possible again and again); a provider or a configuration
that is down is repaired some day (`SF` on an answer that moves the entry). Hooks
need not be scheduled, and users need not end sessions.

`turn_thrown_away` ends in a violation and is a finding: a Stop between the
verdict and the removal of a pending entry leaves the queue with it.

## SpillImport

| model | code |
|---|---|
| `place`, `content` | every file by its creator (its inode): name, state, records |
| `stamps`, `sealed` | the times taken for the names of segments, those in use |
| `later`, `kept` | history: the segments sealed after each; what a rotation or export copied |
| `rows` | `legacy_imports`: what the verified row of a file covers |
| `db` | how often a record is in `log_records` |
| `sqlite`, `suspended` | the write lock; `meta.legacy_import_suspended` |
| `hook[r]` | the hook that writes record `r`: its stamp, descriptor, victims, the tail it read |
| `importer[p]` | one pass: the files to do, the file in hand, the next call |

A descriptor follows its file through renames, so an append may land in a
segment, a claim or a backup. A pass lists the files once, takes the leftover
claims first and then the sealed segments, the open file and the old path;
each claim is a transaction, and `finalize` is another that looks at the size
again, imports a tail or renames the claim to its backup.

A hook takes the time that names its segment before the rename
(`Stamp`, `Seal`), so that the order of names need not be the order of seals. A
hook of the previous release runs the `appendLine` that this release keeps in
`core/src/fsx.ts`: it stats the old path, reads the lines it will keep, renames
them over whatever is at the old path by then, and appends. A rotation's file is
a new inode without a row, whatever rows the lines had before, so a line that it
kept can be stored once more. `Rotations` bounds how many happen.

`Windows` names four races: an append after the last stat of `finalize`
(`backup`; the design document accepts it in
`docs/superpowers/specs/2026-10-25-loop-state-sqlite-design.md:423`), an append
to a segment that the bound unlinks (`unlink`), the previous release writing
the old path while an export renames over it (`clobber`), and a hook that stalls
between its stamp and its rename while a segment with a later stamp is sealed
(`stamp`). The passing runs take none of them. `clobber` and `stamp` contradict
the repository's own words (see "Known disagreements"). Times are those of one
clock that does not go back, and no two hooks take the same one.

- `spill_import`: three hooks with `SealAt = 1` and `MaxSegments = 1`, two
  importers, one mishap. Three records are the fewest with which a segment is
  sealed, a second one is sealed and the bound drops the first while importers
  claim either. One mishap is a death in any step, including between commit and
  rename, or a busy timeout.
- `spill_export`: two hooks of the previous release, one rotation at one line
  (`RotateAt = 1`), one export, two importers, one mishap, with fairness: export,
  appends to the exported file, its rotation and migrate in any order. Two hooks
  are the fewest with which one rotates the line of the other after an import
  or an export of it; without the rotation's term `ImportedOnce` fails here. A rotation
  that loses a line (a stale tail renamed over a file that has grown) needs three
  such hooks: with `OldHooks = {o1, o2, o3}` and one importer the run passes, too
  (355,987 states), but takes longer than its worth beside the theorem.

*Fairness*: a started process goes on, and something opens the loop state again
and again (the worker on each poll, every command). A busy timeout is a counted
mishap: no transaction outlasts the 2 s timeout for ever. `WaitingEnds` excepts
an import that stays suspended, which only `sil state migrate` ends.

## Curation

| model | code (`packages/store/src/curation`) |
|---|---|
| `records`, `revisions`, `requests` | the three tables (`database.ts`, `SCHEMA_V1`) |
| `source`, `place` | the digest of an inbox lesson's file (`sources.ts`) and the project its path maps to (`projects.ts`) |
| `Fresh`, `InScope`, `Purged`, `Sourced`, `Current` | the refusals of `transact`, in the order of the code where it matters |
| `Capture`, `Annotate`, `Update`, `Unchanged`, `Purge`, `PurgeAgain` | the ends of `transact` in `mutations.ts` |
| `tx`, `Begin`, `ReadSource`, `ReadPlace`, `Rollback` | a transaction that needs the source: BEGIN, `resolveSource`, `validateScope`; `Close` is its end |
| `SourceChanges`, `SourceMoves` | what happens outside the store, at any time |
| `sighted` | history: what that source was since the BEGIN |

A request is one `BEGIN IMMEDIATE` transaction. What it reads of the tables
stays until its COMMIT, because there is one writer; what it reads of the source
file and of the configuration does not. So a request that needs them (a first
annotation of an inbox lesson, an acknowledgement) is a step for BEGIN, one for
each of the two reads and one for the COMMIT, and the source changes in between;
every other request is one step. The request itself is chosen at the COMMIT: the
tables it was checked against are the same since BEGIN. What is refused or
replayed changes no table; a COMMIT whose outcome nobody learns is a step or
none. The payload hash of a receipt is the value the request asked for. `Init`
leaves the sources arbitrary, for they are not the store's.

`BaselineWasRead` compares a new row with what the source was since BEGIN
(`sighted`), not with what it is at the COMMIT: between read and COMMIT the file
may change, and the code does not claim otherwise ("the source observed now",
`mutations.ts:453`). What it must never be is a digest, or a project, that only
the client saw.

`DecidedOnce` is the refinement of `CurationLedger`: each request takes one
decision, changes to a lesson are numbered without a gap, and a purge withdraws
all its receipts and closes it. The run `curation` has one captured and one
inbox lesson, two scopes, two texts, two digests and four requests. The deepest
story the code guards against needs three: a request that changes nothing and
leaves no row, a move of the source to another project, and a request from
there; the fourth is a purge on top. Everything but the lesson keys is
symmetric.

## StoreInit

| model | code (`packages/store/src/curation/database.ts`) |
|---|---|
| `dir`, `marker`, `db`, `guard` | the directory and the three files in it |
| `LookDir` ... `Verify` | `inspectState`, one directory entry per step, with its two second looks |
| `FirstLook`, `LookOwned`, `Wait`, `Deadline`, `LastLook` | `inspectOrWait` and the loop of `openCurationStoreWith` |
| `TakeGuard`, `LookUnderGuard` | `tryAcquireGuard`, `inspectStateAllowingGuard` and the second check of what the caller expects |
| `WriteMarker`, `CreateDb`, `WriteSchema`, `WriteReady`, `ReleaseGuard` | `initialize` and the end of the guard |
| `Crash` | a death between any two of them; its guard and its half of the files stay |

Each process makes one call: it inspects, joins (initialize if there is nothing)
or creates (the caller expects nothing to be there). Installation ids are named
after the process that draws them. `Deadline` may come at any time in a wait,
because a process may stall.

`NoDamageSeen` is the property that took the second looks of `inspectState` to
hold: no combination of old and new looks at the files is reported as damage,
neither while a live process initializes nor after one died in the middle.
`store_init` has two processes, both of which may die. Three processes with one
death (737,212 states) held the same properties outside the suite; the theorems
cover any number.

*Fairness*: a process that runs takes its next step, and one that waits again
and again finds its deadline past (`SF`). `EveryCallEnds` needs nothing else: no
one removes a dead process's guard.

## LessonEditor and LessonSession

`LessonEditor` is `lesson-curation-ui.ts` as operators on an editor state, with
the names of the code: `navigate`, `hydrate`, `observeStore`, `submit`,
`applyCommit`, `attemptOutcome`, `snapshotLessonEditor`. `LessonSession` is
`curated-session.ts` around it:

| model | code |
|---|---|
| `ed`, `obs` | the controller's state and its observation of the store |
| `calls` | sends of a request: open in the client or not, executed or not, the answer on its way |
| `pinned`, `block`, `held`, `seen` | what the pane browses, why it may not, and what it last saw |
| `hello`, `read`, `lookup`, `route` | the newest handshake, detail read, receipt lookup and link lookup under way |
| `here`, `made`, `record`, `decided` | the store at the location, all stores made, their records and decisions |
| `asked`, `told` | auxiliary: what was submitted and the definite answer the pane acted on |

A request may be executed after the pane gave up on it, or never
(`executeCurationMutation` in `packages/ops`); its answer may be lost, may come
after a retry's, or may be an honest refusal of a second attempt whose first was
committed. `Rival` is another client, `Move` a person who moves the directory,
`Reload` the page. A read that something newer supersedes has no effect when it
answers, so the model forgets it at that moment. Consent is given at once: an
action that would prompt happens when the person agrees. Scopes are part of the
key, the provenance of a capture part of its wording; history, error texts and
the legacy store hints are left out.

The run `lesson_session` is a set of six scenarios (`MCScenarios`), for one
free exploration is out of reach: two saves against a rival; purges with a full
list of purged records; a reload while saves are under way; two stores, a move
and a link; no store, created by this pane's saves around a move; no store,
created by this pane or a rival. Each bounds requests, rivals, moves, opened records, reloads, links, the
reads under way at once (one) and the editor's generation. Lists hold one entry,
so that they are full at the first abandoned save. Larger scenarios (818,020
states) held outside the suite.

## Review

| model | code |
|---|---|
| `commits`, `main`, `branch`, `held` | the repository; `held`: branches a leftover or foreign worktree has checked out |
| `checkout`; `Live`, `Seen` | what the target's own checkout has: the default branch, or any other commit; a pattern's row on the default branch (`ledgerAt`), and in the working tree (`loadLedger`) |
| `op` | the operation under the worker lock and its next git command |
| `screen` | the proposal a person looks at; its base and tip are the digest |
| `AcceptBegin`, `AcceptPrepare`, `AcceptMerge`, `DropBranch` | `acceptInner`: checks, prepared commit in a worktree, fast-forward, `branch -D` |
| `Reject`, `Remove`, `Register` | one commit on a scratch branch that is fast-forwarded, then the branch is dropped |
| `Rehome`, `Retire` | one commit on the pattern's branch |
| `ReviseAsk`, `ReviseCommit`, `ReviseRefused` | `revise.ts`: a draft without the lock, then the write under it |
| `RefineBegin`, `TickBegin`, `StageReset`, `StageCommit`, `AutoMerge` | `refine.ts`, `plan.ts`, `stageOne` in `run.ts` |
| `Reflect`, `Interferes`, `Dies`, `Released` | new evidence; a person's own git commands; a death between two commands; a worktree that goes |
| `LooksElsewhere`, `ComesBack` | a person checks another commit out, and the default branch again |
| `refused`, `retiring`, `astray` | auxiliary: the evidence at a human's last no; at the staging of a retirement; the patterns once drafted from another branch's row |
| rows of `PromotionLedger` | `PromotionEntry`, and what each operation writes into it |

A commit carries the whole ledger and every artifact in two types: a skill has a
file of its own, a rule is a bullet in a file that all patterns share, which
matters for conflicts and for what "foreign" means. A text is named by the
commit that first wrote it; a date is a commit number. Content that is no
pattern's is the number of the last commit that put some (`extra`). What a drafter says, what
a judge or a gate answers, whether a checkout is dirty and what a scorecard
proposes are free choices. Which ledger a step reads is not: accept, reject,
delete and the automatic merge demand the default branch's checkout and read it
(`checkout = 0`, `Live`), while `plan.ts`, `run.ts`, a re-home, a retirement and a refine read the ledger
of the working tree, whatever a person has checked out there (`Seen`). Under the worker lock one operation runs at a time
(`WorkerLock` shows that); a death ends it and the next one meets its leftovers.

The interesting depth is a sequence of legal operations, so a run begins in one
of nine kinds of beginnings (`MCBeginnings`): an empty world or imported live artifacts,
two patterns in breadth or one in depth, with budgets for commits (3 to 5),
reflections, deaths and interferences. An accept on top of a re-home on top of an
import takes three commits; a stale sibling needs two patterns and four. The
thresholds are 1, so that evidence is enough as soon as there is some.

`MergedAsReviewed`, `OnlyOwnPattern` and `ServedByOneFile` relate what a person
saw, what the branch held and what the default branch has afterwards.
`ServedByOneFile` excepts a pattern that a tick drafted while the row in the working tree
was not the default branch's (`astray`): the type of the draft and the file it
replaces are then another branch's, and the old file stays.
`NeverBlockedByAnother` says that a proposal that no person touched by hand can be
accepted whatever was accepted next to it. `NoTreadmill` relates a refusal to
the next time the pattern is proposed. A refusal counts from the commit that
records it, also when the branch survives (`DropBranch` may fail, or never come),
and only a later yes overrules it: the merge of a draft, a re-home, or the accept
of a retirement that survived, which leaves the retirement's own, lower mark
(`Decides`). The property excepts the draft that replaces the
stub of a re-home, which a person asked for, and a tick that finds another row
of the pattern in the working tree than the default branch has.

`LedgerRepair` reads the same history as `repair.ts`. The two violation runs are
findings: `review_repair` (an accept that was refused at the fast-forward and
repeated puts a snapshot on the default line that was never live) and
`review_tombstone` (a deleted inline artifact keeps its origin and is never
proposed again).

## Runs

| run | instance | shows | distinct states |
|---|---|---|---|
| `worker_lock` | 3 processes | exclusion, live locks stay, refusals have a cause, leftovers go | 102,503 |
| `reflect_queue` | 1 session, 2 hooks, 2 mishaps | entries, reflections, retries, Stops | 2,614,514 |
| `reflect_live` | fair, 1 mishap | an ended session leaves the queue | 208,420 |
| `turn_thrown_away` | 2 turns | finding: a queued turn is removed unseen | |
| `spill_import` | 3 hooks, 2 importers | none stranded, only old dropped, refinement of `OnceLog` | 668,917 |
| `spill_export` | fair, export, rotation, migrate | stored once but for rotations, none stranded, what waits is imported | 442,191 |
| `curation` | 2 lessons, 4 requests | one scope, revisions, purge, baselines, refinement of `CurationLedger` | 60,708 |
| `store_init` | 2 processes, 2 deaths, fair | one guard, one installation, no false damage, every call ends | 12,772 |
| `lesson_session` | 6 scenarios | no save misreported, forgotten or misdirected, nothing purged shown, no wording lost | 408,003 |
| `review` | 2 patterns, 13 beginnings | what merges was reviewed, of one pattern, served by one file, no treadmill | 2,253,389 |
| `review_repair` | 1 pattern | finding: the repair forecast changes a fresh row | |
| `review_tombstone` | 1 pattern | finding: evidence does not bring a deleted pattern back | |

Every property of a passing run is broken by a mutant of a mapped definition
that stands for a plausible bug of the code; the mutated forms are the operators
marked `Fault:` or `Mutant:` in the modules. Deadlock checking is off where all
processes may be dead or the bounds may be spent. `curation` checks it, for a
source can always change.

## Known disagreements no run shows

A run that ends in a violation shows a finding. The following were met on the
way, too, and are left to the reader of the code: either a passing run's
assumption excludes them, or they sit next to a property and not against it.

- *Worker lock, `packages/worker/src/index.ts:156-157`*: "a live lock must never
  be unlinked". Between the re-read that finds no file and the unlink another
  process may create the lock; and between the read of a pid (158) and the signal
  that asks for it (159) that process may release and exit while another takes
  the lock (`Windows = {"reread"}` and `{"probe"}` in `WorkerLock` reach them).
- *Repeated evidence, `packages/worker/src/index.ts:466-471`*: an entry covers
  "exactly this work". A SessionEnd that arrives after the reflection creates an
  entry dated now, and the same turns are reflected a second time.
- *Export, `packages/statedb/src/status.ts:397-399`*: only a file identical to a
  verified row may be replaced. The file is compared before the commit and
  renamed over after it, and a hook of the previous release may write in between
  (`Windows = {"clobber"}` in `SpillImport`).
- *Segment bound, `docs/superpowers/specs/2026-10-25-loop-state-sqlite-design.md:241-243`*:
  the hook "unlinks the oldest by name", an "oldest-first loss". The name is
  taken before the rename (`hook.ts:267`, 269), so that the segment of a hook
  which stalled in between sorts before segments sealed earlier, and the bound
  drops the newest records (`Windows = {"stamp"}` breaks `OnlyOldDropped`).
- *Rotated export, `docs/OPERATIONS.md:617-621`*: a 1.3.0 hook's rotation "can, if
  it races an import, bring back the old hook's own kept tail once more"; "it
  cannot touch anything a 1.4 hook wrote". An export writes every stored line
  to the old path, those of this release's hooks too. A 1.3.0 hook that rotates
  the exported file makes a new inode that no row covers, and `sil state migrate`
  imports the tail it kept a second time, with no race; the design document
  (line 868) promises only the double that the row of the export prevents. The term of
  `ImportedOnce` for rotations is there for this and for the overlap that
  `upgrade-window.test.ts:101` expects.
- *Store inspection, `packages/store/src/curation/database.ts:679-683`*: an
  initializing marker under a held guard is waited for. An open that reads the
  marker of a live initializer and looks for the guard after it was removed
  reports `initialization_interrupted`, although the store is ready.
- *Followed links, `apps/web/src/lib/curated-session.ts:794`*: wording typed while
  the lookup of a link is awaited sets `blocked` with no prompt shown;
  `lesson-curation-ui.ts:134` calls that field a navigation waiting for an
  explicit choice, and `submit` (line 604) does nothing while it is set.
- *Ledger of the working tree, `packages/curriculum/src/plan.ts:202-204,466` and
  `run.ts:260`*: a tick, a re-home, a retirement and a refine read the ledger of whatever is checked out
  in the target, and only the automatic merge (`run.ts:807-812`) demands the
  default branch. With a stale staged branch checked out a tick drafts for the
  type that branch has; after the accept the old type's file and the new one are
  both live. In the same way it does not see a refusal on the default branch.
  Without `astray` in `ServedByOneFile`, or without `Seen(p) = Live(p)` in
  `NoTreadmill`, the run `review` finds each.
- *A retirement that survives its refusal, `packages/review/src/index.ts:517-539`*: accept
  writes the row of the branch over the live one, with the mark of the branch. Of a
  retirement that was refused, or whose pattern was deleted, and whose branch could not be deleted, it
  takes the mark back to where the retirement was staged, and the pattern may
  return on the evidence that was refused since. `docs/OPERATIONS.md:48-50` says
  that a deletion raises the mark.
- *Review*: `revise` does not refuse a branch that an automatic merge left
  behind, so that a revision on top of it is accepted as a new draft. After an accept that
  was refused at the fast-forward the branch's row reads "promoted", so that the
  next redraft of the pattern resets the branch a person has reviewed. A merged
  branch whose row says "retired" and that could not be deleted makes every tick
  wait, and is not listed. The comment at `packages/review/src/index.ts:587-588`
  says such a branch "keeps showing in the review queue", whose listing (line
  246) asks for `--no-merged`.

## Proofs

`WorkerLockProofs` proves, for any set `Procs` and any value `None` outside it:

- `WellTyped`: `TypeOK` is invariant, whatever windows are hit.
- `Invariance`: `IndInv` is invariant when `Windows = {}`.
- `Exclusion`, `NoLiveUnlink`, `RefusalHasCause`: the three safety properties of
  the run `worker_lock`, when `Windows = {}`.

Mutual exclusion is not inductive: from an arbitrary state in which the lock
file belongs to nobody, a second process would enter. `IndInv` says why the file
is the truth: whoever owns the lock has its file at the path (`OwnerHasFile`)
and a live file has an owner (`LiveFileHasOwner`). The only step that removes
another process's file is a reclaimer's unlink, so the invariant tracks that a
live process in the section has the mutex (`SectionHasMutex`), that only a dead
one's mutex is old (`StaleIsDead`, `UnlinksStaleMutex`), and that what stands
before the unlink is nothing or the dead process's file that was looked at
(`UnlinksDeadLock`), already while its process is asked for. `Exclusion` is then
the fact that one file has one creator. The step lemmas are one per part of the
protocol. `RefusalHasCause` needs that a live process's files mean it is inside
(`LiveFileHasOwner`, `LiveMutexInSection`): who is alone meets only what the dead
left (`Unhindered`).

`ReflectQueueProofs` proves, for any sets `Sessions` and `Hooks` and any bounds,
from `BoundsAssumption` and `NoneAssumption` (the value that stands for "nothing"
is neither an entry, a session nor a hook):

- `Typing`: `TypeOK` is invariant. It is not inductive: a hook writes back the
  copy it has, so the proof carries what a process has in hand (`InHand`), and a
  scan adds a difference, so it carries that offsets are behind the end of the
  transcript (`OffsetsBehind`).
- `OneReflection`: `OneReflectionPerEntry` is invariant. The argument: no entry,
  listing or copy in any process is dated after the reflections there are
  (`EpochsPassed`), and the guard in `reflectPending` lets nothing pass that is
  dated before the newest one. An entry the critic is asked about is therefore
  dated exactly now (`AskedOnce`), for nobody but the one worker writes
  reflections while the call is open. So reflection i has epoch i - 1
  (`EpochsInOrder`), and no two have the same. Stale copies do not matter.
- `NothingVanishes`: `EntryNeverVanishes` holds of every step. A process about to
  remove a pending file has written the terminal copy (`CopiedFirst`), terminal
  copies stay, and all other writers put an entry there.

TLC checked the conjunction of these parts, `IndInv`, on the instance of
`reflect_queue` before it was proved, and the two invariants below as well.

The second half of the module builds on the typing and proves the other two
invariants of the queue.

- `Retries`: `RetriesBounded`. The bound is not inductive, since nothing in it
  says what the entry holds. `Attempts` adds that every failed call is written
  down: the calls counted for a session are at most the `attempts` of the
  pending entry, and of the listed one, plus the mishaps (`Counted`), and no
  entry or copy has reached `MaxAttempts`. There is one exception, the last call
  of all, after which the worker retires the entry (`Retires`); a death between
  that call and the removal is a mishap, which pays for it. A stale copy is no
  danger: a hook or command that writes one starts the count anew, and the
  worker writes back only what it listed (`SameCount`).
- `StopsKeptCounted`: `StopsNotLost`. `Held` says that a hook in its section
  owns the lock directory (`SectionsHeld`), so that the copy it is about to write
  still counts all Stops (`CopiesKeep`), for any other writer either is a hook in
  a section or sets the count back to none. Every removal of the directory
  (`SessionUnlock`, `ReclaimLock`, `Reaped`) is then the owner's, or one that
  `torn` tells (`LockGoes`). This is where a hook must differ from `None`.

`CurationProofs` proves, for any lessons, scopes, texts, digests and request ids
and any `MaxRevision`, from `CurationAssumption` and `NoneAssumption`, every
property of the run `curation`: `Scoped`, `RevisionsMadeOnce`, `PurgedForGood`,
`BaselinesRead` and `Refinement`, and the typing. The inductive invariant is
`TypeOK /\ OneScope /\ RevisionsAccountedFor /\ PurgeLeavesNothing /\
OpenCommitted`. The conjuncts need each other: a purge writes one receipt per
request of the lesson with that request's scope, and only `OneScope` makes these
the lesson's; a change numbers its receipt one above all others, which is new
because `RevisionsAccountedFor` bounds the others; `OpenCommitted` says that the
receipts of a lesson that was not purged are committed ones, without which a
revision could be claimed by a withdrawn receipt. Each ending of the transaction
has a step lemma, and what it leaves alone is one lemma for all of them
(`OthersKept`). `BaselinesRead` needs one invariant more: what the open
transaction holds, and what is there now, was sighted (`Witnessed`). `Refinement` maps a change of the tables to `Change`, a receipt
without one to `Keep`, both purges to `Purge` and the outside to a stutter.

`StoreInitProofs` proves, for any set of processes, any number of deaths and any
point of death, from `NoneAssumption` and `CrashAssumption`: `GuardIsOwned`,
`OneIdentity`, `CreatesItsOwn`, `NoDamage`, `IdentityKept` and the typing. The
argument: the files only grow, and what is under the guard changes by the hand
of its owner (`Grows`, `Unheld`); hence what a process has seen stays true
(`Looked`), a process that writes knows that it writes into nothing (`Holding`),
and an identity that was read from a ready marker is that of the database
(`Identified`, with `MarkerFirst`: no database before a marker, and a ready
marker has its database). A process's own step keeps its knowledge, another's
step only adds to it (`OtherKnows`). `NoDamage` is a consequence of the answers
that typing allows: the proof shows of each damage answer that the step that
would give it is not enabled.

`SpillImportProofs` proves every safety property of the runs `spill_import` and
`spill_export`, and the typing, for any hooks, exports, rotations and importers
and any `SealAt`, `MaxSegments`, `RotateAt` and `MaxMishaps`, from
`SpillAssumption` (file names and processes are told apart, hooks and rotations are finitely
many, the bounds positive). Each theorem assumes only what it needs:

- `Typing` and `StoredOnce` (`ImportedOnce`): nothing. A record can be in several
  files, for an export and a rotation copy lines, so that "once" alone is not
  inductive. `Filed` says that a hook which has not appended is nowhere
  (`Unwritten`, `Uncreated`), that the file in an importer's hand is a claim or
  finished (`InPlace`), an unplaced export that of one process (`StagedApart`),
  and that a row covers only what the database has (`RowsSound`). `Counted` counts:
  a line was appended to one file (`OneHome`), a copy of an export is covered by
  its row (`KeptSound`), and a record is stored as often as its own file and the
  files of rotations that kept it have been imported (`Counts`).
- `BoundDropsOld` (`OnlyOldDropped`): `stamp` is not in `Windows`. Then a hook at
  its rename has a name newer than all that were sealed (`NextIsNewest`), later
  names were sealed later (`SealedInOrder`), and a victim that was old when it
  was listed is older still when it is unlinked (`OnlyOldGo`).
- `NothingLeftBehind` (`NothingStranded`): `backup` and `clobber` are not in
  `Windows`. `Safe` says of every place an importer no longer looks at, a backup,
  an unplaced export, what an export replaced, that its row covers it and nobody
  has it open (`Settled`), and the same of the file that a rename is about to
  move there (`BackupReady`, `ExportReady`). What a rotation replaced is given up,
  unless a file that is still looked for has the line; an append to an unlinked
  segment, or to a replaced file, does no harm to this property.
- `Refinement` (`ImplementsOnceLog`): `unlink` is not in `Windows`, and nothing is
  rotated (`Rotations = {}`). Then a line that waits is in one file (`OnlyHome`).
  The mapping counts a record as given up when it is in an unlinked segment and
  not in the database; nobody may have such a segment open (`QuietSegments`).

`ReviewProofs` proves the five properties of the run `review`, and the typing,
for any patterns, any thresholds and rewords, any beginning and any bounds, from
`ThresholdAssumption` and `ReviewAssumption` (there is a pattern; the value for
"nothing" is neither a type nor a pattern; a run begins with promoted patterns
and a budget). One invariant, `Inv`, serves all five:

- `DAG`: ancestors are older commits, and an ancestor's ancestors are ancestors.
  Ancestry as git reports it is then a partial order.
- `Forks`: every branch left the line of the default branch at a commit `m`
  (`Fork`), which is the merge base git finds (`MergeBaseIs`). Since `m` the
  branch changed no other pattern's row or artifact, content of nobody's only by
  a person's commit, and the default branch changed this pattern's artifact only
  by a person's correction and never the file that serves it (`Kept`). What is
  on the branch is `m` itself, a person's work, or a proposal (`Proposed`), whose
  artifact fits its row and the one it replaces (`Fits`, `Drafted`) unless the
  pattern went astray.
- `Apart`: two branches share nothing that the default branch does not have, so
  that the merge of one leaves the forks of the others (`ForkFromMerge`).
- `MainServed`: each live row is served by the file it names, astray patterns
  excepted.
- `AcceptInv`: between its checks and its merge an accept relies on what it saw.
  `Reviewed` says what survives when a person commits to the default branch
  meanwhile, and `Joined` what the prepared commit holds. That the fast-forward
  succeeds is what proves that nobody did: a default branch that moved is not an
  ancestor of the prepared commit (`AcceptMergeIs`).
- `TickInv`, `DropInv`, `ScreenInv`: a tick works on the rows it planned from
  (`PlannedFrom`, where they were the default branch's), and never for a pattern
  whose refusal the default branch has forgotten; a
  no is in the ledger before the branch goes, what is on a screen is not merged.
- `Marks`: the default branch's row has a mark at least as high as the evidence at the last
  refusal, or a retirement waits to be merged (`Remembers`), for which every tick waits;
  and a retirement's row remembers the evidence it was staged with
  (`RetirementRemembers`), which is what an accept of it leaves.

Every action has a lemma that it keeps `Inv` (`AcceptPrepareKeeps`,
`StageCommitKeeps`, ...), and `StepInv` joins them. `OneFile` and `NeverBlocked`
follow from the state: where no person touched the draft, the fork says that
neither side of the merge base has anything foreign or conflicting.
`OneAtATime`, `AsReviewed` and `StaysRefused` follow from the step that could
break them. `refused`, `retiring`, `astray` and
`op.seen` are auxiliary: no guard reads them.

In `Review` the prover found two statements too weak to be carried on. Of content that is
no pattern's the model had only kept whether there was any, by which a second
change by a person could not be told from none; it is now the commit that made
the last one. And nothing said that there is a pattern at all.

`LessonSessionProofs` proves every property of the run `lesson_session`, and the
typing, for any keys, installations, requests, texts, scenarios and bounds, from
`SessionAssumption` (`None` is no value of the types it stands for the absence
of, a bare location is no installation, the bounds are natural, and a list that
begins full has an entry). All but the last follow from one `Invariant`, in two
halves that need each other.

`Sound` relates the editor's state `s` to the rest, and is stated of any `s`, so
that it can be followed through the operators an action composes:

- `Shape`: what is expected is the installation of the target (`Placed`); a
  request under way is about the open record, on the base there is (`Pending`);
  a purged record has nothing left (`Closed`); a record captured at a location
  shares its key with no unchecked save and no purged record (`Apart`).
  `SnapshotRead` is this and nothing else: what has the shape can be read back.
- `Anchored`, `Tracks`: what is pending or listed was submitted as it stands
  there, and a request is tracked or settled, never both (`RequestsKept`).
- `Stored`: base and loaded version are in the log of the expected store
  (`BaseStored`). Since logs only grow, another client's save does not disturb it.
- `Attempted`: while the phase is "saving" the request has been sent once, and
  the client waits for that answer. This is what makes a refusal believable.
- `Buried`: what the tab was told is purged is listed, or the list is full, and
  it is not open (`PurgedHidden`).

`Ledger` is about requests, calls and stores alone:

- `Refusals`: what was reported as refused was decided nowhere and no attempt of
  it is on its way. "No attempt" is the part `NoFalseRefusal` does not state and
  cannot do without: a late attempt would commit it (`RefusalsProven`).
- `Dispatched`: an attempt names the store its request was composed for; one
  that names none, for there was none, is the only attempt of its request.
- `Decided`: a decision was carried out by an attempt, in the store the request
  was composed for or, if it was composed for a bare location, in one. Together
  with `Dispatched` this keeps a request from a second store after a move
  (`DecidedByOne`): the first attempt was the only one, and it is over.
- `Submitted`, `Untouched`: what is asked fits its record; what does not exist is empty.

`ReadStored`, `LookupDecided` and `Linking` say the same of the reads and lookups
under way. The operators of `LessonEditor` have lemmas of their own about `Shape`,
`Anchored` and `Stored`, in `LessonEditorProofs`; each action has a step lemma (`...Step`), and
`NextInvariant` joins them. TLC checked `Invariant` on the instance of
`lesson_session`. `WordingStays` is about steps:
an operator that does not leave the draft alone ends in "purged" (`Drafts`), and
the actions that are the person's own are those the property names.

In `LessonSession` the prover found one wrong statement: `Settle` recorded
"purged" for every request that was dropped by a step after which the record is
purged, also for an unchecked save whose check answered something else. It now
records the outcome that was told, and "purged" only for the request under way.

Only model-checked: liveness (`LeftoverReclaimed`, `EndedLeavesQueue`,
`WaitingEnds`, `EveryCallEnds`); and `NoTurnThrownAway`, `RepairAgrees` and
`EvidenceBringsBack`, which the code violates.
No module declares a RECURSIVE operator; `LedgerRepair` folds over the history,
and what the fold computes for every history could not be proved.

## Not modelled, and why

- *WorkerLock*: a pid that another process reuses; a failing write.
- *ReflectQueue*: pruning of terminal buckets and of old session directories
  (they touch nothing a pending entry needs); usage events of the scan; the
  20 MiB cap and the rotation of a transcript; an entry that does not parse; the
  feedback events and the lesson after the reflection (appends that the modelled
  part does not read). `Scan` reads an entry and writes its counter back in one
  step, as `bumpToolUses` does but for the microseconds between its two calls:
  the stale entry that may be written back there is what `UpsertStop` and
  `MarkEnded` write back after `ReadEntry`, which are two steps.
- *SpillImport*: documents and aliases, which are merged by key and not
  appended; quarantine and the refusal of a file whose bytes changed under its
  row; batches of several streams, which differ in nothing but the number of
  files; `superseded_by` on export rows; reuse of an inode number; ENOSPC; a clock
  that goes back, or two stamps of one millisecond (the pid and a counter order them).
- *Curation, StoreInit*: `read.ts`, which assembles answers; the checks of file
  owners and of the file system; an unreadable file; SQLite's own recovery.
- *LessonSession*: a write to session storage that fails, of which the pane only
  says that it does (`storageWorks`): a reload then finds an older snapshot, or none; the
  limit on the attempts kept for unresolved requests (`lesson-curation-ui.ts:450`); the list's filters, history and source views, which only read;
  the reducer's events no web adapter dispatches (`rejected`, `restore`,
  `read-failed`, `history`); more than one store location; two panes of one tab.
- *Review*: a person's checkout of another branch inside the few git commands
  of an accept, between its check of the checkout and the fast-forward (a tick,
  which takes minutes, is interrupted anywhere); a change of checkout between the
  two reads of the ledger at the start of a tick (`plan` and `run`), which are one;
  the links into the agent's directories, `publish` and pull requests
  (a remote), the inventory, the commit of the repair itself, the attempts cache
  and the per-run cap of a tick, artifact types other than skill and rule (hooks
  and agents behave as skills in git), more than one world.
- *Loop state tables*: schema migrations, documents and the reflection index are
  single SQLite transactions; a model would restate the database.
- *Lesson inbox*: its counts are documented as best effort, so that there is no
  promise to check.
- *Module spool, hook module*: the spool's writer runs inside the host's sandbox,
  whose ordering of file writes the repository assumes and does not contain. A
  model would be one of the assumption.
- *Native lesson panel* (`apps/hook-module/src/ui/lessons.ts`): the second client
  of the editor of `LessonEditor`. Its own state (the snapshot kept across a
  reload and the writes still on the way to it, the choice of the project, paging) is not
  modelled; what it shares with the web client is, in `LessonEditor`.
- *OpenClaw bridge*: one more unlocked writer of a pending entry, as the operator
  of `ReflectQueue` is.
- *Server, web console, operations registry, command line, worker kick,
  configuration, providers, prompts, lint, judges, scorecards, scripts*: views,
  transports, argument checks, text and aggregation. Where a modelled part calls
  them their answer is a free choice.

The definitions of this directory stand for about a tenth of the
implementation's lines. The rest is for the greater part the text processing, views, transports and
prompts named above, which have little state that two actors share.

## What is left

- The OpenClaw scan and the critic's three writes as extensions of
  `ReflectQueue`; the module spool once its writer's file semantics are stated.
- Links and the remote in `Review`: a second copy of each artifact that lags behind
  the default branch.
- The native lesson panel as a second client in `LessonSession`. Read, but not
  checked, are the places where state is tested before an await and used after
  it: an accepted read is followed by an await of the clock before the detail is
  drawn (`lessons.ts:774`), the project is tested for absence before the working
  directory is asked for (`lessons.ts:642`), and a proof of a purge that a change
  of context drops leaves `purgeCheck` pending (`lessons.ts:1577`).
