---------------------------- MODULE SpillImport ----------------------------
(***************************************************************************)
(* One JSONL stream of packages/statedb: how a record a hook writes gets   *)
(* into the loop state (an SQLite database) when the hook cannot use the   *)
(* database itself.  The hook then appends the record to the open spill    *)
(* file, which it seals into a segment when it is full; importers (the     *)
(* worker, the server, the CLI) claim each file by a rename, import it and *)
(* rename it to a backup.  Hooks of the previous release append to the     *)
(* stream's old path, which `sil state export` also writes, and rotate it: *)
(* a new file with the tail they read replaces it by a rename.             *)
(*                                                                         *)
(* A file is named by whatever creates it, a hook's append, an export or a *)
(* rotation, which stands for its device and inode: renames move it, an    *)
(* open descriptor follows it.                                             *)
(* What is left out of a file is the order of its lines.  SQLite's write   *)
(* lock is the only lock; each rename, stat, read and append is a step.    *)
(*                                                                         *)
(* `Windows` names the races the code accepts and the machine may lose:    *)
(*   "backup"   an append whose open came before the claim lands after the *)
(*              last stat of finalize;                                     *)
(*   "unlink"   an append lands in a segment the bound has unlinked;       *)
(*   "clobber"  the previous release creates the old path, or writes to    *)
(*              it, while an export is about to rename its file there;     *)
(*   "stamp"    a hook that has the time for a segment's name stalls before *)
(*              its rename while a segment with a later time is sealed.    *)
(***************************************************************************)
EXTENDS Naturals, Sequences, FiniteSets, FiniteSetsExt, SequencesExt

CONSTANTS
  NewHooks,     \* records, each written by a hook process of this release
  OldHooks,     \* records, each written by a hook of the previous release
  Exports,      \* files that `sil state export --legacy-paths` writes
  Rotations,    \* bound: files with the tails that OldHooks' rotations keep
  Importers,    \* processes that import, export or migrate
  None,         \* no process, no file
  SealAt,       \* SPILL_SEAL_BYTES, in records
  MaxSegments,  \* SPILL_MAX_SEGMENTS
  RotateAt,     \* the previous release's ROTATE_AT_BYTES, in records
  MaxMishaps,   \* bound: deaths of processes, failed appends, busy timeouts
  Windows       \* the races that can be lost

ASSUME SpillAssumption ==
  /\ None \notin NewHooks \cup OldHooks \cup Exports \cup Rotations \cup Importers
  /\ \A R \in SUBSET (NewHooks \cup OldHooks) : R # None
  /\ NewHooks \cap OldHooks = {} /\ Exports \cap (NewHooks \cup OldHooks) = {}
  /\ Rotations \cap (NewHooks \cup OldHooks \cup Exports) = {}
  /\ IsFiniteSet(NewHooks) /\ IsFiniteSet(Rotations)
  /\ {SealAt, MaxSegments, RotateAt} \subseteq Nat \ {0} /\ MaxMishaps \in Nat
  /\ Windows \subseteq {"backup", "unlink", "clobber", "stamp"}

Records == NewHooks \cup OldHooks
Files == Records \cup Exports \cup Rotations

\* The names a file can have: the old path P, its sealed segments in name
\* order, its open spill file `current.jsonl`.
Main == 0
Segments == 1..Cardinality(NewHooks)
Open == Cardinality(NewHooks) + 1
Names == {Main, Open} \cup Segments

VARIABLES
  place,     \* where each file is: its state and its name
  content,   \* the records in each file
  rows,      \* legacy_imports: what the verified row of a file covers, or None
  db,        \* how often each record is in log_records
  sqlite,    \* the process that holds the write lock, or None
  suspended, \* meta.legacy_import_suspended
  stamps,    \* times taken for the names of segments, in order
  sealed,    \* the segments that were sealed so far
  later,     \* the segments sealed after each segment (history)
  kept,      \* what each export or rotation copied into its file (history)
  hook,      \* each hook process
  importer,  \* each importing process
  mishaps    \* counted against MaxMishaps

segments == <<stamps, sealed, later>>
vars == <<place, content, rows, db, sqlite, suspended, stamps, sealed, later, kept, hook,
          importer, mishaps>>

At(state, name) == [at |-> state, name |-> name]
FileState == {"absent", "temp", "live", "claimed", "backup", "unlinked", "rotated"}

HookLabel == {"start", "seal", "stamp", "rename", "read", "replace", "open", "append", "list",
              "unlink", "end"}
IdleHook(label) ==
  [at |-> label, fd |-> None, stamp |-> 0, sealed |-> FALSE, victims |-> {}, tail |-> {}]

ImporterLabel == {"idle", "begin", "claim", "import", "finalize", "stat", "backup",
                  "list", "stage", "rename"}
IdleImporter == [at |-> "idle", todo |-> <<>>, file |-> None, export |-> FALSE]
Target == [name : Names, claimOnly : BOOLEAN]

Place == [at : FileState, name : Names]
HookState == [at : HookLabel, fd : Files \cup {None}, stamp : 0..Cardinality(NewHooks),
              sealed : BOOLEAN, victims : SUBSET Segments, tail : SUBSET Records]
ImporterState == [at : ImporterLabel, todo : Seq(Target), file : Files \cup {None},
                  export : BOOLEAN]

TypeOK ==
  /\ place \in [Files -> Place]
  /\ content \in [Files -> SUBSET Records]
  /\ rows \in [Files -> {None} \cup SUBSET Records]
  /\ db \in [Records -> Nat]
  /\ sqlite \in Importers \cup {None}
  /\ suspended \in BOOLEAN
  /\ stamps \in 0..Cardinality(NewHooks)
  /\ sealed \subseteq Segments
  /\ later \in [Segments -> SUBSET Segments]
  /\ kept \in [Files -> SUBSET Records]
  /\ hook \in [Records -> HookState]
  /\ importer \in [Importers -> ImporterState]
  /\ mishaps \in 0..MaxMishaps

Init ==
  /\ place = [f \in Files |-> At("absent", Main)]
  /\ content = [f \in Files |-> {}]
  /\ rows = [f \in Files |-> None]
  /\ db = [r \in Records |-> 0]
  /\ sqlite = None
  /\ suspended = FALSE
  /\ stamps = 0
  /\ sealed = {}
  /\ later = [n \in Segments |-> {}]
  /\ kept = [f \in Files |-> {}]
  /\ hook = [r \in Records |-> IdleHook("start")]
  /\ importer = [p \in Importers |-> IdleImporter]
  /\ mishaps = 0

\* The files at a path: at most one.
FilesAt(state, name) == {f \in Files : place[f] = At(state, name)}
TheFile(state, name) == CHOOSE f \in FilesAt(state, name) : TRUE
Exists(state, name) == FilesAt(state, name) # {}

\* No process is between open and write of an append to f.
NoWriter(f) == \A h \in Records : hook[h].at = "append" => hook[h].fd # f

-----------------------------------------------------------------------------
(* The hook: hookWriteBatch and spillWrite.                                *)

\* Fault: an error after the commit is taken for one of the transaction.
WriteDbAndSpill(h) ==
  /\ h \in NewHooks /\ hook[h].at = "start" /\ sqlite = None
  /\ db' = [db EXCEPT ![h] = @ + 1]
  /\ hook' = [hook EXCEPT ![h].at = "seal"]
  /\ UNCHANGED <<place, content, rows, sqlite, suspended, segments, kept, importer, mishaps>>

\* One transaction, within the busy timeout.
WriteDb(h) ==
  /\ h \in NewHooks /\ hook[h].at = "start" /\ sqlite = None
  /\ db' = [db EXCEPT ![h] = @ + 1]
  /\ hook' = [hook EXCEPT ![h] = IdleHook("end")]
  /\ UNCHANGED <<place, content, rows, sqlite, suspended, segments, kept, importer, mishaps>>

\* No handle on the database, or any error of the transaction.
Spill(h) ==
  /\ h \in NewHooks /\ hook[h].at = "start"
  /\ hook' = [hook EXCEPT ![h].at = "seal"]
  /\ UNCHANGED <<place, content, rows, db, sqlite, suspended, segments, kept, importer, mishaps>>

\* sealIfFull: the stat.
CheckSeal(h) ==
  /\ hook[h].at = "seal"
  /\ LET full == \E f \in FilesAt("live", Open) : Cardinality(content[f]) >= SealAt IN
       hook' = [hook EXCEPT ![h].at = IF full THEN "stamp" ELSE "open"]
  /\ UNCHANGED <<place, content, rows, db, sqlite, suspended, segments, kept, importer, mishaps>>

\* sealIfFull: the time that names the segment.
Stamp(h) ==
  /\ hook[h].at = "stamp"
  /\ stamps' = stamps + 1
  /\ hook' = [hook EXCEPT ![h].at = "rename", ![h].stamp = stamps + 1]
  /\ UNCHANGED <<place, content, rows, db, sqlite, suspended, sealed, later, kept, importer,
                 mishaps>>

\* sealIfFull: the rename of whatever file has the open name by now, if any.
Seal(h) ==
  LET n == hook[h].stamp IN
  /\ hook[h].at = "rename"
  /\ "stamp" \in Windows \/ \A g \in NewHooks : hook[g].at = "rename" => n <= hook[g].stamp
  /\ IF Exists("live", Open)
       THEN /\ place' = [place EXCEPT ![TheFile("live", Open)] = At("live", n)]
            /\ sealed' = sealed \cup {n}
            /\ later' = [m \in Segments |-> IF m \in sealed THEN later[m] \cup {n} ELSE later[m]]
            /\ hook' = [hook EXCEPT ![h].at = "open", ![h].sealed = TRUE]
       ELSE /\ hook' = [hook EXCEPT ![h].at = "open"]
            /\ UNCHANGED <<place, sealed, later>>
  /\ UNCHANGED <<content, rows, db, sqlite, suspended, stamps, kept, importer, mishaps>>

\* appendFile opens the path for append, creating it if nothing is there.
OpenForAppend(h, name) ==
  /\ place' = IF Exists("live", name) THEN place ELSE [place EXCEPT ![h] = At("live", name)]
  /\ hook' = [hook EXCEPT ![h].at = "append",
                          ![h].fd = IF Exists("live", name) THEN TheFile("live", name) ELSE h]
  /\ UNCHANGED <<content, rows, db, sqlite, suspended, segments, kept, importer, mishaps>>

OpenSpill(h) == h \in NewHooks /\ hook[h].at = "open" /\ OpenForAppend(h, Open)

\* A hook of the previous release stats the old path before its append,
CheckMain(h) ==
  /\ h \in OldHooks /\ hook[h].at = "start"
  /\ LET full == \E f \in FilesAt("live", Main) : Cardinality(content[f]) >= RotateAt IN
       hook' = [hook EXCEPT ![h].at = IF full THEN "read" ELSE "open"]
  /\ UNCHANGED <<place, content, rows, db, sqlite, suspended, segments, kept, importer, mishaps>>

\* and reads the lines it will keep: the newest, and never none of some.
ReadTail(h) ==
  /\ hook[h].at = "read"
  /\ IF Exists("live", Main)
       THEN \E T \in SUBSET content[TheFile("live", Main)] :
              /\ T = {} => content[TheFile("live", Main)] = {}
              /\ hook' = [hook EXCEPT ![h].at = "replace", ![h].tail = T]
       ELSE hook' = [hook EXCEPT ![h].at = "open"]
  /\ UNCHANGED <<place, content, rows, db, sqlite, suspended, segments, kept, importer, mishaps>>

Spare == {f \in Rotations : place[f].at = "absent"}
NoExportDue == \A p \in Importers : importer[p].at # "rename"

\* atomicWrite renames them over whatever has the old path by now, if anything.
Rotate(h) ==
  /\ hook[h].at = "replace"
  /\ "clobber" \in Windows \/ NoExportDue
  /\ hook' = [hook EXCEPT ![h].at = "open", ![h].tail = {}]
  /\ IF Spare = {}
       THEN UNCHANGED <<place, content, kept>>
       ELSE \E f \in Spare :
            /\ place' = [g \in Files |->
                 IF g = f THEN At("live", Main)
                 ELSE IF place[g] = At("live", Main) THEN At("rotated", Main) ELSE place[g]]
            /\ content' = [content EXCEPT ![f] = hook[h].tail]
            /\ kept' = [kept EXCEPT ![f] = hook[h].tail]
  /\ UNCHANGED <<rows, db, sqlite, suspended, segments, importer, mishaps>>

\* Then it appends to the old path.
OpenMain(h) ==
  /\ h \in OldHooks /\ hook[h].at = "open"
  /\ "clobber" \in Windows \/ NoExportDue
  /\ OpenForAppend(h, Main)

\* ... and writes, wherever the file has been moved since.
AppendLine(h) ==
  /\ hook[h].at = "append"
  /\ content' = [content EXCEPT ![hook[h].fd] = @ \cup {h}]
  /\ hook' = [hook EXCEPT ![h].at = IF hook[h].sealed THEN "list" ELSE "end", ![h].fd = None]
  /\ UNCHANGED <<place, rows, db, sqlite, suspended, segments, kept, importer, mishaps>>

\* applyBound: the listing, and all but the newest segments in it to unlink.
SealedSegments == {n \in Segments : Exists("live", n)}

\* Fault: the newest segments go.
NewestVictims ==
  {n \in SealedSegments : Cardinality({m \in SealedSegments : m < n}) >= MaxSegments}

Victims == {n \in SealedSegments : Cardinality({m \in SealedSegments : m > n}) >= MaxSegments}

ListVictims(h) ==
  /\ hook[h].at = "list"
  /\ hook' = [hook EXCEPT ![h].at = "unlink", ![h].victims = Victims]
  /\ UNCHANGED <<place, content, rows, db, sqlite, suspended, segments, kept, importer, mishaps>>

\* applyBound: oldest first; one that an importer has claimed is passed over.
UnlinkVictim(h) ==
  /\ hook[h].at = "unlink"
  /\ IF hook[h].victims = {}
       THEN hook' = [hook EXCEPT ![h].at = "end"] /\ UNCHANGED place
       ELSE LET n == Min(hook[h].victims) IN
            /\ \A f \in FilesAt("live", n) : NoWriter(f) \/ "unlink" \in Windows
            /\ hook' = [hook EXCEPT ![h].victims = @ \ {n}]
            /\ place' = IF Exists("live", n)
                          THEN [place EXCEPT ![TheFile("live", n)] = At("unlinked", n)]
                          ELSE place
  /\ UNCHANGED <<content, rows, db, sqlite, suspended, segments, kept, importer, mishaps>>

HookStep(h) ==
  \/ WriteDb(h) \/ Spill(h) \/ CheckSeal(h) \/ Stamp(h) \/ Seal(h) \/ OpenSpill(h)
  \/ CheckMain(h) \/ ReadTail(h) \/ Rotate(h) \/ OpenMain(h)
  \/ AppendLine(h) \/ ListVictims(h) \/ UnlinkVictim(h)

-----------------------------------------------------------------------------
(* The importer: importPasses, importOne, finalize.                        *)

\* Fault: a claim that a crash left is not pending work.
PendingLive == \E n \in Names : Exists("live", n)

\* isPending: a file to claim, or a claim.
Pending ==
  \/ \E n \in Names : Exists("claimed", n)
  \/ Exists("live", Main) \/ SealedSegments # {}
  \/ \E f \in FilesAt("live", Open) : content[f] # {}

ClaimOnly(name) == [name |-> name, claimOnly |-> TRUE]
ToClaim(name) == [name |-> name, claimOnly |-> FALSE]
Pass(export) == [at |-> "begin", todo |-> <<ClaimOnly(Main)>>, file |-> None, export |-> export]

StartImport(p) ==
  /\ importer[p].at = "idle" /\ Pending
  /\ importer' = [importer EXCEPT ![p] = Pass(FALSE)]
  /\ UNCHANGED <<place, content, rows, db, sqlite, suspended, segments, kept, hook, mishaps>>

\* BEGIN IMMEDIATE; a transaction that outlasts the busy timeout ends the pass.
Begin(p) ==
  /\ sqlite = None /\ importer[p].at \in {"begin", "finalize"}
  /\ sqlite' = p
  /\ importer' = [importer EXCEPT ![p].at = IF @ = "begin" THEN "claim" ELSE "stat"]
  /\ UNCHANGED <<place, content, rows, db, suspended, segments, kept, hook, mishaps>>

Busy(p) ==
  /\ sqlite \notin {None, p} /\ importer[p].at \in {"begin", "finalize", "stage"}
  /\ mishaps < MaxMishaps /\ mishaps' = mishaps + 1
  /\ importer' = [importer EXCEPT ![p] = IdleImporter]
  /\ UNCHANGED <<place, content, rows, db, sqlite, suspended, segments, kept, hook>>

EndPass(p) == IF importer[p].export THEN [IdleImporter EXCEPT !.at = "stage", !.export = TRUE]
              ELSE IdleImporter

\* importOne returns: the spill directory is listed after the leftover claim
\* of the old path, and otherwise the next file of the pass is due.
Advance(p) ==
  LET rest == Tail(importer[p].todo) IN
  IF rest # <<>> THEN [importer[p] EXCEPT !.at = "begin", !.todo = rest, !.file = None]
  ELSE IF importer[p].todo = <<ClaimOnly(Main)>>
    THEN [importer[p] EXCEPT !.at = "list", !.todo = <<>>, !.file = None]
  ELSE EndPass(p)

\* The members of a set of names, smallest first.
Ascending(S) ==
  [i \in 1..Cardinality(S) |-> CHOOSE n \in S : Cardinality({m \in S : m < n}) = i - 1]

ListSpill(p) ==
  /\ importer[p].at = "list"
  /\ LET claims == {n \in Names \ {Main} : Exists("claimed", n)}
         sources == SealedSegments \cup {Open} IN
       importer' = [importer EXCEPT ![p].at = "begin", ![p].todo =
         [i \in 1..Cardinality(claims) |-> ClaimOnly(Ascending(claims)[i])]
         \o [i \in 1..Cardinality(sources) |-> ToClaim(Ascending(sources)[i])]
         \o <<ToClaim(Main)>>]
  /\ UNCHANGED <<place, content, rows, db, sqlite, suspended, segments, kept, hook, mishaps>>

\* importOne up to the claim, under the write lock.
ClaimFile(p) ==
  LET t == Head(importer[p].todo)
      release(next) == importer' = [importer EXCEPT ![p] = next] /\ sqlite' = None
                       /\ UNCHANGED place
      work(f) == importer' = [importer EXCEPT ![p].at = "import", ![p].file = f]
                 /\ UNCHANGED sqlite IN
  /\ importer[p].at = "claim"
  /\ IF suspended THEN release(EndPass(p))
     ELSE IF Exists("claimed", t.name)
       THEN work(TheFile("claimed", t.name)) /\ UNCHANGED place
     ELSE IF t.claimOnly \/ ~Exists("live", t.name) THEN release(Advance(p))
     ELSE /\ work(TheFile("live", t.name))
          /\ place' = [place EXCEPT ![TheFile("live", t.name)] = At("claimed", t.name)]
  /\ UNCHANGED <<content, rows, db, suspended, segments, kept, hook, mishaps>>

\* Fault: the verified row of a claim is not looked up.
NothingCovered(f) == {}

\* Insert the lines a row does not cover yet and let the row cover them.
Covered(f) == IF rows[f] = None THEN {} ELSE rows[f]

ImportLines(f) ==
  /\ db' = [r \in Records |-> IF r \in content[f] \ Covered(f) THEN db[r] + 1 ELSE db[r]]
  /\ rows' = [rows EXCEPT ![f] = content[f]]

\* importClaim reads the claimed file, imports it, or the tail its row lacks,
\* or nothing, and commits.
ImportClaim(p) ==
  /\ importer[p].at = "import"
  /\ ImportLines(importer[p].file)
  /\ sqlite' = None
  /\ importer' = [importer EXCEPT ![p].at = "finalize"]
  /\ UNCHANGED <<place, content, suspended, segments, kept, hook, mishaps>>

\* Fault: no second look at the size of the claim.
NeverGrown(f) == FALSE

\* The size of the claim is not the size its row covers.
Grown(f) == content[f] # rows[f]

\* finalize: someone else has finished the claim, the file grew and its tail
\* is imported first, or it did not grow.
Finalize(p) ==
  LET f == importer[p].file  name == Head(importer[p].todo).name IN
  /\ importer[p].at = "stat"
  /\ IF place[f] # At("claimed", name)
       THEN /\ importer' = [importer EXCEPT ![p] = Advance(p)] /\ sqlite' = None
            /\ UNCHANGED <<rows, db>>
     ELSE IF Grown(f)
       THEN /\ ImportLines(f) /\ sqlite' = None
            /\ importer' = [importer EXCEPT ![p].at = "finalize"]
     ELSE /\ NoWriter(f) \/ "backup" \in Windows
          /\ importer' = [importer EXCEPT ![p].at = "backup"]
          /\ UNCHANGED <<rows, db, sqlite>>
  /\ UNCHANGED <<place, content, suspended, segments, kept, hook, mishaps>>

\* finalize: rename the claim to its backup, whose name is the row's.
Backup(p) ==
  /\ importer[p].at = "backup"
  /\ place' = [place EXCEPT ![importer[p].file].at = "backup"]
  /\ importer' = [importer EXCEPT ![p] = Advance(p)]
  /\ sqlite' = None
  /\ UNCHANGED <<content, rows, db, suspended, segments, kept, hook, mishaps>>

ImporterStep(p) ==
  \/ StartImport(p) \/ Begin(p) \/ Busy(p) \/ ListSpill(p) \/ ClaimFile(p) \/ ImportClaim(p)
  \/ Finalize(p) \/ Backup(p)

-----------------------------------------------------------------------------
(* sil state export --legacy-paths and sil state migrate.                  *)

Unused == {e \in Exports : place[e].at = "absent"}
Stored == {r \in Records : db[r] > 0}

\* The export imports what is pending first.
StartExport(p) ==
  /\ importer[p].at = "idle" /\ Unused # {}
  /\ importer' = [importer EXCEPT ![p] = Pass(TRUE)]
  /\ UNCHANGED <<place, content, rows, db, sqlite, suspended, segments, kept, hook, mishaps>>

\* Fault: `force` replaces any file.
AlwaysReplaceable == TRUE

\* refusalFor: only a file its row covers wholly may be replaced, if `force`.
Replaceable == \A f \in FilesAt("live", Main) : rows[f] = content[f]

\* Fault: the export does not record the files it writes.
RecordNothing(e) == rows

\* The export's own verified row, so that the file is not imported again.
RecordExport(e) == [rows EXCEPT ![e] = Stored]

\* One transaction: the temporary file, its row and the suspension.
StageExport(p) ==
  /\ importer[p].at = "stage" /\ sqlite = None
  /\ \E force \in BOOLEAN :
       LET refused == Exists("live", Main) /\ ~(force /\ Replaceable)
           empty == Stored = {} /\ ~Exists("live", Main) IN
       IF refused \/ empty \/ Unused = {}
         THEN /\ importer' = [importer EXCEPT ![p] = IdleImporter]
              /\ UNCHANGED <<place, content, rows, kept, suspended>>
         ELSE \E e \in Unused :
              /\ \A f \in FilesAt("live", Main) : NoWriter(f) \/ "clobber" \in Windows
              /\ place' = [place EXCEPT ![e] = At("temp", Main)]
              /\ content' = [content EXCEPT ![e] = Stored]
              /\ kept' = [kept EXCEPT ![e] = Stored]
              /\ rows' = RecordExport(e)
              /\ suspended' = TRUE
              /\ importer' = [importer EXCEPT ![p].at = "rename", ![p].file = e]
  /\ UNCHANGED <<db, sqlite, segments, hook, mishaps>>

\* The rename puts the export at the old path, over what is there by now.
PlaceExport(p) ==
  /\ importer[p].at = "rename"
  /\ place' = [f \in Files |->
       IF f = importer[p].file THEN At("live", Main)
       ELSE IF place[f] = At("live", Main) THEN At("unlinked", Main) ELSE place[f]]
  /\ importer' = [importer EXCEPT ![p] = IdleImporter]
  /\ UNCHANGED <<content, rows, db, sqlite, suspended, segments, kept, hook, mishaps>>

\* migrateLegacy: imports resume, and a pass runs.
Migrate(p) ==
  /\ importer[p].at = "idle" /\ suspended /\ sqlite = None
  /\ suspended' = FALSE
  /\ importer' = [importer EXCEPT ![p] = Pass(FALSE)]
  /\ UNCHANGED <<place, content, rows, db, sqlite, segments, kept, hook, mishaps>>

-----------------------------------------------------------------------------
\* A hook dies, or its append fails.
HookDies(h) ==
  /\ mishaps < MaxMishaps /\ hook[h].at # "end"
  /\ mishaps' = mishaps + 1
  /\ hook' = [hook EXCEPT ![h] = IdleHook("end")]
  /\ UNCHANGED <<place, content, rows, db, sqlite, suspended, segments, kept, importer>>

\* An importer dies: its transaction rolls back, its renames stay.
ImporterDies(p) ==
  /\ mishaps < MaxMishaps /\ importer[p].at # "idle"
  /\ mishaps' = mishaps + 1
  /\ importer' = [importer EXCEPT ![p] = IdleImporter]
  /\ sqlite' = IF sqlite = p THEN None ELSE sqlite
  /\ UNCHANGED <<place, content, rows, db, suspended, segments, kept, hook>>

Next ==
  \/ \E h \in Records : HookStep(h) \/ HookDies(h)
  \/ \E p \in Importers : ImporterStep(p) \/ StartExport(p) \/ StageExport(p) \/ PlaceExport(p)
                          \/ Migrate(p) \/ ImporterDies(p)

Spec == Init /\ [][Next]_vars

\* Every started process goes on, and some process opens the loop state again
\* and again (the worker loop, the server's readers).  Busy timeouts are counted
\* mishaps: no transaction outlasts the 2 s timeout for ever.
Fairness ==
  /\ \A h \in Records : WF_vars(HookStep(h))
  /\ \A p \in Importers : WF_vars(ImporterStep(p) \/ StageExport(p) \/ PlaceExport(p))

FairSpec == Spec /\ Fairness
-----------------------------------------------------------------------------
\* A record whose append returned.
Accepted == UNION {content[f] : f \in Files}

\* A file that importers still look for, and one that is gone on purpose.
Due(f) == place[f].at \in {"live", "claimed"}
GivenUp(f) == place[f].at = "rotated" \/ (place[f].at = "unlinked" /\ place[f].name \in Segments)

Dropped == {r \in Accepted \ Stored : /\ \E f \in Files : GivenUp(f) /\ r \in content[f]
                                     /\ \A f \in Files : Due(f) => r \notin content[f]}

Waiting == Accepted \ (Stored \cup Dropped)

\* Every record gets into log_records at most once, whichever importers meet
\* at a claim and wherever they die, and once more at most for each rotation
\* of the previous release that kept its line.
ImportedOnce ==
  \A r \in Records : db[r] <= 1 + Cardinality({t \in Rotations : r \in kept[t]})

\* "Lost lines during the import" (design, non-goals): a record that waits is
\* in a file that importers still look for, past what the file's row covers.
NothingStranded == \A r \in Waiting : \E f \in Files : Due(f) /\ r \in content[f] \ Covered(f)

\* The bound drops a segment only when enough were sealed after it.
OnlyOldDropped ==
  \A n \in Segments : Exists("unlinked", n) => Cardinality(later[n]) >= MaxSegments

\* Each record is stored once or given up once: the whole pipeline is one log,
\* unless the previous release rotates the old path.
Log == INSTANCE OnceLog WITH waiting <- Waiting, stored <- db, dropped <- Dropped
ImplementsOnceLog == Log!Spec

\* A record that waits is imported, or dropped, unless imports stay suspended.
WaitingEnds == \A r \in Records : r \in Waiting ~> (r \notin Waiting \/ suspended)
=============================================================================
