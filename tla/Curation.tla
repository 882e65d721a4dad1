----------------------------- MODULE Curation -----------------------------
(***************************************************************************)
(* The lesson curation store (packages/store/src/curation/mutations.ts):   *)
(* one SQLite transaction per request, under BEGIN IMMEDIATE, so one       *)
(* writes at a time and what it reads of the tables is what it commits to. *)
(* Any client may send any request at any time and more than once, under a *)
(* fresh or a used request id.  A request that is refused, replayed or     *)
(* rolled back leaves the tables as they were; a COMMIT whose outcome is   *)
(* not known is a step or none.                                            *)
(*                                                                         *)
(* The legacy source of an inbox lesson, a file, and the project scope the *)
(* configuration and Git give it, change outside the store, at any time.   *)
(* A transaction that needs them reads each once, and commits later: such  *)
(* a request is several steps, any other is one.                           *)
(***************************************************************************)
EXTENDS Naturals, FiniteSets

CONSTANTS
  Captures,    \* keys of captured lessons
  Inbox,       \* keys of lessons of the legacy inbox
  Scopes,      \* scopes a lesson can belong to
  Texts,       \* lesson texts
  Digests,     \* digests of legacy sources
  RequestIds,  \* ids of requests
  None,        \* no record, request, text, source or digest
  MaxRevision  \* bound: revisions of a record

ASSUME CurationAssumption ==
  /\ MaxRevision \in Nat
  /\ Captures \cap Inbox = {}
  /\ None \notin Texts \cup Digests \cup Captures \cup Inbox \cup Nat

Keys == Captures \cup Inbox

Changes ==
  [kind : {"capture", "edit"}, value : Texts]
    \cup [kind : {"important"}, value : BOOLEAN]
    \cup [kind : {"acknowledge-source"}, value : Digests]
    \cup [kind : {"purge"}, value : {None}]

\* A request that passed parseCurationMutation and the checks before BEGIN.
Calls == {c \in [id : RequestIds, key : Keys, scope : Scopes,
                 expected : 0 .. MaxRevision, change : Changes] :
            /\ c.change.kind = "capture" => c.key \in Captures
            /\ c.change.kind = "acknowledge-source" => c.key \in Inbox}

VARIABLES
  records,    \* table records: None or the row of each key
  revisions,  \* table revisions: the numbers of the rows of each key
  requests,   \* table requests: None or the row of each request id
  source,     \* digest of each inbox lesson's file; None: absent or unusable
  place,      \* the scope each inbox lesson's source maps to
  tx,         \* the open transaction that needs a source: its lesson, and the
              \* digest and the scope it has read; None: none is open
  sighted     \* history: digests and scopes of that source since its BEGIN

vars == <<records, revisions, requests, source, place, tx, sighted>>
outside == <<source, place>>
tables == <<records, revisions, requests>>

Unseen == [digests |-> {}, scopes |-> {}]

Init ==
  /\ records = [k \in Keys |-> None]
  /\ revisions = [k \in Keys |-> {}]
  /\ requests = [r \in RequestIds |-> None]
  /\ source \in [Inbox -> Digests \cup {None}]
  /\ place \in [Inbox -> Scopes]
  /\ tx = None
  /\ sighted = Unseen

Revision(k) == IF records[k] = None THEN 0 ELSE records[k].revision
RequestsOf(k) == {r \in RequestIds : requests[r] # None /\ requests[r].key = k}

\* Fault: a request id used for another lesson is a new request.
FreshForKey(c) == requests[c.id] # None => requests[c.id].key # c.key
Fresh(c) == requests[c.id] = None

\* Fault: a lesson without a row takes any scope.
InScopeOfRow(c) == records[c.key] # None => records[c.key].scope = c.scope
\* The record and the earlier requests have the scope of the request.
InScope(c) ==
  IF records[c.key] # None THEN records[c.key].scope = c.scope
  ELSE \A r \in RequestsOf(c.key) : requests[r].scope = c.scope

Purged(k) == records[k] # None /\ records[k].purged
Current(c) == c.expected = Revision(c.key)

\* A first annotation of an inbox lesson and an acknowledgement read the source.
NeedsSource(c) ==
  \/ c.key \in Inbox /\ records[c.key] = None
  \/ c.change.kind = "acknowledge-source"

\* Fault: the acknowledged digest is not compared with the source.
SourcedByRequest(c) ==
  IF NeedsSource(c)
    THEN /\ tx # None /\ tx.key = c.key /\ tx.digest # None
         /\ records[c.key] = None => tx.scope = c.scope
    ELSE tx = None /\ records[c.key] # None
\* A first annotation has a source, of the request's scope; the digest that is
\* acknowledged is the one read.  Without a source to read, a row must be there.
Sourced(c) ==
  IF NeedsSource(c)
    THEN /\ tx # None /\ tx.key = c.key /\ tx.digest # None
         /\ records[c.key] = None => tx.scope = c.scope
         /\ c.change.kind = "acknowledge-source" => tx.digest = c.change.value
    ELSE tx = None /\ records[c.key] # None

\* A request that reaches the change it asks for.
Admitted(c) ==
  /\ Fresh(c) /\ InScope(c) /\ ~Purged(c.key)
  /\ Sourced(c) /\ Current(c)

Receipt(c, rev, changed) ==
  [key |-> c.key, scope |-> c.scope, state |-> "committed", hash |-> c.change.value,
   revision |-> rev, changed |-> changed]
PurgedReceipt(k, s) ==
  [key |-> k, scope |-> s, state |-> "purged", hash |-> None,
   revision |-> None, changed |-> None]

\* The transaction is over.
Close == tx' = None /\ sighted' = Unseen

\* Fault: the receipt names the revision the request expected.
CommitBehind(c, row, changed) ==
  /\ records' = [records EXCEPT ![c.key] = row]
  /\ revisions' = [revisions EXCEPT ![c.key] = @ \cup IF changed THEN {row.revision} ELSE {}]
  /\ requests' = [requests EXCEPT ![c.id] = Receipt(c, c.expected, changed)]
  /\ Close /\ UNCHANGED outside

Commit(c, row, changed) ==
  /\ records' = [records EXCEPT ![c.key] = row]
  /\ revisions' = [revisions EXCEPT ![c.key] = @ \cup IF changed THEN {row.revision} ELSE {}]
  /\ requests' = [requests EXCEPT ![c.id] = Receipt(c, row.revision, changed)]
  /\ Close /\ UNCHANGED outside

NewRow(c, rev, important, text, baseline) ==
  [scope |-> c.scope, revision |-> rev, important |-> important, text |-> text,
   baseline |-> baseline, purged |-> FALSE]

Capture(c) ==
  /\ c.change.kind = "capture"
  /\ Fresh(c) /\ InScope(c)
  /\ records[c.key] = None /\ tx = None
  /\ c.expected = 0
  /\ Commit(c, NewRow(c, 1, FALSE, c.change.value, None), TRUE)

\* Desired state, not a toggle.  Without a row a lesson is not important.
Already(c) ==
  LET row == records[c.key] IN
  CASE c.change.kind = "edit" -> row # None /\ row.text = c.change.value
    [] c.change.kind = "important" ->
         c.change.value = (row # None /\ row.important)
    [] c.change.kind = "acknowledge-source" -> row # None /\ row.baseline = c.change.value
    [] OTHER -> FALSE

\* Fault: an unannotated lesson that stays unimportant gets a row.
UnchangedWithRow(c) ==
  /\ Admitted(c) /\ Already(c)
  /\ Commit(c, IF records[c.key] # None THEN records[c.key]
               ELSE NewRow(c, 0, FALSE, None, tx.digest), FALSE)

\* A durable receipt, of revision 0 when the lesson has no row.
Unchanged(c) ==
  /\ Admitted(c) /\ Already(c)
  /\ requests' = [requests EXCEPT ![c.id] = Receipt(c, Revision(c.key), FALSE)]
  /\ Close /\ UNCHANGED <<records, revisions, outside>>

\* The first annotation keeps the digest of the source it annotates.
Annotate(c) ==
  /\ c.change.kind \notin {"capture", "purge"}
  /\ records[c.key] = None
  /\ Admitted(c) /\ ~Already(c)
  /\ Commit(c, NewRow(c, 1, c.change.kind = "important",
                      IF c.change.kind = "edit" THEN c.change.value ELSE None,
                      tx.digest), TRUE)

Updated(c) ==
  CASE c.change.kind = "edit" -> [records[c.key] EXCEPT !.revision = @ + 1, !.text = c.change.value]
    [] c.change.kind = "important" ->
         [records[c.key] EXCEPT !.revision = @ + 1, !.important = c.change.value]
    [] OTHER -> [records[c.key] EXCEPT !.revision = @ + 1, !.baseline = c.change.value]

Update(c) ==
  /\ c.change.kind \notin {"capture", "purge"}
  /\ records[c.key] # None /\ Revision(c.key) < MaxRevision
  /\ Admitted(c) /\ ~Already(c)
  /\ Commit(c, Updated(c), TRUE)

\* Fault: only the purge's own receipt is withdrawn.
RetireOwn(c) ==
  requests' = [requests EXCEPT ![c.id] = PurgedReceipt(c.key, c.scope)]

\* retireReceipts and the receipt of the purge itself.
Retire(c) ==
  requests' = [r \in RequestIds |->
    IF r = c.id THEN PurgedReceipt(c.key, c.scope)
    ELSE IF r \in RequestsOf(c.key) THEN PurgedReceipt(c.key, requests[r].scope)
    ELSE requests[r]]

Tombstone(c, rev) ==
  [scope |-> c.scope, revision |-> rev, important |-> FALSE, text |-> None,
   baseline |-> None, purged |-> TRUE]

Purge(c) ==
  /\ c.change.kind = "purge"
  /\ Admitted(c) /\ Revision(c.key) < MaxRevision
  /\ records' = [records EXCEPT ![c.key] = Tombstone(c, Revision(c.key) + 1)]
  /\ revisions' = [revisions EXCEPT ![c.key] = {Revision(c.key) + 1}]
  /\ Retire(c)
  /\ Close /\ UNCHANGED outside

\* A tombstone lets nothing but another purge past, and that is all it gets.
PurgeAgain(c) ==
  /\ c.change.kind = "purge"
  /\ Fresh(c) /\ InScope(c) /\ Purged(c.key) /\ tx = None
  /\ requests' = [requests EXCEPT ![c.id] = PurgedReceipt(c.key, c.scope)]
  /\ Close /\ UNCHANGED <<records, revisions, outside>>

Write(c) ==
  Capture(c) \/ Unchanged(c) \/ Annotate(c) \/ Update(c) \/ Purge(c) \/ PurgeAgain(c)

\* BEGIN IMMEDIATE, and the replay, scope and tombstone checks passed.
Begin(k) ==
  /\ tx = None /\ ~Purged(k) /\ \E r \in RequestIds : requests[r] = None
  /\ tx' = [key |-> k, digest |-> None, scope |-> None]
  /\ sighted' = [digests |-> {source[k]}, scopes |-> {place[k]}]
  /\ UNCHANGED <<tables, outside>>

\* resolveSource: one look at an unlocked file.
ReadSource ==
  /\ tx # None /\ tx.digest = None /\ source[tx.key] # None
  /\ tx' = [tx EXCEPT !.digest = source[tx.key]]
  /\ UNCHANGED <<tables, outside, sighted>>

\* validateScope: the configuration and Git are asked for the source's scope.
ReadPlace ==
  /\ tx # None /\ tx.digest # None /\ tx.scope = None
  /\ tx' = [tx EXCEPT !.scope = place[tx.key]]
  /\ UNCHANGED <<tables, outside, sighted>>

\* A check fails, or the process ends before COMMIT.
Rollback == tx # None /\ Close /\ UNCHANGED <<tables, outside>>

Sight(k) ==
  sighted' = IF tx = None \/ tx.key # k THEN sighted
             ELSE [digests |-> sighted.digests \cup {source'[k]},
                   scopes |-> sighted.scopes \cup {place'[k]}]

\* The file is written, moved, archived, spoiled or removed.
SourceChanges(k) ==
  /\ \E d \in Digests \cup {None} : source' = [source EXCEPT ![k] = d]
  /\ place' = place /\ Sight(k)
  /\ UNCHANGED <<tables, tx>>

\* The configuration, a directory or a Git root changes.
SourceMoves(k) ==
  /\ \E s \in Scopes : place' = [place EXCEPT ![k] = s]
  /\ source' = source /\ Sight(k)
  /\ UNCHANGED <<tables, tx>>

Next ==
  \/ \E c \in Calls : Write(c)
  \/ \E k \in Inbox : Begin(k) \/ SourceChanges(k) \/ SourceMoves(k)
  \/ ReadSource \/ ReadPlace \/ Rollback

Spec == Init /\ [][Next]_vars

-----------------------------------------------------------------------------
Row == [scope : Scopes, revision : Nat \ {0}, important : BOOLEAN,
        text : Texts \cup {None}, baseline : Digests \cup {None}, purged : BOOLEAN]
RequestRow ==
  [key : Keys, scope : Scopes, state : {"committed", "purged"},
   hash : Texts \cup BOOLEAN \cup Digests \cup {None}, revision : Nat \cup {None},
   changed : BOOLEAN \cup {None}]

\* What a client is told of a request.
ReceiptView ==
  [key : Keys, state : {"committed", "purged"}, revision : Nat \cup {None},
   changed : BOOLEAN \cup {None}]

Transaction ==
  [key : Inbox, digest : Digests \cup {None}, scope : Scopes \cup {None}]
Sightings == [digests : SUBSET (Digests \cup {None}), scopes : SUBSET Scopes]

ASSUME NoneAssumption ==
  None \notin Row \cup RequestRow \cup ReceiptView \cup BOOLEAN \cup Transaction \cup Scopes

\* The tables hold rows of their schemas: records with a revision of at
\* least 1, requests with or without what a purge withdraws.
TypeOK ==
  /\ records \in [Keys -> Row \cup {None}]
  /\ revisions \in [Keys -> SUBSET Nat]
  /\ requests \in [RequestIds -> RequestRow \cup {None}]
  /\ source \in [Inbox -> Digests \cup {None}]
  /\ place \in [Inbox -> Scopes]
  /\ tx \in Transaction \cup {None}
  /\ sighted \in Sightings

\* A lesson has one scope: its record and every request that ever named it
\* agree, also when the source moved between a first request that changed
\* nothing, and so left no record, and the next one.
OneScope ==
  \A r, q \in RequestIds :
    /\ requests[r] # None /\ records[requests[r].key] # None =>
         records[requests[r].key].scope = requests[r].scope
    /\ requests[r] # None /\ requests[q] # None /\ requests[r].key = requests[q].key =>
         requests[r].scope = requests[q].scope

\* Each revision of a record that stands was made by exactly one request,
\* and no other request claims to have made one: no update is lost and a
\* request sent twice is applied once.
RevisionsAccountedFor ==
  \A k \in Keys : ~Purged(k) =>
    LET makers == {r \in RequestsOf(k) : requests[r].changed} IN
    /\ revisions[k] = 1 .. Revision(k)
    /\ {requests[r].revision : r \in makers} = revisions[k]
    /\ \A r, q \in makers : requests[r].revision = requests[q].revision => r = q
    /\ \A r \in RequestsOf(k) : requests[r].revision \in 0 .. Revision(k)

\* After a purge nothing of the lesson is left in any table: no text, no
\* digest, no payload hash of any of its requests, and one bare revision.
PurgeLeavesNothing ==
  \A k \in Keys : Purged(k) =>
    /\ records[k].text = None /\ records[k].baseline = None /\ ~records[k].important
    /\ revisions[k] = {records[k].revision}
    /\ \A r \in RequestsOf(k) : requests[r] = PurgedReceipt(k, records[k].scope)

\* A record rests on a source that was there: the baseline that a request sets
\* is a digest the file had, and the scope of a first annotation one the source
\* mapped to, while that request's own transaction was open.  What a client
\* read, or named, before that never gets in unseen.
BaselineWasRead ==
  [][\A k \in Inbox : records'[k] # None /\ ~records'[k].purged =>
       \/ records[k] # None /\ records'[k].baseline = records[k].baseline
       \/ /\ records'[k].baseline \in sighted.digests \ {None}
          /\ records[k] = None => records'[k].scope \in sighted.scopes]_vars

ReceiptOf(r) ==
  IF requests[r] = None THEN None
  ELSE [key |-> requests[r].key, state |-> requests[r].state,
        revision |-> requests[r].revision, changed |-> requests[r].changed]

Ledger == INSTANCE CurationLedger WITH
  revision <- [k \in Keys |-> Revision(k)],
  closed <- {k \in Keys : Purged(k)},
  receipt <- [r \in RequestIds |-> ReceiptOf(r)]

\* The tables implement the ledger: a request is decided once and its receipt
\* stays what it was until a purge withdraws it; a purged record stays closed.
DecidedOnce == Ledger!Spec
=============================================================================
