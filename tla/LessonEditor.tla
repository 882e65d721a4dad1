--------------------------- MODULE LessonEditor ---------------------------
(***************************************************************************)
(* The state machine both consoles edit a lesson with, as the functions of *)
(* packages/core/src/lesson-curation-ui.ts: each operator maps an editor   *)
(* state s (and what the host told the client) to the next one.  Module    *)
(* LessonSession runs them in a client, against hosts and their stores.    *)
(*                                                                         *)
(* Abstracted: a scope is part of a key; the provenance of a capture is    *)
(* part of its wording; history, error texts and the list of legacy store  *)
(* hints (nothing adds to it) are left out; there is one store location.   *)
(***************************************************************************)
EXTENDS Naturals, FiniteSets

CONSTANTS
  Keys,           \* lessons
  Installs,       \* installations, the identities stores are created with
  Requests,       \* request ids
  Texts,          \* wordings that pass textProblems
  MaxUnresolved,  \* MAX_UNRESOLVED
  MaxTombstones,  \* MAX_TOMBSTONES
  Loc,            \* the binding to the store's location
  Blank,          \* the wording of a new capture
  None

-----------------------------------------------------------------------------
(* Targets: which binding, which record; inst is the origin learned later. *)

Target(b, k) == [bind |-> b, inst |-> None, key |-> k]
installationOf(t) == IF t.bind = Loc THEN t.inst ELSE t.bind
sameTarget(a, b) == a.bind = b.bind /\ a.key = b.key

sameRecord(a, b) ==
  /\ a.key = b.key
  /\ installationOf(a) # None
  /\ installationOf(a) = installationOf(b)

\* recordRelation "unknown" for one key: one of the two has no known origin.
Unlinked(a, b) ==
  /\ a.key = b.key
  /\ None \in {installationOf(a), installationOf(b)}

isTombstoned(s, t) == \E x \in s.tombstones : sameRecord(x, t)
isStoreUnresolved(s, t) ==
  \E x \in s.tombstones \cup {u.target : u \in s.unresolved} : Unlinked(x, t)

-----------------------------------------------------------------------------
initialLessonEditor ==
  [generation |-> 0, gate |-> "unverified", needsFreshDetail |-> FALSE,
   expected |-> None, address |-> None, target |-> None, mode |-> None,
   loaded |-> None, base |-> None, draft |-> None, pending |-> None,
   unresolved |-> {}, tombstones |-> {}, tombstonesSaturated |-> FALSE,
   blocked |-> None, phase |-> "idle"]

isLessonEditorDirty(s) == s.base # None /\ s.draft # None /\ s.draft # s.base.text
isLessonEditorStale(s) ==
  s.loaded # None /\ s.base # None /\ s.loaded.revision > s.base.revision

\* projectLessonEditor: a quarantined draft is not shown.
Shown(s) ==
  IF s.gate # "ready" \/ (s.target # None /\ isStoreUnresolved(s, s.target))
  THEN {} ELSE {s.loaded, s.base, s.draft} \ {None}

-----------------------------------------------------------------------------
(* Purges and failing closed *)

addTombstone(s, t) ==
  IF isTombstoned(s, t) THEN s
  ELSE IF Cardinality(s.tombstones) >= MaxTombstones
       THEN [s EXCEPT !.tombstonesSaturated = TRUE]
       ELSE [s EXCEPT !.tombstones = @ \cup {t}]

purge(s, t) ==
  addTombstone([s EXCEPT !.loaded = None, !.base = None, !.draft = None,
                         !.pending = None, !.blocked = None, !.phase = "purged"], t)

Withheld(s) ==
  [s EXCEPT !.gate = IF @ = "mismatch" THEN @ ELSE "unverified",
            !.needsFreshDetail = TRUE, !.loaded = None, !.blocked = None]
failClosed(s) == [Withheld(s) EXCEPT !.phase = "error"]

quarantine(s) ==
  [s EXCEPT !.gate = "mismatch", !.needsFreshDetail = TRUE, !.loaded = None,
            !.blocked = None, !.generation = IF s.gate = "mismatch" THEN @ ELSE @ + 1]

-----------------------------------------------------------------------------
(* The store the host reports: obs is None or names the installation now   *)
(* at the location, itself None before a store is created there.           *)

Addressed(s, obs) ==
  \/ Loc \in {s.target.bind, s.address}
  \/ installationOf(s.target) # None /\ installationOf(s.target) = obs.inst

authorityMatches(s, obs) ==
  obs # None /\ s.target # None /\ Addressed(s, obs) /\ obs.inst = s.expected

Expected(s) == IF s.expected # None THEN s.expected ELSE installationOf(s.target)

\* A bootstrap request whose store is not proven, or a record without origin.
OriginUnproven(s, obs) ==
  \/ s.pending # None /\ installationOf(s.pending.target) = None /\ obs.inst # None
  \/ Expected(s) = None /\ s.mode = "existing" /\ s.base # None

Verified(s, obs) ==
  LET target == IF obs.inst = None \/ s.target.bind # Loc
                THEN s.target ELSE [s.target EXCEPT !.inst = obs.inst]
      gate   == IF s.gate \notin {"unverified", "mismatch"} THEN s.gate
                ELSE IF s.mode = "capture" /\ s.pending = None /\ ~s.needsFreshDetail
                     THEN "ready" ELSE "reading"
      next   == [s EXCEPT !.target = target, !.gate = gate,
                   !.expected = IF Expected(s) # None THEN Expected(s) ELSE obs.inst,
                   !.generation = IF s.gate = "mismatch" THEN @ + 1 ELSE @]
  IN IF isTombstoned(next, target) THEN purge(next, target) ELSE next

\* Mutant: the editor follows whatever store is at the location.
observeStoreFollowing(s, obs) ==
  IF obs = None THEN s
  ELSE IF s.target = None \/ s.phase = "purged" THEN s
  ELSE IF ~Addressed(s, obs) THEN s
  ELSE Verified([s EXCEPT !.expected = obs.inst], obs)

observeStore(s, obs) ==
  IF obs = None THEN s
  ELSE IF s.target = None \/ s.phase = "purged" THEN s
  ELSE IF ~Addressed(s, obs) THEN s
  ELSE IF Expected(s) # None /\ obs.inst # Expected(s)
       THEN quarantine([s EXCEPT !.expected = Expected(s)])
  ELSE IF OriginUnproven(s, obs) THEN [s EXCEPT !.gate = "unverified", !.loaded = None]
  ELSE Verified(s, obs)

\* The event "disconnect".
Disconnected(s) ==
  [s EXCEPT !.gate = IF @ = "mismatch" THEN @ ELSE "unverified",
            !.needsFreshDetail = s.target # None,
            !.generation = @ + 1, !.loaded = None]

-----------------------------------------------------------------------------
(* Navigation: nav has a type, "capture", "lesson" or "close", and a target *)

Close == [type |-> "close", target |-> None]

\* Mutant: the list of unchecked saves has no bound.
RefusedWhenPurged(s, nav) == nav # Close /\ s.tombstonesSaturated

Refused(s, nav) ==
  \/ nav # Close /\ s.tombstonesSaturated
  \/ s.pending # None /\ Cardinality(s.unresolved) >= MaxUnresolved

Identity(p) == [id |-> p.id, target |-> p.target]

\* Mutant: an abandoned request is dropped with the record.
ClearedOfPending(s) ==
  [initialLessonEditor EXCEPT !.generation = s.generation + 1, !.unresolved = s.unresolved,
     !.tombstones = s.tombstones, !.tombstonesSaturated = s.tombstonesSaturated]

Cleared(s) ==
  [initialLessonEditor EXCEPT !.generation = s.generation + 1,
     !.unresolved = s.unresolved \cup (IF s.pending = None THEN {} ELSE {Identity(s.pending)}),
     !.tombstones = s.tombstones, !.tombstonesSaturated = s.tombstonesSaturated]

Opened(s, nav) ==
  LET t == nav.target
      o == [s EXCEPT !.target = t, !.expected = installationOf(t), !.address = t.bind,
              !.mode = IF nav.type = "capture" THEN "capture" ELSE "existing",
              !.needsFreshDetail = nav.type # "capture"]
  IN IF isTombstoned(o, t) THEN [o EXCEPT !.phase = "purged"]
     ELSE IF isStoreUnresolved(o, t) THEN [o EXCEPT !.phase = "error"]
     ELSE IF nav.type = "lesson" THEN o
     ELSE [o EXCEPT !.base = [revision |-> 0, text |-> Blank], !.draft = Blank]

navigate(s, nav) ==
  IF Refused(s, nav) THEN [s EXCEPT !.blocked = None]
  ELSE IF nav = Close THEN Cleared(s) ELSE Opened(Cleared(s), nav)

requestNavigation(s, nav) ==
  IF isLessonEditorDirty(s) THEN [s EXCEPT !.blocked = nav] ELSE navigate(s, nav)

\* The events: nothing but store observations and outcomes passes a mismatch.
Navigated(s, nav, obs) ==
  IF s.gate = "mismatch" THEN s ELSE observeStore(requestNavigation(s, nav), obs)

discard(s) ==
  IF s.blocked # None THEN navigate(s, s.blocked)
  ELSE IF s.draft = None \/ s.base = None \/ s.phase = "purged" THEN s
  ELSE [s EXCEPT !.draft = s.base.text,
                 !.phase = IF s.pending = None THEN "idle" ELSE @]

Discarded(s, obs) == IF s.gate = "mismatch" THEN s ELSE observeStore(discard(s), obs)

-----------------------------------------------------------------------------
(* Drafting and submitting *)

Writable(s, obs) == s.gate = "ready" /\ authorityMatches(s, obs)

DraftPhase(s) == IF isLessonEditorDirty(s) THEN "editing" ELSE "idle"
settleEditPhase(s) == IF s.pending # None THEN s ELSE [s EXCEPT !.phase = DraftPhase(s)]

editText(s, text) ==
  IF s.draft = None \/ s.phase = "purged" THEN s
  ELSE settleEditPhase([s EXCEPT !.draft = text])

CanRebase(s) == s.mode = "existing" /\ s.pending = None /\ s.draft # None /\ isLessonEditorStale(s)
rebase(s) ==
  LET next == [s EXCEPT !.base = s.loaded] IN [next EXCEPT !.phase = DraftPhase(next)]

\* buildChange: the change an intent asks for; None when the draft is not fit.
buildChange(s, intent) ==
  LET rev == IF s.mode = "capture" THEN 0 ELSE s.base.revision IN
  CASE intent = "save" /\ s.draft \in Texts ->
         [kind |-> IF s.mode = "capture" THEN "capture" ELSE "edit", text |-> s.draft, revision |-> rev]
    [] intent \in {"important", "purge"} /\ s.mode = "existing" ->
         [kind |-> intent, text |-> None, revision |-> rev]
    [] OTHER -> None

CanSubmit(s, id, intent) ==
  /\ s.pending = None /\ s.phase # "purged" /\ s.blocked = None
  /\ s.target # None /\ s.base # None
  /\ ~isTombstoned(s, s.target) /\ ~isStoreUnresolved(s, s.target)
  /\ id \notin {u.id : u \in s.unresolved}
  /\ buildChange(s, intent) # None

submit(s, id, intent) ==
  LET target == IF s.expected = None THEN s.target ELSE Target(s.expected, s.target.key)
  IN [s EXCEPT !.target = target, !.phase = "saving",
        !.pending = [id |-> id, target |-> target, generation |-> s.generation,
                     mutation |-> buildChange(s, intent)]]

\* Mutant: a location-only request is sent again after an unknown outcome.
CanPrepareAgain(s, obs) ==
  /\ s.phase # "purged" /\ s.pending # None
  /\ ~isTombstoned(s, s.target)
  /\ s.pending.mutation # None
  /\ Writable(s, obs)

\* prepareLessonMutation: an attempt may be sent, and on which precondition:
\* the installation it must reach, or None for a location without a store.
CanPrepare(s, obs) ==
  /\ s.phase # "purged" /\ s.pending # None
  /\ ~isTombstoned(s, s.target)
  /\ s.pending.mutation # None
  /\ Writable(s, obs) /\ ~isStoreUnresolved(s, s.pending.target)
  /\ installationOf(s.pending.target) = None =>
       s.expected = None /\ s.phase = "saving" /\ obs.inst = None

beginAttempt(s) ==
  [id |-> s.pending.id, target |-> s.pending.target, generation |-> s.pending.generation,
   pre |-> installationOf(s.pending.target),
   origin |-> IF installationOf(s.pending.target) # None
              THEN installationOf(s.pending.target) ELSE s.expected,
   afterUnknown |-> s.phase = "unknown"]

-----------------------------------------------------------------------------
(* What a read of the record brings: view None when it is not stored       *)

isCurrentRead(s, read) ==
  /\ read.generation = s.generation
  /\ s.target # None /\ s.phase # "purged"
  /\ s.gate \in {"ready", "reading"}
  /\ sameTarget(read.target, s.target)
  /\ ~isTombstoned(s, s.target) /\ ~isStoreUnresolved(s, s.target)

Newer(s, view) ==
  \A x \in {s.loaded, s.base} \ {None} : view.revision >= x.revision

\* Mutant: the editor follows the host over a draft.
loadedOver(s, view) ==
  LET v == [revision |-> view.revision, text |-> view.text] IN
  IF view.purged THEN purge(s, s.target)
  ELSE IF ~Newer(s, v) THEN s
  ELSE [s EXCEPT !.gate = "ready", !.needsFreshDetail = FALSE, !.loaded = v,
                 !.mode = "existing", !.base = v, !.draft = v.text]

loaded(s, view) ==
  IF view.purged THEN purge(s, s.target)
  ELSE LET v == [revision |-> view.revision, text |-> view.text]
           fresh == [s EXCEPT !.gate = "ready", !.needsFreshDetail = FALSE, !.loaded = v]
       IN IF ~Newer(s, v) THEN s
          ELSE IF s.base = None \/ (s.pending = None /\ ~isLessonEditorDirty(s))
               THEN [fresh EXCEPT !.mode = "existing", !.base = v, !.draft = v.text,
                       !.phase = IF @ = "error" /\ s.pending = None THEN "idle" ELSE @]
               ELSE fresh

detailMissing(s) ==
  IF s.mode # "capture" THEN s
  ELSE [s EXCEPT !.gate = "ready", !.needsFreshDetail = FALSE, !.loaded = None]

Answered(s, read, obs) ==
  IF ~(isCurrentRead(s, read) /\ authorityMatches(s, obs)) THEN s
  ELSE IF read.inst # s.expected THEN quarantine(s)
  ELSE IF read.view = None THEN detailMissing(s) ELSE loaded(s, read.view)

-----------------------------------------------------------------------------
(* What became of a request: r is its receipt, inst the store that told it *)

\* Mutant: the committed wording is read off the draft, which may be newer.
applyCommitOfDraft(s, r) ==
  IF s.pending.mutation # None /\ s.pending.mutation.kind = "purge" THEN purge(s, s.pending.target)
  ELSE [s EXCEPT !.mode = "existing", !.pending = None, !.phase = "saved",
          !.base = IF @ = None THEN @ ELSE [revision |-> r.revision, text |-> s.draft]]

\* Mutant: every change is taken to carry wording.
applyCommitOfText(s, r) ==
  IF s.pending.mutation = None THEN [s EXCEPT !.mode = "existing", !.pending = None, !.phase = "saved"]
  ELSE IF s.pending.mutation.kind = "purge" THEN purge(s, s.pending.target)
  ELSE [s EXCEPT !.mode = "existing", !.pending = None, !.phase = "saved",
          !.base = [revision |-> r.revision, text |-> s.pending.mutation.text]]

applyCommit(s, r) ==
  LET p == s.pending
      m == p.mutation
      newer == s.base # None /\ m # None /\ r.revision > s.base.revision
      next == [s EXCEPT !.mode = "existing", !.pending = None,
                 !.base = IF ~newer THEN @
                          ELSE [revision |-> r.revision,
                                text |-> IF m.kind \in {"capture", "edit"} THEN m.text ELSE @.text]]
  IN IF m # None /\ m.kind = "purge" THEN purge(s, p.target)
     ELSE [next EXCEPT !.phase = IF isLessonEditorDirty(next) THEN "editing" ELSE "saved"]

\* Mutant: an abandoned purge does not reach the record shown now.
settleUnresolvedAside(s, u, r) ==
  LET next == [s EXCEPT !.unresolved = @ \ {u}]
  IN IF r.state = "unknown" THEN s
     ELSE IF r.state = "purged" THEN addTombstone(next, u.target) ELSE next

settleUnresolved(s, u, r) ==
  LET next == [s EXCEPT !.unresolved = @ \ {u}]
      live == next.target # None /\ next.phase # "purged"
  IN IF r.state = "unknown" THEN s
     ELSE IF r.state # "purged" THEN next
     ELSE IF live /\ sameRecord(next.target, u.target) THEN purge(next, u.target)
     ELSE IF live /\ Unlinked(next.target, u.target) THEN addTombstone(failClosed(next), u.target)
     ELSE addTombstone(next, u.target)

\* attributeOperation: the answer proves the origin of a request sent without one.
Attributed(t, inst) == IF installationOf(t) = None THEN [t EXCEPT !.inst = inst] ELSE t

attributeOperation(s, id, r, inst) ==
  LET mine == s.pending # None /\ s.pending.id = id
      learns == mine /\ installationOf(s.pending.target) = None /\ s.expected = None
  IN IF inst = None \/ r.state = "unknown" THEN s
     ELSE [s EXCEPT
       !.pending = IF mine THEN [s.pending EXCEPT !.target = Attributed(@, inst)] ELSE @,
       !.unresolved = {IF u.id = id THEN [u EXCEPT !.target = Attributed(@, inst)] ELSE u : u \in @},
       !.expected = IF learns THEN inst ELSE @,
       !.target = IF learns /\ @ # None THEN [s.target EXCEPT !.inst = inst] ELSE @]

ForPending(s, id, generation, target) ==
  s.pending # None /\ s.pending.id = id /\ s.pending.generation = generation
  /\ sameTarget(s.pending.target, target)
ForUnresolved(s, id, target) == {u \in s.unresolved : u.id = id /\ sameTarget(u.target, target)}

\* The origin a receipt must come from.
ReceiptOrigin(s, id, target) ==
  IF s.pending # None /\ s.pending.id = id
  THEN IF installationOf(s.pending.target) # None THEN installationOf(s.pending.target) ELSE s.expected
  ELSE installationOf((CHOOSE u \in ForUnresolved(s, id, target) : TRUE).target)

receipt(s, id, r) ==
  IF s.pending = None \/ s.pending.id # id
  THEN settleUnresolved(s, CHOOSE u \in s.unresolved : u.id = id, r)
  ELSE IF r.state = "unknown" THEN [s EXCEPT !.phase = "unknown"]
  ELSE IF r.state = "purged" THEN purge(s, s.pending.target)
  ELSE applyCommit(s, r)

\* The event "receipt", from a mutation's own answer or from a lookup.
Receipted(s, q, r, inst, obs) ==
  LET pends == ForPending(s, q.id, q.generation, q.target)
      origin == ReceiptOrigin(s, q.id, q.target)
  IN IF obs = None THEN s
     ELSE IF ~pends /\ ForUnresolved(s, q.id, q.target) = {} THEN s
     ELSE IF origin # None /\ origin # inst THEN IF pends THEN quarantine(s) ELSE s
     ELSE receipt(attributeOperation(s, q.id, r, inst), q.id, r)

-----------------------------------------------------------------------------
(* How an attempt ended that named no executing store                      *)

Conflicts == {"CURATION_CONFLICT", "CAPTURE_EXISTS"}
markUnknown(s) == [s EXCEPT !.phase = "unknown"]
Settled(s, phase) == [s EXCEPT !.pending = None, !.phase = phase]

\* Mutant: a refusal settles the request whatever happened to it before.
attemptOutcomeAtOnce(s, a, code) ==
  IF ~ForPending(s, a.id, a.generation, a.target) THEN s
  ELSE IF code = "unknown" THEN markUnknown(s)
  ELSE IF code = "PURGED" THEN purge(s, s.pending.target)
  ELSE Settled(IF code = "INSTALLATION_MISMATCH" THEN quarantine(s) ELSE s, "error")

\* code is "unknown" or the code of a refusal.
attemptOutcome(s, a, code) ==
  IF ~ForPending(s, a.id, a.generation, a.target) THEN s
  ELSE IF code = "unknown" THEN markUnknown(s)
  ELSE IF a.afterUnknown \/ s.phase = "unknown"
       THEN markUnknown(IF code = "INSTALLATION_MISMATCH" /\ a.origin # None THEN quarantine(s) ELSE s)
  ELSE IF code = "INSTALLATION_MISMATCH"
       THEN IF a.origin # None THEN Settled(quarantine(s), "error") ELSE markUnknown(Withheld(s))
  ELSE IF code = "PURGED"
       THEN IF a.origin # None /\ a.pre = a.origin THEN purge(s, s.pending.target) ELSE markUnknown(s)
  ELSE Settled(s, IF s.gate # "mismatch" /\ code \in Conflicts THEN "conflict" ELSE "error")

\* finishSuccess: whatever the receipt did, the request is not left saving.
finishSuccess(s, a, r, inst, obs) ==
  LET agrees == a.pre = None \/ a.pre = inst
      next == Receipted(s, a, r, inst, obs)
  IN IF ~agrees /\ a.origin = None THEN attemptOutcome(s, a, "unknown")
     ELSE IF next.phase = "saving" THEN attemptOutcome(next, a, "unknown") ELSE next

-----------------------------------------------------------------------------
(* The snapshot a tab keeps: ids only, no wording                          *)

\* Mutant: a purged record is kept, too.
KeepsPurged(s) == s.target # None /\ (s.mode = "existing" \/ s.pending # None)

Keeps(s) == /\ s.target # None /\ s.phase # "purged"
            /\ s.mode = "existing" \/ s.pending # None

snapshotLessonEditor(s) ==
  LET kept(x) == IF Keeps(s) THEN x ELSE None IN
  [expected |-> kept(s.expected), address |-> kept(s.address), target |-> kept(s.target),
   mode |-> kept(s.mode),
   pending |-> IF Keeps(s) /\ s.pending # None THEN Identity(s.pending) ELSE None,
   unresolved |-> s.unresolved, tombstones |-> s.tombstones,
   tombstonesSaturated |-> s.tombstonesSaturated]

\* The snapshots hydrate does not reject.
Hydratable(n) ==
  /\ Cardinality(n.unresolved) <= MaxUnresolved
  /\ Cardinality(n.tombstones) <= MaxTombstones
  /\ n.target = None => n.expected = None /\ n.pending = None
  /\ n.target # None =>
       /\ installationOf(n.target) \in {None, n.expected}
       /\ n.mode = "capture" => n.pending # None
       /\ ~isTombstoned(n, n.target)
  /\ n.pending # None =>
       /\ n.pending.id \notin {u.id : u \in n.unresolved}
       /\ sameTarget(n.pending.target, n.target)
       /\ n.expected # None => installationOf(n.pending.target) \in {None, n.expected}

\* Mutant: the request under way is not taken from the snapshot.
hydrateSettled(s, n) ==
  [initialLessonEditor EXCEPT !.generation = s.generation + 1,
     !.unresolved = n.unresolved, !.tombstones = n.tombstones,
     !.tombstonesSaturated = n.tombstonesSaturated,
     !.needsFreshDetail = n.target # None, !.expected = n.expected,
     !.address = n.address, !.target = n.target, !.mode = n.mode]

hydrate(s, n) ==
  [initialLessonEditor EXCEPT !.generation = s.generation + 1,
     !.unresolved = n.unresolved, !.tombstones = n.tombstones,
     !.tombstonesSaturated = n.tombstonesSaturated,
     !.needsFreshDetail = n.target # None, !.expected = n.expected,
     !.address = n.address, !.target = n.target, !.mode = n.mode,
     !.pending = IF n.pending = None THEN None
                 ELSE [id |-> n.pending.id, target |-> n.pending.target,
                       generation |-> s.generation + 1, mutation |-> None],
     !.phase = IF n.pending # None THEN "unknown"
               ELSE IF n.target # None /\ isStoreUnresolved(n, n.target) THEN "error" ELSE "idle"]
=============================================================================
