------------------------- MODULE LessonEditorProofs --------------------------
(* What holds of a lesson editor's state, towards itself and towards requests *)
(* and stores, and that every operator of the editor keeps it: the lemmas the *)
(* steps of a session rest on, for any lessons, installations, requests and   *)
(* bounds.                                                                    *)
EXTENDS LessonSession, FiniteSetTheorems, TLAPS

------------------------------------------------------------------------------
(* A lesson editor's state by itself.  What follows is stated of any state s, *)
(* so that it can be followed through the operators an action composes.       *)

\* The installation a request is submitted for: None for a bare location.
Origin(t) == IF t.bind = Loc THEN None ELSE t.bind

\* The lists of unchecked saves and purged records have their bounds.
Bounded(s) ==
  /\ IsFiniteSet(s.unresolved) /\ Cardinality(s.unresolved) <= MaxUnresolved
  /\ IsFiniteSet(s.tombstones) /\ Cardinality(s.tombstones) <= MaxTombstones

\* What is expected is the installation of the target.
Placed(s) ==
  IF s.target = None
  THEN /\ s.expected = None /\ s.pending = None /\ s.mode = None /\ s.phase # "purged"
       /\ s.loaded = None /\ s.base = None /\ s.draft = None
  ELSE s.mode # None /\ s.expected = installationOf(s.target)

\* A request under way is about the record that is open, unlike any other, and
\* was composed on the base there is.
Pending(s) ==
  s.pending # None =>
    /\ s.target = s.pending.target
    /\ s.target.bind = Loc => s.target.inst = None
    /\ s.phase \in {"saving", "unknown"}
    /\ \A u \in s.unresolved : u.id # s.pending.id
    /\ s.pending.mutation # None =>
         s.base # None /\ s.base.revision = s.pending.mutation.revision
    /\ s.pending.mutation = None /\ s.base # None => s.mode = "existing"

\* Only a new capture has revision 0, and only it has no store.
Versioned(s) ==
  /\ s.base # None => (s.base.revision = 0 <=> s.mode = "capture")
  /\ s.target # None /\ s.expected = None =>
       s.loaded = None /\ (s.base # None => s.base.revision = 0)

\* A purged record has nothing left; the open record is purged or not listed.
Closed(s) ==
  /\ s.phase = "purged" =>
       s.loaded = None /\ s.base = None /\ s.draft = None /\ s.pending = None
  /\ s.target # None /\ s.phase # "purged" => ~isTombstoned(s, s.target)

\* An unchecked save is listed once, and under the binding it was sent with.
Listing(s) ==
  /\ \A u, v \in s.unresolved : u.id = v.id => u = v
  /\ \A u \in s.unresolved : u.target.bind = Loc => u.target.inst = None

\* A record captured at a location shares its key with no unchecked save and,
\* while it is not purged, with no purged record.
Apart(s) ==
  s.target # None /\ s.target.bind = Loc =>
    /\ \A u \in s.unresolved : u.target.key # s.target.key
    /\ s.phase # "purged" => \A x \in s.tombstones : x.key # s.target.key

\* A navigation that waits for the person leads to a record of a store, or out.
Waits(s) ==
  s.blocked # None =>
    \/ s.blocked = Close
    \/ /\ s.blocked.type = "lesson" /\ s.blocked.target # None
       /\ s.blocked.target.bind # Loc /\ s.blocked.target.inst = None

Shape(s) ==
  /\ s \in Editors /\ Bounded(s) /\ Placed(s) /\ Pending(s) /\ Versioned(s)
  /\ Closed(s) /\ Listing(s) /\ Apart(s) /\ Waits(s)

------------------------------------------------------------------------------
(* A lesson editor's state and the rest of the session.                       *)

\* Request r was submitted for the target t.
Asks(r, t) == asked[r] # None /\ asked[r].key = t.key /\ asked[r].origin = Origin(t)

\* A key that a store or a request has, or none.
Met(k) ==
  \/ k = None
  \/ \E i \in Installs : record[i][k].log # <<>>
  \/ \E r \in Requests : asked[r] # None /\ asked[r].key = k

\* What is pending and unchecked was submitted.
Anchored(s) ==
  /\ s.pending # None =>
       /\ Asks(s.pending.id, s.pending.target)
       /\ s.pending.mutation \in {None, asked[s.pending.id].change}
  /\ \A u \in s.unresolved : Asks(u.id, u.target)
  /\ \A x \in s.tombstones : Met(x.key)

\* The store of installation i had this wording of k as this revision.
Wording(i, k, v) ==
  v.revision <= Len(record[i][k].log) /\ record[i][k].log[v.revision] = v.text

Stored(s) ==
  /\ s.base # None /\ s.base.revision > 0 => Wording(s.expected, s.target.key, s.base)
  /\ s.loaded # None => s.loaded.revision > 0 /\ Wording(s.expected, s.target.key, s.loaded)

\* A request that was never given up has been sent at most once, and the
\* client still waits for that answer.
Attempted(s) ==
  s.pending # None /\ s.phase = "saving" =>
    \A n \in DOMAIN calls : calls[n].a.id = s.pending.id =>
      /\ IsOpen(n) /\ calls[n].a.generation = s.pending.generation
      /\ \A m \in DOMAIN calls : calls[m].a.id = s.pending.id => m = n

\* The store that a request is about, once that is known.
Home(r, i) == asked[r].origin = i \/ (asked[r].origin = None /\ decided[i][r] # Unused)

\* A request is tracked or settled, never both.
Tracks(s) ==
  \A r \in Requests :
    /\ asked[r] # None /\ told[r] = None => r \in Tracked(s)
    /\ told[r] # None => asked[r] # None /\ r \notin Tracked(s)

\* What the tab was told is purged is listed, unless the list is full, and it
\* is not open, unless as purged.
Buried(s) ==
  \A r \in Requests : told[r] = "purged" =>
    /\ \E i \in Installs :
         /\ Home(r, i)
         /\ \/ s.tombstonesSaturated
            \/ \E x \in s.tombstones : x.key = asked[r].key /\ installationOf(x) = i
    /\ s.target # None /\ s.target.key = asked[r].key /\ s.phase # "purged" =>
         /\ s.target.bind # Loc
         /\ ~Home(r, s.expected)

Sound(s) == Shape(s) /\ Anchored(s) /\ Stored(s) /\ Attempted(s) /\ Tracks(s) /\ Buried(s)

------------------------------------------------------------------------------
(* Changes of an editor that concern no record, request or wording stored.    *)

Gates == {"unverified", "reading", "ready", "mismatch"}
Phases == {"idle", "editing", "saving", "saved", "conflict", "unknown", "purged", "error"}

\* A field is set to a value of its type.
LEMMA Setters ==
  ASSUME NEW s \in Editors
  PROVE
    /\ \A v \in Nat : [s EXCEPT !.generation = v] \in Editors
    /\ \A v \in Gates : [s EXCEPT !.gate = v] \in Editors
    /\ \A v \in BOOLEAN : [s EXCEPT !.needsFreshDetail = v] \in Editors
    /\ \A v \in Known : [s EXCEPT !.expected = v] \in Editors
    /\ \A v \in Known \cup {Loc} : [s EXCEPT !.address = v] \in Editors
    /\ \A v \in Targets \cup {None} : [s EXCEPT !.target = v] \in Editors
    /\ \A v \in {"capture", "existing", None} : [s EXCEPT !.mode = v] \in Editors
    /\ \A v \in Versions \cup {None} : [s EXCEPT !.loaded = v] \in Editors
    /\ \A v \in Versions \cup {None} : [s EXCEPT !.base = v] \in Editors
    /\ \A v \in Texts \cup {Blank, None} : [s EXCEPT !.draft = v] \in Editors
    /\ \A v \in Pendings \cup {None} : [s EXCEPT !.pending = v] \in Editors
    /\ \A v \in SUBSET [id : Requests, target : Targets] : [s EXCEPT !.unresolved = v] \in Editors
    /\ \A v \in SUBSET (Targets \cup {PurgedBefore}) : [s EXCEPT !.tombstones = v] \in Editors
    /\ \A v \in BOOLEAN : [s EXCEPT !.tombstonesSaturated = v] \in Editors
    /\ \A v \in Navigations \cup {None} : [s EXCEPT !.blocked = v] \in Editors
    /\ \A v \in Phases : [s EXCEPT !.phase = v] \in Editors
<1>1. \A v \in Nat : [s EXCEPT !.generation = v] \in Editors
  BY DEF Editors, Gates, Phases
<1>2. \A v \in Gates : [s EXCEPT !.gate = v] \in Editors
  BY DEF Editors, Gates, Phases
<1>3. \A v \in BOOLEAN : [s EXCEPT !.needsFreshDetail = v] \in Editors
  BY Zenon DEF Editors, Gates, Phases
<1>4. \A v \in Known : [s EXCEPT !.expected = v] \in Editors
  BY DEF Editors, Gates, Phases
<1>5. \A v \in Known \cup {Loc} : [s EXCEPT !.address = v] \in Editors
  BY DEF Editors, Gates, Phases
<1>6. \A v \in Targets \cup {None} : [s EXCEPT !.target = v] \in Editors
  BY DEF Editors, Gates, Phases
<1>7. \A v \in {"capture", "existing", None} : [s EXCEPT !.mode = v] \in Editors
  BY DEF Editors, Gates, Phases
<1>8. \A v \in Versions \cup {None} : [s EXCEPT !.loaded = v] \in Editors
  BY DEF Editors, Gates, Phases
<1>9. \A v \in Versions \cup {None} : [s EXCEPT !.base = v] \in Editors
  BY DEF Editors, Gates, Phases
<1>10. \A v \in Texts \cup {Blank, None} : [s EXCEPT !.draft = v] \in Editors
  BY DEF Editors, Gates, Phases
<1>11. \A v \in Pendings \cup {None} : [s EXCEPT !.pending = v] \in Editors
  BY DEF Editors, Gates, Phases
<1>12. \A v \in SUBSET [id : Requests, target : Targets] : [s EXCEPT !.unresolved = v] \in Editors
  BY DEF Editors, Gates, Phases
<1>13. \A v \in SUBSET (Targets \cup {PurgedBefore}) : [s EXCEPT !.tombstones = v] \in Editors
  BY DEF Editors, Gates, Phases
<1>14. \A v \in BOOLEAN : [s EXCEPT !.tombstonesSaturated = v] \in Editors
  BY Zenon DEF Editors, Gates, Phases
<1>15. \A v \in Navigations \cup {None} : [s EXCEPT !.blocked = v] \in Editors
  BY DEF Editors, Gates, Phases
<1>16. \A v \in Phases : [s EXCEPT !.phase = v] \in Editors
  BY DEF Editors, Gates, Phases
<1>17. QED
  BY <1>1, <1>2, <1>3, <1>4, <1>5, <1>6, <1>7, <1>8,
     <1>9, <1>10, <1>11, <1>12, <1>13, <1>14, <1>15, <1>16

Calm(s, t) ==
  /\ t \in Editors
  /\ t.target = s.target /\ t.expected = s.expected /\ t.mode = s.mode
  /\ t.pending = s.pending /\ t.unresolved = s.unresolved
  /\ t.tombstones = s.tombstones /\ t.tombstonesSaturated = s.tombstonesSaturated
  /\ t.base = s.base /\ t.loaded \in {s.loaded, None}
  /\ t.draft = None <=> s.draft = None
  /\ \/ t.phase = s.phase
     \/ /\ s.phase # "purged" /\ t.phase # "purged"
        /\ s.pending = None \/ t.phase = "unknown"
  /\ Waits(t)

\* They keep the shape.
LEMMA CalmShape == ASSUME NEW s, NEW t, Shape(s), Calm(s, t) PROVE Shape(t)
<1>1. t \in Editors /\ Bounded(t) /\ Placed(t) /\ Listing(t) /\ Waits(t)
  BY DEF Calm, Shape, Bounded, Placed, Listing
<1>2. Pending(t) /\ Versioned(t)
  BY DEF Calm, Shape, Pending, Versioned
<1>3. Closed(t) /\ Apart(t)
  BY DEF Calm, Shape, Closed, Apart, isTombstoned
<1>4. QED
  BY <1>1, <1>2, <1>3 DEF Shape

\* They keep all that is known of the editor.
LEMMA CalmSound == ASSUME NEW s, NEW t, Sound(s), Calm(s, t) PROVE Sound(t) /\ Tracked(t) = Tracked(s)
<1>1. Shape(t)
  BY CalmShape DEF Sound
<1>2. Anchored(t)
  BY DEF Sound, Anchored, Calm
<1>3. Stored(t)
  BY DEF Sound, Stored, Calm
<1>4. Attempted(t)
  BY DEF Sound, Attempted, Calm
<1>5. Tracked(t) = Tracked(s)
  BY DEF Calm, Tracked
<1>6. Tracks(t) /\ Buried(t)
  BY <1>5 DEF Sound, Tracks, Buried, Calm
<1>7. QED
  BY <1>1, <1>2, <1>3, <1>4, <1>5, <1>6 DEF Sound

\* Disconnecting, a quarantine and what withholds a record are such changes.
LEMMA CalmOnes ==
  ASSUME NEW s, Shape(s)
  PROVE  /\ Calm(s, s) /\ Calm(s, Disconnected(s)) /\ Calm(s, quarantine(s)) /\ Calm(s, Withheld(s))
         /\ s.pending # None => Calm(s, markUnknown(s))
<1>1. s \in Editors /\ Waits(s)
  BY DEF Shape
<1>2. Calm(s, s)
  BY <1>1 DEF Calm
<1>3. Calm(s, Disconnected(s))
  <2> DEFINE t == Disconnected(s)
  <2>1. t \in Editors
    <3> DEFINE g == IF s.gate = "mismatch" THEN s.gate ELSE "unverified"
               u == [s EXCEPT !.gate = g, !.needsFreshDetail = s.target # None]
    <3>1. g \in Gates /\ s.generation + 1 \in Nat /\ (s.target # None) \in BOOLEAN
      BY <1>1 DEF Editors, Gates
    <3>2. [s EXCEPT !.gate = g] \in Editors
      BY <1>1, <3>1, Setters
    <3>3. u \in Editors
      BY <3>1, <3>2, Setters
    <3>4. [u EXCEPT !.generation = s.generation + 1] \in Editors
      BY <3>1, <3>3, Setters
    <3>5. QED
      BY <3>4, Setters DEF Disconnected
  <2>2. /\ t.target = s.target /\ t.expected = s.expected /\ t.mode = s.mode
        /\ t.pending = s.pending /\ t.unresolved = s.unresolved
        /\ t.tombstones = s.tombstones /\ t.tombstonesSaturated = s.tombstonesSaturated
        /\ t.base = s.base /\ t.loaded = None /\ t.draft = s.draft /\ t.phase = s.phase
        /\ t.blocked = s.blocked
    BY <1>1 DEF Disconnected, Editors
  <2>3. QED
    BY <1>1, <2>1, <2>2 DEF Calm, Waits
<1>4. Calm(s, quarantine(s))
  <2> DEFINE t == quarantine(s)
  <2>1. t \in Editors
    <3> DEFINE n == IF s.gate = "mismatch" THEN s.generation ELSE s.generation + 1
               u == [s EXCEPT !.gate = "mismatch", !.needsFreshDetail = TRUE, !.loaded = None]
    <3>1. n \in Nat
      BY <1>1 DEF Editors
    <3>2. u \in Editors
      BY <1>1 DEF Editors
    <3>3. [u EXCEPT !.blocked = None] \in Editors
      BY <3>2, Setters
    <3>4. QED
      BY <3>1, <3>3, Setters DEF quarantine
  <2>2. /\ t.target = s.target /\ t.expected = s.expected /\ t.mode = s.mode
        /\ t.pending = s.pending /\ t.unresolved = s.unresolved
        /\ t.tombstones = s.tombstones /\ t.tombstonesSaturated = s.tombstonesSaturated
        /\ t.base = s.base /\ t.loaded = None /\ t.draft = s.draft /\ t.phase = s.phase
        /\ t.blocked = None
    BY <1>1 DEF quarantine, Editors
  <2>3. QED
    BY <2>1, <2>2 DEF Calm, Waits
<1>5. Calm(s, Withheld(s))
  <2> DEFINE t == Withheld(s)
  <2>1. t \in Editors
    <3> DEFINE g == IF s.gate = "mismatch" THEN s.gate ELSE "unverified"
    <3>1. g \in Gates
      BY <1>1 DEF Editors, Gates
    <3>2. [s EXCEPT !.gate = g] \in Editors
      BY <1>1, <3>1, Setters
    <3>3. [s EXCEPT !.gate = g, !.needsFreshDetail = TRUE] \in Editors
      BY <3>2, Setters
    <3>4. [s EXCEPT !.gate = g, !.needsFreshDetail = TRUE, !.loaded = None] \in Editors
      BY <3>3, Setters
    <3>5. QED
      BY <3>4, Setters DEF Withheld
  <2>2. /\ t.target = s.target /\ t.expected = s.expected /\ t.mode = s.mode
        /\ t.pending = s.pending /\ t.unresolved = s.unresolved
        /\ t.tombstones = s.tombstones /\ t.tombstonesSaturated = s.tombstonesSaturated
        /\ t.base = s.base /\ t.loaded = None /\ t.draft = s.draft /\ t.phase = s.phase
        /\ t.blocked = None
    BY <1>1 DEF Withheld, Editors
  <2>3. QED
    BY <2>1, <2>2 DEF Calm, Waits
<1>6. s.pending # None => Calm(s, markUnknown(s))
  BY <1>1 DEF Calm, markUnknown, Editors, Waits, Shape, Pending
<1>7. QED
  BY <1>2, <1>3, <1>4, <1>5, <1>6

------------------------------------------------------------------------------
(* What the host reports of the store.                                        *)

\* None stands for nothing that is there.
LEMMA NoneApart ==
  /\ Loc # None /\ Loc \notin Installs /\ None \notin Installs /\ None \notin Keys
  /\ None \notin Targets /\ None \notin Versions /\ None \notin Pendings
  /\ None \notin Mutations /\ None \notin Observations /\ None \notin Navigations
  /\ None \notin Views /\ None \notin Answers /\ None \notin Reads /\ None \notin Lookups
  /\ None \notin Hellos /\ None \notin Routes /\ None \notin Submissions /\ None \notin Blocks
  /\ None \notin Texts /\ None # Blank
  /\ "capture" # None /\ "existing" # None
  /\ "refused" # None /\ "committed" # None /\ "purged" # None
  /\ None \notin [id : Requests, target : Targets]
  /\ MaxUnresolved \in Nat /\ MaxTombstones \in Nat
BY SessionAssumption

\* The installation of a target is an installation, or not known.
LEMMA InstallationOf ==
  ASSUME NEW t \in Targets
  PROVE  /\ installationOf(t) \in Known
         /\ t.bind # Loc => installationOf(t) = t.bind /\ t.bind \in Installs
         /\ t.bind = Loc => installationOf(t) = t.inst
         /\ t.bind \in Installs \cup {Loc} /\ t.inst \in Known /\ t.key \in Keys
         /\ \A i \in Installs : [t EXCEPT !.inst = i] \in Targets
BY NoneApart DEF Targets, installationOf, Known

\* The target of a state that is open is a target.
LEMMA OpenTarget ==
  ASSUME NEW s, Shape(s), s.target # None
  PROVE  /\ s.target \in Targets /\ s.expected = installationOf(s.target)
         /\ Expected(s) = s.expected /\ s.mode \in {"capture", "existing"}
BY DEF Shape, Placed, Editors, Expected

\* The origin of a record captured at a location is learned: nothing of it
\* was stored before, and nothing of its key was told.
Linked(s, t, i) ==
  /\ t \in Editors
  /\ s.target # None /\ s.target.bind = Loc /\ s.target.inst = None
  /\ s.pending = None /\ t.pending = None
  /\ t.target = [s.target EXCEPT !.inst = i] /\ t.expected = i /\ t.mode = s.mode
  /\ t.unresolved = s.unresolved
  /\ t.tombstones = s.tombstones /\ t.tombstonesSaturated = s.tombstonesSaturated
  /\ t.base = s.base /\ t.loaded = s.loaded /\ t.draft = s.draft
  /\ t.phase = s.phase /\ t.blocked = s.blocked

\* It keeps all that is known of the editor.
LEMMA LinkedSound ==
  ASSUME NEW s, NEW t, NEW i \in Installs, Sound(s), Linked(s, t, i)
  PROVE  Sound(t) /\ Tracked(t) = Tracked(s)
<1>0. /\ Shape(s) /\ s \in Editors /\ s.target \in Targets /\ t.target \in Targets
      /\ t.target.bind = Loc /\ t.target.inst = i /\ t.target.key = s.target.key
      /\ i # None /\ s.expected = None
  BY NoneApart, OpenTarget, InstallationOf DEF Sound, Linked, Shape, Targets
<1>1. t \in Editors /\ Bounded(t) /\ Listing(t) /\ Waits(t) /\ Pending(t)
  BY <1>0 DEF Linked, Shape, Bounded, Listing, Waits, Pending
<1>2. Placed(t) /\ Versioned(t) /\ Apart(t)
  <2>1. Placed(t)
    BY <1>0, NoneApart DEF Linked, Shape, Placed, installationOf
  <2>2. Versioned(t)
    BY <1>0 DEF Linked, Shape, Versioned
  <2>3. Apart(t)
    BY <1>0 DEF Linked, Shape, Apart
  <2>4. QED
    BY <2>1, <2>2, <2>3
<1>3. Closed(t)
  BY <1>0 DEF Linked, Shape, Closed, Apart, isTombstoned, sameRecord
<1>4. Anchored(t)
  BY <1>0 DEF Sound, Linked, Anchored
<1>5. Stored(t)
  <2>1. t.loaded = None /\ (t.base # None => t.base.revision = 0)
    BY <1>0 DEF Linked, Shape, Versioned
  <2>2. QED
    BY <2>1 DEF Stored
<1>6. Attempted(t)
  BY DEF Linked, Attempted
<1>7. Tracked(t) = Tracked(s)
  BY DEF Linked, Tracked
<1>8. Tracks(t)
  BY <1>7 DEF Sound, Tracks
<1>9. Buried(t)
  BY <1>0 DEF Sound, Buried, Linked
<1>10. QED
  BY <1>1, <1>2, <1>3, <1>4, <1>5, <1>6, <1>7, <1>8, <1>9 DEF Sound, Shape

\* A store observation that the editor verifies against: it is the expected
\* one, or the first the record has.
LEMMA VerifiedSound ==
  ASSUME NEW s, NEW o \in Observations, Sound(s), s.target # None, s.phase # "purged",
         s.expected = None \/ o.inst = s.expected, ~OriginUnproven(s, o)
  PROVE  Sound(Verified(s, o)) /\ Tracked(Verified(s, o)) = Tracked(s)
<1> DEFINE target == IF o.inst = None \/ s.target.bind # Loc
                     THEN s.target ELSE [s.target EXCEPT !.inst = o.inst]
           gate == IF s.gate \notin {"unverified", "mismatch"} THEN s.gate
                   ELSE IF s.mode = "capture" /\ s.pending = None /\ ~s.needsFreshDetail
                        THEN "ready" ELSE "reading"
           expected == IF Expected(s) # None THEN Expected(s) ELSE o.inst
           generation == IF s.gate = "mismatch" THEN s.generation + 1 ELSE s.generation
           t == [s EXCEPT !.target = target, !.gate = gate, !.expected = expected,
                          !.generation = generation]
<1>0. /\ s \in Editors /\ Shape(s) /\ s.target \in Targets /\ o.inst \in Known
      /\ Expected(s) = s.expected /\ s.expected = installationOf(s.target)
  BY OpenTarget DEF Sound, Shape, Observations
<1>1. target \in Targets /\ gate \in Gates /\ expected \in Known /\ generation \in Nat
  BY <1>0, InstallationOf DEF Editors, Gates, Known
<1>2. t \in Editors
  <2> HIDE DEF target, gate, expected, generation
  <2>1. [s EXCEPT !.target = target] \in Editors
    BY <1>0, <1>1, Setters
  <2>2. [s EXCEPT !.target = target, !.gate = gate] \in Editors
    BY <1>1, <2>1, Setters
  <2>3. [s EXCEPT !.target = target, !.gate = gate, !.expected = expected] \in Editors
    BY <1>1, <2>2, Setters
  <2>4. QED
    BY <1>1, <2>3, Setters
<1>3. /\ t.target = target /\ t.expected = expected /\ t.mode = s.mode
      /\ t.pending = s.pending /\ t.unresolved = s.unresolved
      /\ t.tombstones = s.tombstones /\ t.tombstonesSaturated = s.tombstonesSaturated
      /\ t.base = s.base /\ t.loaded = s.loaded /\ t.draft = s.draft /\ t.phase = s.phase
      /\ t.blocked = s.blocked
  <2> HIDE DEF target, gate, expected, generation
  <2>1. QED
    BY <1>0 DEF Editors
<1> HIDE DEF t, gate, generation
<1>4. Sound(t) /\ Tracked(t) = Tracked(s)
  <2>1. CASE target = s.target /\ expected = s.expected
    <3>1. Calm(s, t)
      BY <1>0, <1>2, <1>3, <2>1 DEF Calm, Waits, Shape
    <3>2. QED
      BY <3>1, CalmSound
  <2>2. CASE ~(target = s.target /\ expected = s.expected)
    <3>1. o.inst # None /\ s.target.bind = Loc
      <4>1. CASE o.inst = None
        BY <1>0, <2>2, <4>1
      <4>2. CASE s.target.bind # Loc
        <5>1. s.expected # None
          BY <1>0, <4>2, InstallationOf, NoneApart
        <5>2. QED
          BY <1>0, <2>2, <4>2, <5>1
      <4>3. QED
        BY <4>1, <4>2
    <3>2. s.expected = None /\ s.target.inst = None
      BY <1>0, <2>2, <3>1, InstallationOf, NoneApart DEF Targets
    <3>3. s.pending = None
      BY <1>0, <3>1, <3>2 DEF OriginUnproven, Shape, Pending, installationOf
    <3>4. Linked(s, t, o.inst)
      <4>1. target = [s.target EXCEPT !.inst = o.inst] /\ expected = o.inst
        BY <1>0, <3>1, <3>2
      <4>2. QED
        BY <1>2, <1>3, <3>1, <3>2, <3>3, <4>1 DEF Linked
    <3>5. QED
      <4>1. o.inst \in Installs
        BY <1>0, <3>1 DEF Known
      <4>2. QED
        BY <3>4, <4>1, LinkedSound
  <2>3. QED
    BY <2>1, <2>2
<1>5. ~isTombstoned(t, target)
  BY <1>1, <1>3, <1>4, NoneApart DEF Sound, Shape, Closed
<1>6. Verified(s, o) = IF isTombstoned(t, target) THEN purge(t, target) ELSE t
  BY DEF Verified, t, gate, generation
<1>7. QED
  BY <1>4, <1>5, <1>6

\* A store observation leaves the editor sound, and its requests tracked.
LEMMA ObserveSound ==
  ASSUME NEW s, NEW o \in Observations \cup {None}, Sound(s)
  PROVE  Sound(observeStore(s, o)) /\ Tracked(observeStore(s, o)) = Tracked(s)
<1>1. CASE o = None \/ s.target = None \/ s.phase = "purged" \/ ~Addressed(s, o)
  BY <1>1 DEF observeStore
<1>2. CASE ~(o = None \/ s.target = None \/ s.phase = "purged" \/ ~Addressed(s, o))
  <2>0. o \in Observations /\ s \in Editors /\ Shape(s) /\ Expected(s) = s.expected
    BY <1>2, OpenTarget DEF Sound, Shape
  <2>1. CASE Expected(s) # None /\ o.inst # Expected(s)
    <3>1. [s EXCEPT !.expected = Expected(s)] = s
      BY <2>0 DEF Editors
    <3>2. observeStore(s, o) = quarantine(s)
      BY <1>2, <2>1, <3>1 DEF observeStore
    <3>3. QED
      BY <2>0, <3>2, CalmOnes, CalmSound
  <2>2. CASE ~(Expected(s) # None /\ o.inst # Expected(s)) /\ OriginUnproven(s, o)
    <3> DEFINE t == [s EXCEPT !.gate = "unverified", !.loaded = None]
    <3>1. t \in Editors
      BY <2>0 DEF Editors
    <3>2. Calm(s, t)
      BY <2>0, <3>1 DEF Calm, Editors, Waits, Shape
    <3>3. observeStore(s, o) = t
      BY <1>2, <2>2 DEF observeStore
    <3>4. QED
      BY <3>2, <3>3, CalmSound
  <2>3. CASE ~(Expected(s) # None /\ o.inst # Expected(s)) /\ ~OriginUnproven(s, o)
    <3>1. observeStore(s, o) = Verified(s, o)
      BY <1>2, <2>3 DEF observeStore
    <3>2. QED
      BY <1>2, <2>0, <2>3, <3>1, VerifiedSound
  <2>4. QED
    BY <2>1, <2>2, <2>3
<1>3. QED
  BY <1>1, <1>2

------------------------------------------------------------------------------
(* Navigation.                                                                *)

\* The editor of a new page has the type of one.
LEMMA InitialTyped == initialLessonEditor \in Editors
BY DEF initialLessonEditor, Editors, Known

\* A request belongs to one store at most.
LEMMA OneHome ==
  ASSUME OneStore, NEW r \in Requests, NEW i \in Installs, NEW j \in Installs, Home(r, i), Home(r, j)
  PROVE  i = j
BY NoneApart DEF OneStore, Home

\* What a request asks about is met.
LEMMA AsksMet == ASSUME NEW r \in Requests, NEW t, Asks(r, t) PROVE Met(t.key)
BY DEF Asks, Met

\* The record that is open is closed, and a request under way is listed.
LEMMA ClearedSound ==
  ASSUME NEW s, Sound(s), s.pending # None => Cardinality(s.unresolved) < MaxUnresolved
  PROVE  /\ Sound(Cleared(s)) /\ Tracked(Cleared(s)) = Tracked(s)
         /\ Cleared(s).target = None /\ Cleared(s).tombstonesSaturated = s.tombstonesSaturated
<1> DEFINE listed == s.unresolved \cup (IF s.pending = None THEN {} ELSE {Identity(s.pending)})
           t == Cleared(s)
<1>0. s \in Editors /\ Shape(s)
  BY DEF Sound, Shape
<1>1. s.pending # None => s.pending \in Pendings
  BY <1>0 DEF Editors
<1>2. listed \in SUBSET [id : Requests, target : Targets]
  BY <1>0, <1>1 DEF Editors, Identity, Pendings
<1>3. t \in Editors
  <2> HIDE DEF listed
  <2>1. s.generation + 1 \in Nat /\ s.tombstones \in SUBSET (Targets \cup {PurgedBefore})
        /\ s.tombstonesSaturated \in BOOLEAN
    BY <1>0 DEF Editors
  <2>2. [initialLessonEditor EXCEPT !.generation = s.generation + 1] \in Editors
    BY <2>1, InitialTyped, Setters
  <2>3. [initialLessonEditor EXCEPT !.generation = s.generation + 1, !.unresolved = listed] \in Editors
    BY <1>2, <2>2, Setters
  <2>4. [initialLessonEditor EXCEPT !.generation = s.generation + 1, !.unresolved = listed,
                                    !.tombstones = s.tombstones] \in Editors
    BY <2>1, <2>3, Setters
  <2>5. QED
    BY <2>1, <2>4, Setters DEF Cleared, listed
<1>4. /\ t.unresolved = listed /\ t.tombstones = s.tombstones
      /\ t.tombstonesSaturated = s.tombstonesSaturated
      /\ t.target = None /\ t.expected = None /\ t.pending = None /\ t.mode = None /\ t.phase = "idle"
      /\ t.loaded = None /\ t.base = None /\ t.draft = None /\ t.blocked = None
  BY DEF Cleared, initialLessonEditor
<1>5. s.pending # None =>
        /\ listed = s.unresolved \cup {Identity(s.pending)}
        /\ Identity(s.pending).id = s.pending.id /\ Identity(s.pending).target = s.pending.target
  BY DEF Identity
<1>6. s.pending = None => listed = s.unresolved
  OBVIOUS
<1> HIDE DEF t, listed
<1>7. Bounded(t)
  <2>1. CASE s.pending = None
    BY <1>0, <1>4, <1>6, <2>1 DEF Shape, Bounded
  <2>2. CASE s.pending # None
    <3>0. IsFiniteSet(s.unresolved) /\ Cardinality(s.unresolved) \in Nat
      BY <1>0, FS_CardinalityType DEF Shape, Bounded
    <3>1. IsFiniteSet(listed) /\ Cardinality(listed) <= Cardinality(s.unresolved) + 1
      <4>1. listed = s.unresolved \cup {Identity(s.pending)}
        BY <1>5, <2>2
      <4>2. /\ IsFiniteSet(s.unresolved \cup {Identity(s.pending)})
            /\ Cardinality(s.unresolved \cup {Identity(s.pending)})
                 \in {Cardinality(s.unresolved), Cardinality(s.unresolved) + 1}
        BY <3>0, FS_AddElement
      <4>3. QED
        BY <3>0, <4>1, <4>2
    <3>2. Cardinality(listed) \in Nat
      BY <3>1, FS_CardinalityType
    <3>3. Cardinality(listed) <= MaxUnresolved
      BY <2>2, <3>0, <3>1, <3>2, NoneApart
    <3>4. QED
      BY <1>0, <1>4, <3>1, <3>3 DEF Shape, Bounded
  <2>3. QED
    BY <2>1, <2>2
<1>8. Placed(t) /\ Pending(t) /\ Versioned(t) /\ Closed(t) /\ Apart(t) /\ Waits(t)
  BY <1>4 DEF Placed, Pending, Versioned, Closed, Apart, Waits
<1>9. Listing(t)
  BY <1>0, <1>4, <1>5, <1>6 DEF Shape, Listing, Pending
<1>10. Anchored(t)
  <2>1. \A u \in listed : Asks(u.id, u.target)
    BY <1>5, <1>6 DEF Sound, Anchored
  <2>2. QED
    BY <1>4, <2>1 DEF Sound, Anchored
<1>11. Stored(t) /\ Attempted(t)
  BY <1>4 DEF Stored, Attempted
<1>12. Tracked(t) = Tracked(s)
  BY <1>4, <1>5, <1>6 DEF Tracked
<1>13. Tracks(t) /\ Buried(t)
  BY <1>4, <1>12 DEF Sound, Tracks, Buried
<1>14. QED
  BY <1>3, <1>4, <1>7, <1>8, <1>9, <1>10, <1>11, <1>12, <1>13 DEF Sound, Shape, t

\* A navigation the session asks for: out, to a record that is listed, or to
\* one that is new.
Leads(nav) ==
  \/ nav = Close
  \/ \E t \in Targets :
       /\ t.inst = None
       /\ \/ nav = [type |-> "lesson", target |-> t] /\ t.bind # Loc
          \/ nav = [type |-> "capture", target |-> t] /\ ~Met(t.key)

\* An empty editor opens a record, or what it knows of its purge.
LEMMA OpenedSound ==
  ASSUME NEW c, Sound(c), OneStore, c.target = None, ~c.tombstonesSaturated,
         NEW nav, Leads(nav), nav # Close
  PROVE  Sound(Opened(c, nav)) /\ Tracked(Opened(c, nav)) = Tracked(c)
<1>1. PICK t \in Targets :
        /\ t.inst = None
        /\ \/ nav = [type |-> "lesson", target |-> t] /\ t.bind # Loc
           \/ nav = [type |-> "capture", target |-> t] /\ ~Met(t.key)
  BY DEF Leads
<1> DEFINE new == nav.type = "capture"
           mode == IF nav.type = "capture" THEN "capture" ELSE "existing"
           fresh == nav.type # "capture"
           o == [c EXCEPT !.target = t, !.expected = installationOf(t), !.address = t.bind,
                          !.mode = mode, !.needsFreshDetail = fresh]
           blank == [revision |-> 0, text |-> Blank]
           next == Opened(c, nav)
<1>2. /\ c \in Editors /\ Shape(c) /\ installationOf(t) \in Known /\ t.bind \in Installs \cup {Loc}
      /\ mode \in {"capture", "existing", None} /\ fresh \in BOOLEAN /\ nav.target = t
  BY <1>1, InstallationOf DEF Sound, Shape
<1>3. o \in Editors
  <2> HIDE DEF mode, fresh
  <2>1. t \in Targets \cup {None} /\ t.bind \in Known \cup {Loc}
    BY <1>2 DEF Known
  <2>2. [c EXCEPT !.target = t] \in Editors
    BY <1>2, <2>1, Setters
  <2>3. [c EXCEPT !.target = t, !.expected = installationOf(t)] \in Editors
    BY <1>2, <2>2, Setters
  <2>4. [c EXCEPT !.target = t, !.expected = installationOf(t), !.address = t.bind] \in Editors
    BY <2>1, <2>3, Setters
  <2>5. [c EXCEPT !.target = t, !.expected = installationOf(t), !.address = t.bind,
                  !.mode = mode] \in Editors
    BY <1>2, <2>4, Setters
  <2>6. QED
    BY <1>2, <2>5, Setters
<1>4. /\ c.pending = None /\ c.loaded = None /\ c.base = None /\ c.draft = None /\ c.phase # "purged"
      /\ Waits(c)
  BY <1>2 DEF Shape, Placed
<1>5. /\ o.target = t /\ o.expected = installationOf(t) /\ o.mode = mode
      /\ o.pending = None /\ o.unresolved = c.unresolved /\ o.tombstones = c.tombstones
      /\ o.tombstonesSaturated = c.tombstonesSaturated
      /\ o.loaded = None /\ o.base = None /\ o.draft = None /\ o.phase = c.phase
      /\ o.blocked = c.blocked
  <2> HIDE DEF mode, fresh
  <2>1. QED
    BY <1>2, <1>4 DEF Editors
<1>6. /\ blank \in Versions /\ blank.revision = 0
  BY DEF Versions
<1>7. next = IF isTombstoned(o, t) THEN [o EXCEPT !.phase = "purged"]
             ELSE IF isStoreUnresolved(o, t) THEN [o EXCEPT !.phase = "error"]
             ELSE IF nav.type = "lesson" THEN o
             ELSE [o EXCEPT !.base = blank, !.draft = Blank]
  BY <1>2 DEF Opened
<1> HIDE DEF o, blank, next
<1>8. /\ next \in Editors
      /\ next.target = t /\ next.expected = installationOf(t) /\ next.mode = mode
      /\ next.pending = None /\ next.unresolved = c.unresolved /\ next.tombstones = c.tombstones
      /\ next.tombstonesSaturated = c.tombstonesSaturated
      /\ next.loaded = None /\ next.blocked = c.blocked
      /\ \/ next.base = None /\ next.draft = None
         \/ next.base = blank /\ next.draft = Blank /\ nav.type # "lesson" /\ next.phase # "purged"
      /\ next.phase = "purged" <=> isTombstoned(o, t)
  <2>1. CASE isTombstoned(o, t)
    <3>1. next = [o EXCEPT !.phase = "purged"] /\ next \in Editors
      BY <1>3, <1>7, <2>1, Setters DEF Phases
    <3>2. QED
      BY <1>3, <1>5, <2>1, <3>1 DEF Editors
  <2>2. CASE ~isTombstoned(o, t) /\ isStoreUnresolved(o, t)
    <3>1. next = [o EXCEPT !.phase = "error"] /\ next \in Editors
      BY <1>3, <1>7, <2>2, Setters DEF Phases
    <3>2. QED
      BY <1>3, <1>5, <2>2, <3>1 DEF Editors
  <2>3. CASE ~isTombstoned(o, t) /\ ~isStoreUnresolved(o, t) /\ nav.type = "lesson"
    BY <1>3, <1>4, <1>5, <1>7, <2>3
  <2>4. CASE ~isTombstoned(o, t) /\ ~isStoreUnresolved(o, t) /\ nav.type # "lesson"
    <3>1. [o EXCEPT !.base = blank] \in Editors
      BY <1>3, <1>6, Setters
    <3>2. next = [o EXCEPT !.base = blank, !.draft = Blank] /\ next \in Editors
      BY <1>7, <2>4, <3>1, Setters
    <3>3. QED
      BY <1>3, <1>4, <1>5, <2>4, <3>2 DEF Editors
  <2>5. QED
    BY <2>1, <2>2, <2>3, <2>4
<1>9. t.bind = Loc => /\ \A u \in c.unresolved : u.target.key # t.key
                      /\ \A x \in c.tombstones : x.key # t.key
  <2>1. SUFFICES ASSUME t.bind = Loc
                 PROVE  /\ \A u \in c.unresolved : u.target.key # t.key
                        /\ \A x \in c.tombstones : x.key # t.key
    OBVIOUS
  <2>2. ~Met(t.key)
    BY <1>1, <2>1
  <2>3. \A u \in c.unresolved : u.id \in Requests /\ Asks(u.id, u.target)
    BY <1>2 DEF Sound, Anchored, Editors
  <2>4. QED
    BY <2>2, <2>3, AsksMet DEF Sound, Anchored
<1>10. Bounded(next) /\ Listing(next) /\ Waits(next)
  BY <1>2, <1>8 DEF Shape, Bounded, Listing, Waits
<1>11. Placed(next) /\ Pending(next)
  BY <1>1, <1>2, <1>8, NoneApart DEF Placed, Pending
<1>12. Versioned(next)
  BY <1>1, <1>6, <1>8, NoneApart DEF Versioned
<1>13. Closed(next) /\ Apart(next)
  BY <1>2, <1>5, <1>8, <1>9 DEF Closed, Apart, isTombstoned
<1>14. Anchored(next)
  BY <1>8 DEF Sound, Anchored
<1>15. Stored(next) /\ Attempted(next)
  BY <1>6, <1>8 DEF Stored, Attempted
<1>16. Tracked(next) = Tracked(c)
  BY <1>4, <1>8 DEF Tracked
<1>17. Tracks(next)
  BY <1>16 DEF Sound, Tracks
<1>18. Buried(next)
  <2>1. SUFFICES ASSUME NEW r \in Requests, told[r] = "purged", t.key = asked[r].key,
                        next.phase # "purged"
                 PROVE  t.bind # Loc /\ ~Home(r, installationOf(t))
    BY <1>8 DEF Sound, Buried
  <2>2. Met(t.key)
    BY <2>1, NoneApart DEF Sound, Tracks, Met
  <2>3. t.bind # Loc
    BY <1>1, <2>2
  <2>4. PICK i \in Installs :
          /\ Home(r, i)
          /\ \E x \in c.tombstones : x.key = asked[r].key /\ installationOf(x) = i
    BY <2>1 DEF Sound, Buried
  <2>5. ~isTombstoned(o, t) /\ installationOf(t) \in Installs
    BY <1>8, <2>1, <2>3, InstallationOf
  <2>6. installationOf(t) # i
    BY <1>5, <2>1, <2>4, <2>5, NoneApart DEF isTombstoned, sameRecord
  <2>7. QED
    BY <2>3, <2>4, <2>5, <2>6, OneHome
<1>19. QED
  BY <1>8, <1>10, <1>11, <1>12, <1>13, <1>14, <1>15, <1>16, <1>17, <1>18 DEF Sound, Shape, next

\* A navigation that is refused forgets only where it led; otherwise it goes.
LEMMA NavigateSound ==
  ASSUME NEW s, Sound(s), OneStore, NEW nav, Leads(nav)
  PROVE  /\ Sound(navigate(s, nav)) /\ Tracked(navigate(s, nav)) = Tracked(s)
<1>0. s \in Editors /\ Shape(s)
  BY DEF Sound, Shape
<1>1. CASE Refused(s, nav)
  <2>1. [s EXCEPT !.blocked = None] \in Editors
    BY <1>0, Setters
  <2>2. Calm(s, [s EXCEPT !.blocked = None])
    BY <1>0, <2>1 DEF Calm, Editors, Waits
  <2>3. QED
    BY <1>1, <2>2, CalmSound DEF navigate
<1>2. CASE ~Refused(s, nav)
  <2>1. s.pending # None => Cardinality(s.unresolved) < MaxUnresolved
    <3>1. IsFiniteSet(s.unresolved)
      BY <1>0 DEF Shape, Bounded
    <3>2. Cardinality(s.unresolved) \in Nat
      BY <3>1, FS_CardinalityType
    <3>3. QED
      BY <1>2, <3>2, NoneApart DEF Refused
  <2>2. /\ Sound(Cleared(s)) /\ Tracked(Cleared(s)) = Tracked(s)
        /\ Cleared(s).target = None /\ Cleared(s).tombstonesSaturated = s.tombstonesSaturated
    BY <2>1, ClearedSound
  <2>3. CASE nav = Close
    BY <1>2, <2>2, <2>3 DEF navigate
  <2>4. CASE nav # Close
    <3>1. ~Cleared(s).tombstonesSaturated
      BY <1>2, <2>2, <2>4 DEF Refused
    <3>2. navigate(s, nav) = Opened(Cleared(s), nav)
      BY <1>2, <2>4 DEF navigate
    <3>3. QED
      BY <2>2, <2>4, <3>1, <3>2, OpenedSound
  <2>5. QED
    BY <2>3, <2>4
<1>3. QED
  BY <1>1, <1>2

\* The same when the person may be asked first; only a new record is not.
LEMMA RequestSound ==
  ASSUME NEW s, Sound(s), OneStore, NEW nav, Leads(nav),
         isLessonEditorDirty(s) => nav.type # "capture"
  PROVE  /\ Sound(requestNavigation(s, nav))
         /\ Tracked(requestNavigation(s, nav)) = Tracked(s)
<1>0. s \in Editors /\ Shape(s)
  BY DEF Sound, Shape
<1>1. CASE isLessonEditorDirty(s)
  <2> DEFINE t == [s EXCEPT !.blocked = nav]
  <2>1. nav \in Navigations /\ (nav # Close => nav.type = "lesson" /\ nav.target # None
                                /\ nav.target.bind # Loc /\ nav.target.inst = None)
    <3>1. CASE nav = Close
      BY <3>1 DEF Close, Navigations
    <3>2. CASE nav # Close
      <4>1. PICK x \in Targets : x.inst = None /\ nav = [type |-> "lesson", target |-> x] /\ x.bind # Loc
        BY <1>1, <3>2 DEF Leads
      <4>2. QED
        BY <4>1, NoneApart DEF Navigations
    <3>3. QED
      BY <3>1, <3>2
  <2>2. t \in Editors
    BY <1>0, <2>1, Setters
  <2>3. Calm(s, t)
    BY <1>0, <2>1, <2>2 DEF Calm, Editors, Waits
  <2>4. QED
    BY <1>1, <2>3, CalmSound DEF requestNavigation
<1>2. CASE ~isLessonEditorDirty(s)
  BY <1>2, NavigateSound DEF requestNavigation
<1>3. QED
  BY <1>1, <1>2

\* The event of a navigation.
LEMMA NavigatedSound ==
  ASSUME NEW s, Sound(s), OneStore, NEW nav, Leads(nav), NEW o \in Observations \cup {None},
         isLessonEditorDirty(s) => nav.type # "capture"
  PROVE  Sound(Navigated(s, nav, o)) /\ Tracked(Navigated(s, nav, o)) = Tracked(s)
BY RequestSound, ObserveSound DEF Navigated

\* The draft is given up, or what waits for it to be.
LEMMA DiscardedSound ==
  ASSUME NEW s, Sound(s), OneStore, NEW o \in Observations \cup {None}
  PROVE  Sound(Discarded(s, o)) /\ Tracked(Discarded(s, o)) = Tracked(s)
<1>0. s \in Editors /\ Shape(s)
  BY DEF Sound, Shape
<1>1. Sound(discard(s)) /\ Tracked(discard(s)) = Tracked(s)
  <2>1. CASE s.blocked # None
    <3>1. Leads(s.blocked)
      <4>1. s.blocked \in Navigations
        BY <1>0, <2>1 DEF Editors
      <4>2. CASE s.blocked = Close
        BY <4>2 DEF Leads
      <4>3. CASE s.blocked # Close
        <5>1. /\ s.blocked.type = "lesson" /\ s.blocked.target \in Targets
              /\ s.blocked.target.bind # Loc /\ s.blocked.target.inst = None
          BY <1>0, <2>1, <4>1, <4>3 DEF Shape, Waits, Navigations
        <5>2. s.blocked = [type |-> "lesson", target |-> s.blocked.target]
          BY <4>1, <5>1 DEF Navigations
        <5>3. QED
          BY <5>1, <5>2 DEF Leads
      <4>4. QED
        BY <4>2, <4>3
    <3>2. QED
      BY <2>1, <3>1, NavigateSound DEF discard
  <2>2. CASE s.blocked = None /\ (s.draft = None \/ s.base = None \/ s.phase = "purged")
    BY <2>2 DEF discard
  <2>3. CASE s.blocked = None /\ ~(s.draft = None \/ s.base = None \/ s.phase = "purged")
    <3> DEFINE phase == IF s.pending = None THEN "idle" ELSE s.phase
               t == [s EXCEPT !.draft = s.base.text, !.phase = phase]
    <3>1. phase \in Phases /\ s.base.text \in Texts \cup {Blank}
      BY <1>0, <2>3 DEF Editors, Phases, Versions
    <3>2. t \in Editors
      <4> HIDE DEF phase
      <4>1. [s EXCEPT !.draft = s.base.text] \in Editors
        BY <1>0, <3>1, Setters
      <4>2. QED
        BY <3>1, <4>1, Setters
    <3>3. /\ t.draft = s.base.text /\ t.phase = phase /\ t.blocked = s.blocked
          /\ t.target = s.target /\ t.expected = s.expected /\ t.mode = s.mode
          /\ t.pending = s.pending /\ t.unresolved = s.unresolved
          /\ t.tombstones = s.tombstones /\ t.tombstonesSaturated = s.tombstonesSaturated
          /\ t.base = s.base /\ t.loaded = s.loaded
      <4> HIDE DEF phase
      <4>1. QED
        BY <1>0 DEF Editors
    <3>4. discard(s) = t
      BY <2>3 DEF discard
    <3> HIDE DEF t
    <3>5. Calm(s, t)
      BY <1>0, <2>3, <3>1, <3>2, <3>3, NoneApart DEF Calm, Waits
    <3>6. QED
      BY <3>4, <3>5, CalmSound
  <2>4. QED
    BY <2>1, <2>2, <2>3
<1>2. QED
  BY <1>1, ObserveSound DEF Discarded
------------------------------------------------------------------------------
(* Drafting, and what a read of the record brings.                            *)

\* What is typed changes nothing else.
LEMMA EditSound ==
  ASSUME NEW s, Sound(s), NEW text \in Texts
  PROVE  Sound(editText(s, text)) /\ Tracked(editText(s, text)) = Tracked(s)
<1>0. s \in Editors /\ Shape(s)
  BY DEF Sound, Shape
<1> DEFINE u == [s EXCEPT !.draft = text]
           phase == DraftPhase(u)
<1>1. CASE s.draft = None \/ s.phase = "purged"
  BY <1>1 DEF editText
<1>2. CASE ~(s.draft = None \/ s.phase = "purged")
  <2>1. u \in Editors /\ phase \in {"editing", "idle"}
    BY <1>0, Setters DEF DraftPhase
  <2>2. /\ u.draft # None /\ u.phase = s.phase /\ u.blocked = s.blocked
        /\ u.target = s.target /\ u.expected = s.expected /\ u.mode = s.mode
        /\ u.pending = s.pending /\ u.unresolved = s.unresolved
        /\ u.tombstones = s.tombstones /\ u.tombstonesSaturated = s.tombstonesSaturated
        /\ u.base = s.base /\ u.loaded = s.loaded
    BY <1>0, NoneApart DEF Editors
  <2> HIDE DEF u, phase
  <2>3. Calm(s, u)
    BY <1>0, <1>2, <2>1, <2>2 DEF Calm, Waits, Shape
  <2>4. CASE s.pending # None
    BY <1>2, <2>2, <2>3, <2>4, CalmSound DEF editText, settleEditPhase, u
  <2>5. CASE s.pending = None
    <3> DEFINE t == [u EXCEPT !.phase = phase]
    <3>1. t \in Editors
      BY <2>1, Setters DEF Phases
    <3>2. Calm(s, t)
      BY <1>0, <1>2, <2>1, <2>2, <2>5, <3>1 DEF Calm, Waits, Shape, Editors
    <3>3. editText(s, text) = t
      BY <1>2, <2>2, <2>5 DEF editText, settleEditPhase, u, phase
    <3>4. QED
      BY <3>2, <3>3, CalmSound
  <2>6. QED
    BY <2>4, <2>5
<1>3. QED
  BY <1>1, <1>2

\* The store has no such record.
LEMMA MissingSound ==
  ASSUME NEW s, Sound(s)
  PROVE  Sound(detailMissing(s)) /\ Tracked(detailMissing(s)) = Tracked(s)
<1>0. s \in Editors /\ Shape(s)
  BY DEF Sound, Shape
<1> DEFINE t == [s EXCEPT !.gate = "ready", !.needsFreshDetail = FALSE, !.loaded = None]
<1>1. CASE s.mode # "capture"
  BY <1>1 DEF detailMissing
<1>2. CASE s.mode = "capture"
  <2>1. t \in Editors
    BY <1>0 DEF Editors
  <2>2. Calm(s, t)
    BY <1>0, <2>1 DEF Calm, Editors, Waits, Shape
  <2>3. QED
    BY <1>2, <2>2, CalmSound DEF detailMissing
<1>3. QED
  BY <1>1, <1>2

\* A stored version is shown, and becomes the base unless there is a draft or a
\* request on another one.
Read(s, t) ==
  /\ t \in Editors
  /\ s.target # None /\ s.expected # None /\ s.phase # "purged"
  /\ t.target = s.target /\ t.expected = s.expected
  /\ t.pending = s.pending /\ t.unresolved = s.unresolved /\ t.blocked = s.blocked
  /\ t.tombstones = s.tombstones /\ t.tombstonesSaturated = s.tombstonesSaturated
  /\ t.loaded # None /\ t.loaded.revision > 0
  /\ Wording(s.expected, s.target.key, t.loaded)
  /\ \/ t.base = s.base /\ t.mode = s.mode
     \/ t.base = t.loaded /\ t.mode = "existing" /\ None \in {s.pending, s.base}
  /\ t.phase = s.phase \/ (s.pending = None /\ t.phase # "purged")

\* It keeps all that is known of the editor.
LEMMA ReadSound ==
  ASSUME NEW s, NEW t, Sound(s), Read(s, t)
  PROVE  Sound(t) /\ Tracked(t) = Tracked(s)
<1>1. t \in Editors /\ Bounded(t) /\ Placed(t) /\ Listing(t) /\ Waits(t)
  BY NoneApart DEF Read, Sound, Shape, Bounded, Placed, Listing, Waits
<1>2. Pending(t)
  BY DEF Read, Sound, Shape, Pending
<1>3. t.loaded.revision # 0
  BY <1>1 DEF Read, Editors, Versions
<1>4. Versioned(t)
  BY <1>3, NoneApart DEF Read, Sound, Shape, Versioned
<1>5. Closed(t) /\ Apart(t)
  BY DEF Read, Sound, Shape, Closed, Apart, isTombstoned
<1>6. Anchored(t)
  BY DEF Read, Sound, Anchored
<1>7. Stored(t)
  BY DEF Read, Sound, Stored
<1>8. Attempted(t)
  BY DEF Read, Sound, Attempted
<1>9. Tracked(t) = Tracked(s)
  BY DEF Read, Tracked
<1>10. Tracks(t)
  BY <1>9 DEF Sound, Tracks
<1>11. Buried(t)
  BY DEF Read, Sound, Buried
<1>12. QED
  BY <1>1, <1>2, <1>4, <1>5, <1>6, <1>7, <1>8, <1>9, <1>10, <1>11 DEF Sound, Shape

\* The draft is based on the version that was read.
LEMMA RebaseSound ==
  ASSUME NEW s, Sound(s), CanRebase(s), s.phase # "purged"
  PROVE  Sound(rebase(s)) /\ Tracked(rebase(s)) = Tracked(s)
<1> DEFINE next == [s EXCEPT !.base = s.loaded]
           phase == DraftPhase(next)
           t == [next EXCEPT !.phase = phase]
<1>0. /\ s \in Editors /\ Shape(s) /\ s.loaded # None /\ s.pending = None /\ s.mode = "existing"
      /\ s.target # None /\ s.expected # None
  BY DEF Sound, Shape, CanRebase, isLessonEditorStale, Placed, Versioned
<1>1. s.loaded \in Versions \cup {None} /\ phase \in {"editing", "idle"}
  BY <1>0 DEF Editors, DraftPhase
<1>2. next \in Editors
  BY <1>0, <1>1, Setters
<1>3. /\ next.target = s.target /\ next.expected = s.expected /\ next.mode = s.mode
      /\ next.pending = s.pending /\ next.unresolved = s.unresolved /\ next.blocked = s.blocked
      /\ next.tombstones = s.tombstones /\ next.tombstonesSaturated = s.tombstonesSaturated
      /\ next.base = s.loaded /\ next.loaded = s.loaded
  BY <1>0 DEF Editors
<1> HIDE DEF next, phase
<1>4. t \in Editors
  BY <1>1, <1>2, Setters DEF Phases
<1>5. /\ t.target = s.target /\ t.expected = s.expected /\ t.mode = s.mode
      /\ t.pending = s.pending /\ t.unresolved = s.unresolved /\ t.blocked = s.blocked
      /\ t.tombstones = s.tombstones /\ t.tombstonesSaturated = s.tombstonesSaturated
      /\ t.base = s.loaded /\ t.loaded = s.loaded /\ t.phase = phase
  BY <1>2, <1>3 DEF Editors
<1>6. rebase(s) = t
  BY DEF rebase, t, next, phase
<1> HIDE DEF t
<1>7. Read(s, t)
  BY <1>0, <1>1, <1>4, <1>5 DEF Read, Sound, Stored
<1>8. QED
  BY <1>6, <1>7, ReadSound

\* A record that is stored and not purged is shown.
LEMMA LoadedSound ==
  ASSUME NEW s, Sound(s), s.target # None, s.expected # None, s.phase # "purged",
         NEW view \in Views, ~view.purged, view.revision > 0,
         Wording(s.expected, s.target.key, view)
  PROVE  Sound(loaded(s, view)) /\ Tracked(loaded(s, view)) = Tracked(s)
<1> DEFINE v == [revision |-> view.revision, text |-> view.text]
           phase == IF s.phase = "error" /\ s.pending = None THEN "idle" ELSE s.phase
           fresh == [s EXCEPT !.gate = "ready", !.needsFreshDetail = FALSE, !.loaded = v]
           t == [fresh EXCEPT !.mode = "existing", !.base = v, !.draft = v.text, !.phase = phase]
           free == s.base = None \/ (s.pending = None /\ ~isLessonEditorDirty(s))
<1>0. s \in Editors /\ Shape(s)
  BY DEF Sound, Shape
<1>1. /\ v \in Versions /\ v # None /\ v.revision > 0 /\ v.text \in Texts
      /\ Wording(s.expected, s.target.key, v) /\ phase \in Phases
  BY <1>0, NoneApart DEF Views, Versions, Wording, Editors, Phases
<1> HIDE DEF v, phase
<1>2. fresh \in Editors
  <2>1. [s EXCEPT !.gate = "ready"] \in Editors
    BY <1>0, Setters DEF Gates
  <2>2. [s EXCEPT !.gate = "ready", !.needsFreshDetail = FALSE] \in Editors
    BY <2>1, Setters
  <2>3. QED
    BY <1>1, <2>2, Setters
<1>3. /\ fresh.target = s.target /\ fresh.expected = s.expected /\ fresh.mode = s.mode
      /\ fresh.pending = s.pending /\ fresh.unresolved = s.unresolved /\ fresh.blocked = s.blocked
      /\ fresh.tombstones = s.tombstones /\ fresh.tombstonesSaturated = s.tombstonesSaturated
      /\ fresh.base = s.base /\ fresh.loaded = v /\ fresh.phase = s.phase
  BY <1>0 DEF Editors
<1>4. Read(s, fresh)
  BY <1>1, <1>2, <1>3 DEF Read
<1> HIDE DEF fresh
<1>5. t \in Editors
  <2>1. [fresh EXCEPT !.mode = "existing"] \in Editors
    BY <1>2, Setters
  <2>2. [fresh EXCEPT !.mode = "existing", !.base = v] \in Editors
    BY <1>1, <2>1, Setters
  <2>3. [fresh EXCEPT !.mode = "existing", !.base = v, !.draft = v.text] \in Editors
    BY <1>1, <2>2, Setters
  <2>4. QED
    BY <1>1, <2>3, Setters
<1>6. /\ t.target = s.target /\ t.expected = s.expected /\ t.mode = "existing"
      /\ t.pending = s.pending /\ t.unresolved = s.unresolved /\ t.blocked = s.blocked
      /\ t.tombstones = s.tombstones /\ t.tombstonesSaturated = s.tombstonesSaturated
      /\ t.base = v /\ t.loaded = v /\ t.phase = phase
  BY <1>2, <1>3 DEF Editors
<1>7. loaded(s, view) = IF ~Newer(s, v) THEN s ELSE IF free THEN t ELSE fresh
  BY <1>3 DEF loaded, v, fresh, phase
<1> HIDE DEF t
<1>8. free => Read(s, t)
  BY <1>1, <1>5, <1>6 DEF Read, phase
<1>9. QED
  BY <1>4, <1>7, <1>8, ReadSound

------------------------------------------------------------------------------
(* What survives a reload.                                                    *)

\* The pane can always read back what it keeps in the tab.
LEMMA SnapshotHydratable ==
  ASSUME NEW s, Shape(s)
  PROVE  Hydratable(snapshotLessonEditor(s))
<1> DEFINE n == snapshotLessonEditor(s)
<1>0. s \in Editors
  BY DEF Shape
<1>1. /\ n.unresolved = s.unresolved /\ n.tombstones = s.tombstones
      /\ n.target = (IF Keeps(s) THEN s.target ELSE None)
      /\ n.expected = (IF Keeps(s) THEN s.expected ELSE None)
      /\ n.mode = (IF Keeps(s) THEN s.mode ELSE None)
      /\ n.pending = (IF Keeps(s) /\ s.pending # None THEN Identity(s.pending) ELSE None)
  BY DEF snapshotLessonEditor
<1> HIDE DEF n
<1>2. Cardinality(n.unresolved) <= MaxUnresolved /\ Cardinality(n.tombstones) <= MaxTombstones
  BY <1>1 DEF Shape, Bounded
<1>3. n.target = None => n.expected = None /\ n.pending = None
  BY <1>1, OpenTarget, NoneApart DEF Keeps
<1>4. n.target # None =>
        /\ installationOf(n.target) \in {None, n.expected}
        /\ n.mode = "capture" => n.pending # None
        /\ ~isTombstoned(n, n.target)
  <2>1. SUFFICES ASSUME n.target # None
                 PROVE  /\ installationOf(n.target) \in {None, n.expected}
                        /\ n.mode = "capture" => n.pending # None
                        /\ ~isTombstoned(n, n.target)
    OBVIOUS
  <2>2. Keeps(s) /\ n.target = s.target /\ n.expected = s.expected /\ n.mode = s.mode
    BY <1>1, <2>1
  <2>3. s.pending # None => Identity(s.pending) # None
    <3>1. s.pending # None => Identity(s.pending) \in [id : Requests, target : Targets]
      BY <1>0 DEF Editors, Identity, Pendings
    <3>2. QED
      BY <3>1, NoneApart
  <2>4. QED
    BY <1>1, <2>1, <2>2, <2>3 DEF Keeps, Shape, Placed, Closed, isTombstoned
<1>5. n.pending # None =>
        /\ n.pending.id \notin {u.id : u \in n.unresolved}
        /\ sameTarget(n.pending.target, n.target)
        /\ n.expected # None => installationOf(n.pending.target) \in {None, n.expected}
  BY <1>1 DEF Shape, Pending, Placed, Keeps, Identity, sameTarget
<1>6. QED
  BY <1>2, <1>3, <1>4, <1>5 DEF Hydratable, n

\* What is read back has lost the wording, and nothing else of what matters.
LEMMA HydratedSound ==
  ASSUME NEW s, Sound(s), NEW f, f.generation \in Nat
  PROVE  LET t == hydrate(f, snapshotLessonEditor(s))
         IN  /\ Sound(t) /\ Tracked(t) = Tracked(s) /\ t.base = None
             /\ t.pending # None => t.phase = "unknown"
<1> DEFINE n == snapshotLessonEditor(s)
           t == hydrate(f, n)
           kept == IF Keeps(s) /\ s.pending # None
                   THEN [id |-> s.pending.id, target |-> s.pending.target,
                         generation |-> f.generation + 1, mutation |-> None]
                   ELSE None
           phase == IF n.pending # None THEN "unknown"
                    ELSE IF n.target # None /\ isStoreUnresolved(n, n.target) THEN "error" ELSE "idle"
           fresh == n.target # None
<1>0. s \in Editors /\ Shape(s)
  BY DEF Sound, Shape
<1>1. /\ n.unresolved = s.unresolved /\ n.tombstones = s.tombstones
      /\ n.tombstonesSaturated = s.tombstonesSaturated
      /\ n.target = (IF Keeps(s) THEN s.target ELSE None)
      /\ n.expected = (IF Keeps(s) THEN s.expected ELSE None)
      /\ n.address = (IF Keeps(s) THEN s.address ELSE None)
      /\ n.mode = (IF Keeps(s) THEN s.mode ELSE None)
      /\ n.pending = (IF Keeps(s) /\ s.pending # None THEN Identity(s.pending) ELSE None)
  BY DEF snapshotLessonEditor
<1>2. s.pending # None => Identity(s.pending) # None
  <2>1. s.pending # None => Identity(s.pending) \in [id : Requests, target : Targets]
    BY <1>0 DEF Editors, Identity, Pendings
  <2>2. QED
    BY <2>1, NoneApart
<1>3. /\ f.generation + 1 \in Nat /\ n.unresolved \in SUBSET [id : Requests, target : Targets]
      /\ n.tombstones \in SUBSET (Targets \cup {PurgedBefore}) /\ n.tombstonesSaturated \in BOOLEAN
      /\ fresh \in BOOLEAN /\ n.expected \in Known /\ n.address \in Known \cup {Loc}
      /\ n.target \in Targets \cup {None} /\ n.mode \in {"capture", "existing", None}
      /\ kept \in Pendings \cup {None} /\ phase \in {"unknown", "error", "idle"}
  <2>1. s.pending # None => s.pending.id \in Requests /\ s.pending.target \in Targets
    BY <1>0 DEF Editors, Pendings
  <2>2. kept \in Pendings \cup {None}
    BY <2>1 DEF Pendings
  <2>3. /\ s.unresolved \in SUBSET [id : Requests, target : Targets]
        /\ s.tombstones \in SUBSET (Targets \cup {PurgedBefore}) /\ s.tombstonesSaturated \in BOOLEAN
        /\ s.expected \in Known /\ s.address \in Known \cup {Loc}
        /\ s.target \in Targets \cup {None} /\ s.mode \in {"capture", "existing", None}
    BY <1>0 DEF Editors
  <2> HIDE DEF n, kept
  <2>4. QED
    BY <1>1, <2>2, <2>3 DEF Known
<1>4. kept = (IF n.pending = None THEN None
              ELSE [id |-> n.pending.id, target |-> n.pending.target,
                    generation |-> f.generation + 1, mutation |-> None])
  BY <1>1, <1>2 DEF Identity
<1>5. (n.pending # None) = (kept # None)
  <2>1. kept # None <=> Keeps(s) /\ s.pending # None
    <3>1. s.pending # None => s.pending.id \in Requests /\ s.pending.target \in Targets
      BY <1>0 DEF Editors, Pendings
    <3>2. Keeps(s) /\ s.pending # None => kept \in Pendings
      BY <1>3, <3>1 DEF Pendings
    <3>3. QED
      BY <3>2, NoneApart
  <2>2. QED
    BY <1>1, <1>2, <2>1
<1> HIDE DEF n, kept, phase, fresh
<1>6. /\ t \in Editors
      /\ t.unresolved = n.unresolved /\ t.tombstones = n.tombstones
      /\ t.tombstonesSaturated = n.tombstonesSaturated /\ t.expected = n.expected
      /\ t.target = n.target /\ t.mode = n.mode /\ t.pending = kept /\ t.phase = phase
      /\ t.loaded = None /\ t.base = None /\ t.draft = None /\ t.blocked = None
  <2> DEFINE a == [initialLessonEditor EXCEPT !.generation = f.generation + 1]
             b == [a EXCEPT !.unresolved = n.unresolved, !.tombstones = n.tombstones]
             c == [b EXCEPT !.tombstonesSaturated = n.tombstonesSaturated,
                            !.needsFreshDetail = fresh]
             d == [c EXCEPT !.expected = n.expected, !.address = n.address]
             e == [d EXCEPT !.target = n.target, !.mode = n.mode]
             g == [e EXCEPT !.pending = kept, !.phase = phase]
  <2>1. t = g
    BY <1>4 DEF hydrate, initialLessonEditor, kept, phase, fresh
  <2>2. /\ g.unresolved = n.unresolved /\ g.tombstones = n.tombstones
        /\ g.tombstonesSaturated = n.tombstonesSaturated /\ g.expected = n.expected
        /\ g.target = n.target /\ g.mode = n.mode /\ g.pending = kept /\ g.phase = phase
        /\ g.loaded = None /\ g.base = None /\ g.draft = None /\ g.blocked = None
    BY DEF initialLessonEditor
  <2>3. a \in Editors
    BY <1>3, InitialTyped, Setters
  <2> HIDE DEF a
  <2>4. [a EXCEPT !.unresolved = n.unresolved] \in Editors
    BY <1>3, <2>3, Setters
  <2>5. b \in Editors
    BY <1>3, <2>4, Setters
  <2> HIDE DEF b
  <2>6. [b EXCEPT !.tombstonesSaturated = n.tombstonesSaturated] \in Editors
    BY <1>3, <2>5, Setters
  <2>7. c \in Editors
    BY <1>3, <2>6, Setters
  <2> HIDE DEF c
  <2>8. [c EXCEPT !.expected = n.expected] \in Editors
    BY <1>3, <2>7, Setters
  <2>9. d \in Editors
    BY <1>3, <2>8, Setters
  <2> HIDE DEF d
  <2>10. [d EXCEPT !.target = n.target] \in Editors
    BY <1>3, <2>9, Setters
  <2>11. e \in Editors
    BY <1>3, <2>10, Setters
  <2> HIDE DEF e
  <2>12. [e EXCEPT !.pending = kept] \in Editors
    BY <1>3, <2>11, Setters
  <2>13. g \in Editors
    BY <1>3, <2>12, Setters DEF Phases
  <2>14. QED
    BY <2>1, <2>2, <2>13
<1> HIDE DEF t
<1>7. kept # None =>
        /\ Keeps(s) /\ s.pending # None /\ phase = "unknown"
        /\ kept.id = s.pending.id /\ kept.target = s.pending.target /\ kept.mutation = None
  BY <1>5 DEF kept, phase
<1>8. phase # "purged" /\ phase # "saving"
  BY <1>3
<1>9. ~Keeps(s) => s.pending = None
  BY <1>0 DEF Keeps, Shape, Closed, Placed
<1>10. Bounded(t) /\ Listing(t) /\ Waits(t) /\ Versioned(t)
  BY <1>0, <1>1, <1>6 DEF Shape, Bounded, Listing, Waits, Versioned
<1>11. Placed(t)
  BY <1>0, <1>1, <1>6, <1>7, <1>8, OpenTarget DEF Placed, Keeps, Shape
<1>12. Pending(t)
  BY <1>0, <1>1, <1>6, <1>7 DEF Shape, Pending
<1>13. Closed(t) /\ Apart(t)
  BY <1>0, <1>1, <1>6, <1>8 DEF Shape, Closed, Apart, isTombstoned, Keeps
<1>14. Anchored(t)
  BY <1>1, <1>6, <1>7 DEF Sound, Anchored
<1>15. Stored(t) /\ Attempted(t)
  BY <1>6, <1>8 DEF Stored, Attempted
<1>16. Tracked(t) = Tracked(s)
  <2>1. kept = None => s.pending = None
    BY <1>1, <1>2, <1>5, <1>9
  <2>2. QED
    BY <1>1, <1>6, <1>7, <2>1 DEF Tracked
<1>17. Tracks(t)
  BY <1>16 DEF Sound, Tracks
<1>18. Buried(t)
  BY <1>0, <1>1, <1>6 DEF Sound, Buried, Keeps
<1>19. QED
  BY <1>6, <1>7, <1>10, <1>11, <1>12, <1>13, <1>14, <1>15, <1>16, <1>17, <1>18
     DEF Sound, Shape, t, n

\* The record is set aside; with a mismatch, by a controller that starts over.
LEMMA ClosedBySound ==
  ASSUME Sound(ed), OneStore, obs \in Observations \cup {None}, NEW d \in BOOLEAN
  PROVE  Sound(ClosedBy(d)) /\ Tracked(ClosedBy(d)) = Tracked(ed)
<1> DEFINE snapshot == snapshotLessonEditor(ed)
           candidate == hydrate(Disconnected(initialLessonEditor), snapshot)
           closing == Navigated(ed, Close, obs)
<1>1. Leads(Close) /\ Close.type # "capture"
  BY DEF Leads, Close
<1>2. Sound(requestNavigation(candidate, Close)) /\ Tracked(requestNavigation(candidate, Close)) = Tracked(ed)
  <2>1. Disconnected(initialLessonEditor).generation \in Nat
    BY DEF Disconnected, initialLessonEditor
  <2>2. Sound(candidate) /\ Tracked(candidate) = Tracked(ed)
    BY <2>1, HydratedSound
  <2> HIDE DEF candidate
  <2>3. QED
    BY <1>1, <2>2, RequestSound
<1>3. Sound(closing) /\ Tracked(closing) = Tracked(ed)
  BY <1>1, NavigatedSound
<1> HIDE DEF candidate, closing
<1>4. Sound(Discarded(closing, obs)) /\ Tracked(Discarded(closing, obs)) = Tracked(ed)
  BY <1>3, DiscardedSound
<1>5. QED
  BY <1>2, <1>3, <1>4 DEF ClosedBy, candidate, closing, snapshot

\* A request was submitted for one target.
LEMMA AskedOnce ==
  ASSUME NEW r, NEW t \in Targets, NEW u \in Targets, Asks(r, t), Asks(r, u)
  PROVE  sameTarget(t, u)
BY NoneApart DEF Asks, Origin, sameTarget, Targets

\* What was sent was submitted.
Sending == \A n \in DOMAIN calls : Asks(calls[n].a.id, calls[n].a.target)

\* The types of an attempt.
LEMMA SendsTyped ==
  ASSUME calls \in Seq(Sends), NEW n \in DOMAIN calls
  PROVE  /\ calls[n] \in Sends /\ calls[n].a \in Attempts
         /\ calls[n].a.id \in Requests /\ calls[n].a.target \in Targets
         /\ calls[n].open \in BOOLEAN /\ calls[n].answer \in Answers \cup {None}
<1>1. calls[n] \in Sends
  OBVIOUS
<1>2. QED
  BY <1>1 DEF Sends, Attempts

\* The attempt of a request that is being saved is the one it waits for.
LEMMA AttemptKnown ==
  ASSUME Sound(ed), calls \in Seq(Sends), Sending, NEW n \in DOMAIN calls,
         ed.pending # None, ed.phase = "saving", calls[n].a.id = ed.pending.id
  PROVE  IsOpen(n) /\ ForPending(ed, calls[n].a.id, calls[n].a.generation, calls[n].a.target)
<1>1. IsOpen(n) /\ calls[n].a.generation = ed.pending.generation
  BY DEF Sound, Attempted
<1>2. ed.pending.target \in Targets /\ Asks(ed.pending.id, ed.pending.target)
  BY DEF Sound, Shape, Editors, Pendings, Anchored
<1>3. Asks(ed.pending.id, calls[n].a.target)
  BY DEF Sending
<1>4. sameTarget(ed.pending.target, calls[n].a.target)
  BY <1>2, <1>3, SendsTyped, AskedOnce
<1>5. QED
  BY <1>1, <1>4 DEF ForPending

\* Every open attempt is reported unknown: none is left of a request that is
\* still being saved.
LEMMA ConnectedSound ==
  ASSUME Sound(ed), calls \in Seq(Sends), Sending
  PROVE  /\ Sound(Connected(ed)) /\ Tracked(Connected(ed)) = Tracked(ed)
         /\ Connected(ed).pending # None /\ Connected(ed).phase = "saving" =>
              \A n \in DOMAIN calls : calls[n].a.id # Connected(ed).pending.id
<1> DEFINE s == ReportUnknown(ed)
           for(n) == ForPending(ed, calls[n].a.id, calls[n].a.generation, calls[n].a.target)
           some == \E n \in {m \in DOMAIN calls : IsOpen(m)} : for(n)
<1>0. Shape(ed) /\ ed \in Editors
  BY DEF Sound, Shape
<1>1. s = IF some THEN markUnknown(ed) ELSE ed
  BY DEF ReportUnknown
<1> HIDE DEF s
<1>2. some => ed.pending # None
  BY DEF ForPending
<1>3. Sound(s) /\ Tracked(s) = Tracked(ed)
  BY <1>0, <1>1, <1>2, CalmOnes, CalmSound
<1>4. s.pending # None /\ s.phase = "saving" => \A n \in DOMAIN calls : calls[n].a.id # s.pending.id
  <2>1. CASE some
    BY <1>0, <1>1, <2>1 DEF markUnknown, Editors
  <2>2. CASE ~some
    BY <1>1, <2>2, AttemptKnown
  <2>3. QED
    BY <2>1, <2>2
<1>5. Shape(s) /\ s \in Editors
  BY <1>3 DEF Sound, Shape
<1>6. Sound(Disconnected(s)) /\ Tracked(Disconnected(s)) = Tracked(s)
  BY <1>3, <1>5, CalmOnes, CalmSound
<1>7. Disconnected(s).pending = s.pending /\ Disconnected(s).phase = s.phase
  BY <1>5 DEF Disconnected, Editors
<1>8. QED
  BY <1>3, <1>4, <1>6, <1>7 DEF Connected, s

------------------------------------------------------------------------------
(* A record turns out to be purged.                                           *)

\* All but what is sent and what is told.
Rooted(s) == Shape(s) /\ Anchored(s) /\ Stored(s)

\* The record of x is listed, unless the list is full.
Buries(t, x) ==
  \/ t.tombstonesSaturated
  \/ \E y \in t.tombstones : y.key = x.key /\ installationOf(y) = installationOf(x)

\* A purged record is listed if there is room, and nothing else changes.
LEMMA TombstoneAdded ==
  ASSUME NEW s \in Editors, Bounded(s), NEW x \in Targets, installationOf(x) # None
  PROVE  LET t == addTombstone(s, x) IN
         /\ t \in Editors /\ Bounded(t) /\ Buries(t, x)
         /\ s.tombstones \subseteq t.tombstones /\ t.tombstones \subseteq s.tombstones \cup {x}
         /\ s.tombstonesSaturated => t.tombstonesSaturated
         /\ t.target = s.target /\ t.expected = s.expected /\ t.mode = s.mode
         /\ t.pending = s.pending /\ t.unresolved = s.unresolved /\ t.blocked = s.blocked
         /\ t.base = s.base /\ t.loaded = s.loaded /\ t.draft = s.draft /\ t.phase = s.phase
<1> DEFINE t == addTombstone(s, x)
           more == s.tombstones \cup {x}
<1>1. CASE isTombstoned(s, x)
  <2>1. t = s
    BY <1>1 DEF addTombstone
  <2>2. QED
    BY <1>1, <2>1 DEF isTombstoned, sameRecord, Buries
<1>2. CASE ~isTombstoned(s, x) /\ Cardinality(s.tombstones) >= MaxTombstones
  <2>1. t = [s EXCEPT !.tombstonesSaturated = TRUE]
    BY <1>2 DEF addTombstone
  <2>2. t \in Editors
    BY <2>1, Setters
  <2>3. /\ t.tombstonesSaturated /\ t.tombstones = s.tombstones
        /\ t.target = s.target /\ t.expected = s.expected /\ t.mode = s.mode
        /\ t.pending = s.pending /\ t.unresolved = s.unresolved /\ t.blocked = s.blocked
        /\ t.base = s.base /\ t.loaded = s.loaded /\ t.draft = s.draft /\ t.phase = s.phase
    BY <2>1 DEF Editors
  <2> HIDE DEF t
  <2>4. QED
    BY <2>2, <2>3 DEF Bounded, Buries, t
<1>3. CASE ~isTombstoned(s, x) /\ ~(Cardinality(s.tombstones) >= MaxTombstones)
  <2>1. t = [s EXCEPT !.tombstones = more]
    BY <1>3 DEF addTombstone
  <2>2. more \in SUBSET (Targets \cup {PurgedBefore})
    BY DEF Editors
  <2>3. t \in Editors
    BY <2>1, <2>2, Setters
  <2>4. /\ t.tombstonesSaturated = s.tombstonesSaturated /\ t.tombstones = more
        /\ t.target = s.target /\ t.expected = s.expected /\ t.mode = s.mode
        /\ t.pending = s.pending /\ t.unresolved = s.unresolved /\ t.blocked = s.blocked
        /\ t.base = s.base /\ t.loaded = s.loaded /\ t.draft = s.draft /\ t.phase = s.phase
    BY <2>1 DEF Editors
  <2>5. IsFiniteSet(more) /\ Cardinality(more) <= MaxTombstones
    <3>1. IsFiniteSet(s.tombstones) /\ Cardinality(s.tombstones) \in Nat
      BY FS_CardinalityType DEF Bounded
    <3>2. IsFiniteSet(more) /\ Cardinality(more) \in {Cardinality(s.tombstones), Cardinality(s.tombstones) + 1}
      BY <3>1, FS_AddElement
    <3>3. QED
      BY <1>3, <3>1, <3>2, NoneApart
  <2> HIDE DEF t
  <2>6. QED
    BY <2>3, <2>4, <2>5 DEF Bounded, Buries, t
<1>4. QED
  BY <1>1, <1>2, <1>3

\* A purged record is left: it is open still, with nothing of it.
LEMMA PurgedTyped ==
  ASSUME NEW s \in Editors, Bounded(s), NEW x \in Targets, installationOf(x) # None
  PROVE  LET t == purge(s, x) IN
         /\ t \in Editors /\ Bounded(t) /\ Buries(t, x)
         /\ s.tombstones \subseteq t.tombstones /\ t.tombstones \subseteq s.tombstones \cup {x}
         /\ s.tombstonesSaturated => t.tombstonesSaturated
         /\ t.target = s.target /\ t.expected = s.expected /\ t.mode = s.mode
         /\ t.unresolved = s.unresolved
         /\ t.pending = None /\ t.base = None /\ t.loaded = None /\ t.draft = None
         /\ t.blocked = None /\ t.phase = "purged"
<1> DEFINE a == [s EXCEPT !.loaded = None, !.base = None, !.draft = None]
           b == [a EXCEPT !.pending = None, !.blocked = None, !.phase = "purged"]
<1>1. a \in Editors
  <2>1. [s EXCEPT !.loaded = None] \in Editors
    BY Setters
  <2>2. [s EXCEPT !.loaded = None, !.base = None] \in Editors
    BY <2>1, Setters
  <2>3. QED
    BY <2>2, Setters
<1>2. /\ a.target = s.target /\ a.expected = s.expected /\ a.mode = s.mode
      /\ a.tombstones = s.tombstones /\ a.tombstonesSaturated = s.tombstonesSaturated
      /\ a.unresolved = s.unresolved /\ a.base = None /\ a.loaded = None /\ a.draft = None
  BY DEF Editors
<1> HIDE DEF a
<1>3. b \in Editors
  <2>1. [a EXCEPT !.pending = None] \in Editors
    BY <1>1, Setters
  <2>2. [a EXCEPT !.pending = None, !.blocked = None] \in Editors
    BY <2>1, Setters
  <2>3. QED
    BY <2>2, Setters DEF Phases
<1>4. /\ b.target = s.target /\ b.expected = s.expected /\ b.mode = s.mode
      /\ b.tombstones = s.tombstones /\ b.tombstonesSaturated = s.tombstonesSaturated
      /\ b.unresolved = s.unresolved /\ b.base = None /\ b.loaded = None /\ b.draft = None
      /\ b.pending = None /\ b.blocked = None /\ b.phase = "purged"
  BY <1>1, <1>2 DEF Editors
<1>5. purge(s, x) = addTombstone(b, x)
  BY DEF purge, b, a
<1> HIDE DEF b
<1>6. Bounded(b)
  BY <1>4 DEF Bounded
<1> DEFINE t == addTombstone(b, x)
<1>7. /\ t \in Editors /\ Bounded(t) /\ Buries(t, x)
      /\ b.tombstones \subseteq t.tombstones /\ t.tombstones \subseteq b.tombstones \cup {x}
      /\ b.tombstonesSaturated => t.tombstonesSaturated
      /\ t.target = b.target /\ t.expected = b.expected /\ t.mode = b.mode
      /\ t.pending = b.pending /\ t.unresolved = b.unresolved /\ t.blocked = b.blocked
      /\ t.base = b.base /\ t.loaded = b.loaded /\ t.draft = b.draft /\ t.phase = b.phase
  BY <1>3, <1>6, TombstoneAdded
<1> HIDE DEF t
<1>8. QED
  BY <1>4, <1>5, <1>7 DEF t

\* The open record of s, whose installation is known by now, is purged.
Purges(s, t, x) ==
  /\ t \in Editors /\ Bounded(t) /\ Buries(t, x)
  /\ s.tombstones \subseteq t.tombstones /\ t.tombstones \subseteq s.tombstones \cup {x}
  /\ s.tombstonesSaturated => t.tombstonesSaturated
  /\ s.target # None /\ t.target # None
  /\ t.target.bind = s.target.bind /\ t.target.key = s.target.key /\ x.key = s.target.key
  /\ t.expected = installationOf(t.target) /\ t.expected # None /\ t.mode = s.mode
  /\ t.unresolved \subseteq s.unresolved
  /\ t.pending = None /\ t.base = None /\ t.loaded = None /\ t.draft = None
  /\ t.blocked = None /\ t.phase = "purged"

\* What is known of the records holds of the purged one.
LEMMA PurgesRooted ==
  ASSUME NEW s, NEW t, NEW x, Rooted(s), Purges(s, t, x), Met(x.key)
  PROVE  Rooted(t) /\ Attempted(t) /\ Tracked(t) \subseteq Tracked(s)
<1>1. Placed(t) /\ Pending(t) /\ Versioned(t) /\ Closed(t) /\ Waits(t)
  BY DEF Purges, Rooted, Shape, Placed, Pending, Versioned, Closed, Waits
<1>2. Listing(t) /\ Apart(t)
  BY DEF Purges, Rooted, Shape, Listing, Apart
<1>3. Anchored(t) /\ Stored(t) /\ Attempted(t)
  BY DEF Purges, Rooted, Anchored, Stored, Attempted
<1>4. Tracked(t) \subseteq Tracked(s)
  BY DEF Purges, Tracked
<1>5. QED
  BY <1>1, <1>2, <1>3, <1>4 DEF Purges, Rooted, Shape

\* A read or a refusal says that the record that is open is purged.
LEMMA PurgeRooted ==
  ASSUME NEW s, Rooted(s), s.target # None, s.expected # None, Met(s.target.key)
  PROVE  /\ Purges(s, purge(s, s.target), s.target)
         /\ purge(s, s.target).unresolved = s.unresolved
         /\ s.pending # None => asked[s.pending.id].key = s.target.key
                                /\ Home(s.pending.id, s.expected)
<1>1. s \in Editors /\ Shape(s) /\ Bounded(s) /\ s.target \in Targets /\ installationOf(s.target) # None
  BY OpenTarget DEF Rooted, Shape
<1> DEFINE t == purge(s, s.target)
<1>2. /\ t \in Editors /\ Bounded(t) /\ Buries(t, s.target)
      /\ s.tombstones \subseteq t.tombstones /\ t.tombstones \subseteq s.tombstones \cup {s.target}
      /\ s.tombstonesSaturated => t.tombstonesSaturated
      /\ t.target = s.target /\ t.expected = s.expected /\ t.mode = s.mode
      /\ t.unresolved = s.unresolved
      /\ t.pending = None /\ t.base = None /\ t.loaded = None /\ t.draft = None
      /\ t.blocked = None /\ t.phase = "purged"
  BY <1>1, PurgedTyped
<1> HIDE DEF t
<1>3. Purges(s, t, s.target)
  BY <1>1, <1>2, OpenTarget DEF Purges
<1>4. s.pending # None => asked[s.pending.id].key = s.target.key /\ Home(s.pending.id, s.expected)
  <2>1. SUFFICES ASSUME s.pending # None
                 PROVE  asked[s.pending.id].key = s.target.key /\ Home(s.pending.id, s.expected)
    OBVIOUS
  <2>2. s.target = s.pending.target /\ (s.target.bind = Loc => s.target.inst = None)
    BY <1>1, <2>1 DEF Shape, Pending
  <2>3. s.target.bind # Loc /\ s.expected = s.target.bind
    BY <1>1, <2>2, OpenTarget, InstallationOf
  <2>4. QED
    BY <2>1, <2>2, <2>3 DEF Rooted, Anchored, Asks, Origin, Home
<1>5. QED
  BY <1>2, <1>3, <1>4 DEF t
------------------------------------------------------------------------------
(* What became of the request under way.                                      *)

\* Revision v of the record of request r, in the store i, is what r made.
Made(i, r, v) ==
  LET log == record[i][asked[r].key].log
      m == asked[r].change
  IN /\ v \in 1 .. Len(log)
     /\ IF m.kind \in {"capture", "edit"} THEN log[v] = m.text
        ELSE m.revision \in 1 .. Len(log) /\ log[v] = log[m.revision]

\* What the submission s asks for is revision v of its record in the store i of rec.
Makes(rec, i, s, v) ==
  LET log == rec[i][s.key].log IN
  /\ v \in 1 .. Len(log)
  /\ IF s.change.kind \in {"capture", "edit"} THEN log[v] = s.change.text
     ELSE s.change.revision \in 1 .. Len(log) /\ log[v] = log[s.change.revision]

\* That is what the request's submission asks for.
LEMMA MadeMakes == \A i, r, v : Made(i, r, v) <=> Makes(record, i, asked[r], v)
BY DEF Made, Makes

\* A target whose installation is not known gets it; another keeps its own.
LEMMA AttributedTarget ==
  ASSUME NEW t \in Targets, NEW i \in Installs
  PROVE  /\ Attributed(t, i) \in Targets
         /\ Attributed(t, i).bind = t.bind /\ Attributed(t, i).key = t.key
         /\ installationOf(t) = None => installationOf(Attributed(t, i)) = i
         /\ installationOf(t) # None => Attributed(t, i) = t
BY InstallationOf, NoneApart DEF Attributed, installationOf, Targets

\* The request under way learns its store from the answer.
LEMMA OwnLearned ==
  ASSUME NEW s, Rooted(s), s.pending # None, NEW i \in Installs,
         installationOf(s.pending.target) \in {None, i}, NEW r, r.state # "unknown"
  PROVE  LET t == attributeOperation(s, s.pending.id, r, i) IN
         /\ t \in Editors /\ installationOf(t.target) = i /\ t.expected = i
         /\ t.target = Attributed(s.target, i) /\ t.target \in Targets
         /\ t.target.bind = s.target.bind /\ t.target.key = s.target.key
         /\ t.pending # None /\ t.pending.mutation = s.pending.mutation /\ t.pending.target = t.target
         /\ t.pending.id = s.pending.id
         /\ t.mode = s.mode /\ t.unresolved = s.unresolved /\ t.blocked = s.blocked
         /\ t.tombstones = s.tombstones /\ t.tombstonesSaturated = s.tombstonesSaturated
         /\ t.base = s.base /\ t.loaded = s.loaded /\ t.draft = s.draft /\ t.phase = s.phase
<1>0. /\ s \in Editors /\ Shape(s) /\ i # None
      /\ s.target = s.pending.target /\ s.pending \in Pendings /\ s.target \in Targets
      /\ s.expected = installationOf(s.target) /\ s.target # None
  BY OpenTarget, NoneApart DEF Rooted, Shape, Pending, Editors, Pendings
<1> DEFINE learns == installationOf(s.pending.target) = None /\ s.expected = None
           pending == [s.pending EXCEPT !.target = Attributed(s.pending.target, i)]
           expected == IF learns THEN i ELSE s.expected
           target == IF learns /\ s.target # None THEN [s.target EXCEPT !.inst = i] ELSE s.target
           t == attributeOperation(s, s.pending.id, r, i)
<1>1. {IF u.id = s.pending.id THEN [u EXCEPT !.target = Attributed(@, i)] ELSE u : u \in s.unresolved}
        = s.unresolved
  BY <1>0 DEF Shape, Pending
<1>2. t = [s EXCEPT !.pending = pending, !.unresolved = s.unresolved, !.expected = expected,
                    !.target = target]
  <2> DEFINE list == {IF u.id = s.pending.id THEN [u EXCEPT !.target = Attributed(@, i)] ELSE u
                        : u \in s.unresolved}
             mine == s.pending # None /\ s.pending.id = s.pending.id
             mineLearns == mine /\ installationOf(s.pending.target) = None /\ s.expected = None
             newPending == IF mine THEN [s.pending EXCEPT !.target = Attributed(s.pending.target, i)]
                           ELSE s.pending
             newExpected == IF mineLearns THEN i ELSE s.expected
             newTarget == IF mineLearns /\ s.target # None THEN [s.target EXCEPT !.inst = i]
                          ELSE s.target
  <2>1. t = IF i = None \/ r.state = "unknown" THEN s
            ELSE [s EXCEPT !.pending = newPending, !.unresolved = list,
                           !.expected = newExpected, !.target = newTarget]
    BY Zenon DEF attributeOperation
  <2>2. list = s.unresolved
    BY <1>1
  <2>3. newPending = pending /\ newExpected = expected /\ newTarget = target
    <3>1. mine /\ (mineLearns <=> learns)
      OBVIOUS
    <3> HIDE DEF mine, mineLearns
    <3>2. QED
      BY <3>1
  <2> HIDE DEF t, list, newPending, newExpected, newTarget, pending, expected, target
  <2>4. QED
    BY <1>0, <2>1, <2>2, <2>3
<1>3. Attributed(s.target, i) \in Targets /\ installationOf(Attributed(s.target, i)) = i
  BY <1>0, AttributedTarget
<1>4. target = Attributed(s.target, i) /\ expected = i
  BY <1>0 DEF Attributed
<1>5. pending \in Pendings /\ pending # None /\ pending.id = s.pending.id
      /\ pending.mutation = s.pending.mutation /\ pending.target = Attributed(s.target, i)
  BY <1>0, <1>3, NoneApart DEF Pendings
<1> HIDE DEF t, pending, expected, target
<1>6. t \in Editors
  <2>1. s.unresolved \in SUBSET [id : Requests, target : Targets] /\ i \in Known
    BY <1>0 DEF Editors, Known
  <2>2. [s EXCEPT !.pending = pending] \in Editors
    BY <1>0, <1>5, Setters
  <2>3. [s EXCEPT !.pending = pending, !.unresolved = s.unresolved] \in Editors
    BY <2>1, <2>2, Setters
  <2>4. [s EXCEPT !.pending = pending, !.unresolved = s.unresolved, !.expected = expected] \in Editors
    BY <1>4, <2>1, <2>3, Setters
  <2>5. QED
    BY <1>2, <1>3, <1>4, <2>4, Setters
<1>7. /\ t.target = target /\ t.expected = expected /\ t.pending = pending
      /\ t.mode = s.mode /\ t.unresolved = s.unresolved /\ t.blocked = s.blocked
      /\ t.tombstones = s.tombstones /\ t.tombstonesSaturated = s.tombstonesSaturated
      /\ t.base = s.base /\ t.loaded = s.loaded /\ t.draft = s.draft /\ t.phase = s.phase
  BY <1>0, <1>2 DEF Editors
<1>8. Attributed(s.target, i).bind = s.target.bind /\ Attributed(s.target, i).key = s.target.key
  BY <1>0, AttributedTarget
<1>9. QED
  BY <1>3, <1>4, <1>5, <1>6, <1>7, <1>8 DEF t

\* It was carried out, and its record is purged now.
LEMMA OwnPurged ==
  ASSUME NEW s, Rooted(s), s.pending # None, NEW i \in Installs,
         installationOf(s.pending.target) \in {None, i}, NEW r, r.state # "unknown"
  PROVE  LET a == attributeOperation(s, s.pending.id, r, i)
         IN  /\ Purges(s, purge(a, a.pending.target), a.pending.target)
             /\ installationOf(a.pending.target) = i
             /\ purge(a, a.pending.target).unresolved = s.unresolved
<1> DEFINE a == attributeOperation(s, s.pending.id, r, i)
           x == a.pending.target
           t == purge(a, x)
<1>1. /\ a \in Editors /\ installationOf(a.target) = i /\ a.expected = i /\ x = a.target /\ x \in Targets
      /\ a.target.bind = s.target.bind /\ a.target.key = s.target.key
      /\ a.mode = s.mode /\ a.unresolved = s.unresolved
      /\ a.tombstones = s.tombstones /\ a.tombstonesSaturated = s.tombstonesSaturated
  BY OwnLearned
<1>2. Bounded(s) /\ s.target # None
  BY NoneApart DEF Rooted, Shape, Pending, Editors, Pendings
<1> HIDE DEF a
<1>3. Bounded(a) /\ i # None /\ a.target # None
  BY <1>1, <1>2, NoneApart DEF Bounded
<1>4. /\ t \in Editors /\ Bounded(t) /\ Buries(t, x)
      /\ a.tombstones \subseteq t.tombstones /\ t.tombstones \subseteq a.tombstones \cup {x}
      /\ a.tombstonesSaturated => t.tombstonesSaturated
      /\ t.target = a.target /\ t.expected = a.expected /\ t.mode = a.mode
      /\ t.unresolved = a.unresolved
      /\ t.pending = None /\ t.base = None /\ t.loaded = None /\ t.draft = None
      /\ t.blocked = None /\ t.phase = "purged"
  BY <1>1, <1>3, PurgedTyped
<1> HIDE DEF t, x
<1>5. Purges(s, t, x)
  BY <1>1, <1>2, <1>3, <1>4 DEF Purges
<1>6. QED
  BY <1>1, <1>4, <1>5 DEF a, t, x

\* It was carried out: what the editor composes on is what the store has now.
Commits(s, t, i) ==
  /\ t \in Editors /\ s.target # None /\ t.target = Attributed(s.target, i) /\ t.expected = i
  /\ t.mode = "existing" /\ t.pending = None /\ t.unresolved = s.unresolved
  /\ t.blocked = s.blocked /\ t.loaded = s.loaded
  /\ t.tombstones = s.tombstones /\ t.tombstonesSaturated = s.tombstonesSaturated
  /\ t.phase \in {"editing", "saved"}
  /\ t.base # None => t.base.revision # 0 /\ Wording(i, s.target.key, t.base)

\* What is known of the records holds of the one that was saved.
LEMMA CommitsRooted ==
  ASSUME NEW s, NEW t, Rooted(s), s.pending # None, NEW i \in Installs,
         installationOf(s.pending.target) \in {None, i}, Commits(s, t, i)
  PROVE  Rooted(t) /\ Attempted(t) /\ Tracked(t) = Tracked(s) \ {s.pending.id}
<1>0. /\ s \in Editors /\ Shape(s) /\ s.target = s.pending.target /\ s.target \in Targets
      /\ s.expected = installationOf(s.target) /\ s.phase # "purged"
      /\ t.target \in Targets /\ t.target.bind = s.target.bind /\ t.target.key = s.target.key
      /\ installationOf(t.target) = i /\ i # None /\ s.expected \in {None, i}
      /\ s.expected # None => t.target = s.target
  BY OpenTarget, AttributedTarget, NoneApart DEF Rooted, Shape, Pending, Commits
<1>1. s.target.bind = Loc => s.expected = None
  BY <1>0, InstallationOf DEF Shape, Pending
<1>2. s.expected = None => s.target.bind = Loc
  BY <1>0, InstallationOf, NoneApart
<1>3. Bounded(t) /\ Listing(t) /\ Waits(t) /\ Pending(t)
  BY <1>0 DEF Commits, Shape, Bounded, Listing, Waits, Pending
<1>4. Placed(t) /\ Versioned(t) /\ Apart(t)
  BY <1>0, NoneApart DEF Commits, Shape, Placed, Versioned, Apart
<1>5. Closed(t)
  <2>1. ~isTombstoned(t, t.target)
    <3>1. CASE s.expected = None
      BY <1>0, <1>2, <3>1 DEF Commits, Shape, Apart, isTombstoned, sameRecord
    <3>2. CASE s.expected # None
      BY <1>0, <3>2 DEF Commits, Shape, Closed, isTombstoned
    <3>3. QED
      BY <3>1, <3>2
  <2>2. QED
    BY <2>1 DEF Closed, Commits
<1>6. Anchored(t)
  BY DEF Commits, Rooted, Anchored
<1>7. Stored(t)
  <2>1. t.loaded # None => s.expected = i
    BY <1>0 DEF Commits, Shape, Versioned
  <2>2. QED
    BY <1>0, <2>1 DEF Commits, Rooted, Stored
<1>8. Attempted(t)
  BY DEF Commits, Attempted
<1>9. Tracked(t) = Tracked(s) \ {s.pending.id}
  BY <1>0 DEF Commits, Tracked, Shape, Pending
<1>10. QED
  BY <1>3, <1>4, <1>5, <1>6, <1>7, <1>8, <1>9 DEF Commits, Rooted, Shape

\* The receipt of a commit carries the request out, or purges its record.
LEMMA OwnCommitted ==
  ASSUME NEW s, Rooted(s), s.pending # None, NEW i \in Installs,
         installationOf(s.pending.target) \in {None, i},
         NEW r, r.state = "committed", r.revision \in Nat, Made(i, s.pending.id, r.revision),
         record \in [Installs -> [Keys -> Records]]
  PROVE  LET t == applyCommit(attributeOperation(s, s.pending.id, r, i), r)
         IN  \/ Commits(s, t, i)
             \/ /\ Purges(s, t, Attributed(s.target, i))
                /\ installationOf(Attributed(s.target, i)) = i
                /\ t.unresolved = s.unresolved
<1> DEFINE a == attributeOperation(s, s.pending.id, r, i)
           m == s.pending.mutation
           newer == s.base # None /\ m # None /\ r.revision > s.base.revision
           base == IF ~newer THEN s.base
                   ELSE [revision |-> r.revision,
                         text |-> IF m.kind \in {"capture", "edit"} THEN m.text ELSE s.base.text]
           b == [a EXCEPT !.mode = "existing", !.pending = None, !.base = base]
           phase == IF isLessonEditorDirty(b) THEN "editing" ELSE "saved"
           t == [b EXCEPT !.phase = phase]
<1>1. /\ a \in Editors /\ installationOf(a.target) = i /\ a.expected = i
      /\ a.target = Attributed(s.target, i)
      /\ a.pending.mutation = m /\ a.pending.target = a.target /\ a.unresolved = s.unresolved
      /\ a.tombstones = s.tombstones /\ a.tombstonesSaturated = s.tombstonesSaturated
      /\ a.blocked = s.blocked /\ a.loaded = s.loaded /\ a.base = s.base
  BY OwnLearned
<1>2. applyCommit(a, r) = IF m # None /\ m.kind = "purge" THEN purge(a, a.pending.target) ELSE t
  BY <1>1 DEF applyCommit
<1>3. CASE m # None /\ m.kind = "purge"
  BY <1>1, <1>2, <1>3, OwnPurged
<1>4. CASE ~(m # None /\ m.kind = "purge")
  <2>0. /\ s \in Editors /\ Shape(s) /\ s.target # None /\ s.target \in Targets /\ s.pending.id \in Requests
        /\ s.target = s.pending.target /\ asked[s.pending.id].key = s.target.key
        /\ s.expected = installationOf(s.target) /\ m \in {None, asked[s.pending.id].change}
    BY OpenTarget, NoneApart DEF Rooted, Shape, Pending, Editors, Pendings, Anchored, Asks
  <2>1. /\ s.base # None => s.base \in Versions /\ s.base.revision \in Nat
        /\ m # None => m \in Mutations /\ m.revision \in Nat
        /\ record[i][s.target.key].log \in Seq(Texts)
        /\ r.revision # 0 /\ r.revision > 0
    <3>1. s.base # None => s.base \in Versions /\ s.base.revision \in Nat
      BY <2>0 DEF Editors, Versions
    <3>2. m # None => m \in Mutations /\ m.revision \in Nat
      BY <2>0 DEF Editors, Pendings, Mutations
    <3>3. record[i][s.target.key] \in Records
      BY <2>0 DEF Targets
    <3>4. record[i][s.target.key].log \in Seq(Texts)
      BY <3>3 DEF Records
    <3>5. r.revision \in 1 .. Len(record[i][s.target.key].log)
      BY <2>0 DEF Made
    <3>6. QED
      BY <3>1, <3>2, <3>4, <3>5
  <2>2. base # None => base \in Versions /\ base.revision # 0 /\ Wording(i, s.target.key, base)
    <3>1. CASE newer /\ m.kind \in {"capture", "edit"}
      <4>1. m = asked[s.pending.id].change /\ m # None /\ s.base # None
        BY <2>0, <3>1
      <4>2. /\ r.revision \in 1 .. Len(record[i][s.target.key].log)
            /\ record[i][s.target.key].log[r.revision] = m.text
        BY <2>0, <3>1, <4>1 DEF Made
      <4>3. m.text \in Texts
        BY <2>1, <4>2
      <4>4. base = [revision |-> r.revision, text |-> m.text]
        BY <3>1
      <4>5. QED
        BY <2>1, <4>2, <4>3, <4>4 DEF Versions, Wording
    <3>2. CASE newer /\ m.kind \notin {"capture", "edit"}
      <4>1. m = asked[s.pending.id].change /\ m # None /\ s.base # None
        BY <2>0, <3>2
      <4>2. /\ r.revision \in 1 .. Len(record[i][s.target.key].log)
            /\ m.revision \in 1 .. Len(record[i][s.target.key].log)
            /\ record[i][s.target.key].log[r.revision] = record[i][s.target.key].log[m.revision]
        BY <2>0, <3>2, <4>1 DEF Made
      <4>3. s.base.revision = m.revision /\ s.base.revision > 0
        <5>1. s.base.revision = m.revision
          BY <2>0, <4>1 DEF Shape, Pending
        <5>2. m.revision > 0
          BY <2>1, <4>1, <4>2
        <5>3. QED
          BY <5>1, <5>2
      <4>4. s.expected = i
        BY <2>0, <4>1, <4>3 DEF Shape, Versioned
      <4>5. record[i][s.target.key].log[m.revision] = s.base.text
        BY <2>0, <4>1, <4>3, <4>4 DEF Rooted, Stored, Wording
      <4>6. base = [revision |-> r.revision, text |-> s.base.text]
        BY <3>2
      <4>7. QED
        <5>1. s.base.text \in Texts \cup {Blank}
          BY <2>1, <4>1 DEF Versions
        <5> HIDE DEF base, m, newer
        <5>2. base \in Versions /\ base.revision = r.revision /\ base.text = s.base.text
          BY <4>6, <5>1 DEF Versions
        <5>3. QED
          BY <2>1, <4>2, <4>5, <5>2 DEF Wording
    <3>3. CASE ~newer
      <4>1. SUFFICES ASSUME s.base # None
                     PROVE  s.base \in Versions /\ s.base.revision # 0
                            /\ Wording(i, s.target.key, s.base)
        BY <3>3
      <4>2. s.base.revision # 0
        <5>1. CASE m = None
          BY <2>0, <4>1, <5>1 DEF Shape, Pending, Versioned
        <5>2. CASE m # None
          BY <2>1, <3>3, <4>1, <5>2
        <5>3. QED
          BY <5>1, <5>2
      <4>3. s.expected = i
        BY <2>0, <4>1, <4>2 DEF Shape, Versioned
      <4>4. s.base.revision > 0
        BY <2>1, <4>1, <4>2
      <4>5. QED
        BY <2>1, <4>1, <4>2, <4>3, <4>4 DEF Rooted, Stored
    <3>4. QED
      BY <3>1, <3>2, <3>3
  <2> HIDE DEF base, a
  <2>3. b \in Editors
    <3>1. [a EXCEPT !.mode = "existing"] \in Editors
      BY <1>1, Setters
    <3>2. [a EXCEPT !.mode = "existing", !.pending = None] \in Editors
      BY <3>1, Setters
    <3>3. QED
      BY <2>2, <3>2, Setters
  <2>4. /\ b.mode = "existing" /\ b.pending = None /\ b.base = base /\ b.target = a.target
        /\ b.expected = a.expected /\ b.unresolved = a.unresolved
        /\ b.tombstones = a.tombstones /\ b.tombstonesSaturated = a.tombstonesSaturated
        /\ b.blocked = a.blocked /\ b.loaded = a.loaded
    BY <1>1 DEF Editors
  <2>5. phase \in {"editing", "saved"}
    OBVIOUS
  <2> HIDE DEF b, phase
  <2>6. t \in Editors
    BY <2>3, <2>5, Setters DEF Phases
  <2>7. /\ t.mode = "existing" /\ t.pending = None /\ t.base = base /\ t.target = a.target
        /\ t.expected = a.expected /\ t.unresolved = a.unresolved
        /\ t.tombstones = a.tombstones /\ t.tombstonesSaturated = a.tombstonesSaturated
        /\ t.blocked = a.blocked /\ t.loaded = a.loaded /\ t.phase = phase
    BY <2>3, <2>4 DEF Editors
  <2> HIDE DEF t, m
  <2>8. Commits(s, t, i)
    BY <1>1, <2>0, <2>2, <2>5, <2>6, <2>7 DEF Commits
  <2>9. QED
    BY <1>2, <1>4, <2>8 DEF a
<1>5. QED
  BY <1>3, <1>4

------------------------------------------------------------------------------
(* What became of an unchecked save.                                          *)

\* The save u is off the list; its record x may be listed as purged.
Settles(s, t, u, x) ==
  /\ t \in Editors /\ Bounded(t)
  /\ t.target = s.target /\ t.expected = s.expected /\ t.mode = s.mode
  /\ t.pending = s.pending /\ t.blocked = s.blocked /\ t.phase = s.phase
  /\ t.base = s.base /\ t.loaded = s.loaded /\ t.draft = s.draft
  /\ t.unresolved = s.unresolved \ {u}
  /\ s.tombstones \subseteq t.tombstones /\ t.tombstones \subseteq s.tombstones \cup {x}
  /\ s.tombstonesSaturated => t.tombstonesSaturated
  /\ x.key = u.target.key
  /\ s.target # None /\ s.phase # "purged" =>
       t.tombstones = s.tombstones \/ ~sameRecord(x, s.target)

\* What is known of the records holds without the save.
LEMMA SettlesRooted ==
  ASSUME NEW s, NEW t, NEW x, Rooted(s), NEW u \in s.unresolved, Settles(s, t, u, x)
  PROVE  /\ Rooted(t) /\ (Attempted(s) => Attempted(t))
         /\ Tracked(t) = Tracked(s) \ {u.id}
<1>0. u.id \in Requests /\ Asks(u.id, u.target) /\ Met(x.key)
  <2>1. u.id \in Requests /\ Asks(u.id, u.target)
    BY DEF Rooted, Shape, Editors, Anchored
  <2>2. Met(u.target.key)
    BY <2>1, AsksMet
  <2>3. QED
    BY <2>1, <2>2 DEF Settles
<1>1. Placed(t) /\ Pending(t) /\ Versioned(t) /\ Listing(t) /\ Waits(t)
  BY DEF Settles, Rooted, Shape, Placed, Pending, Versioned, Listing, Waits
<1>2. Closed(t)
  BY DEF Settles, Rooted, Shape, Closed, isTombstoned
<1>3. Apart(t)
  BY DEF Settles, Rooted, Shape, Apart
<1>4. Anchored(t) /\ Stored(t)
  BY <1>0 DEF Settles, Rooted, Anchored, Stored
<1>5. Attempted(s) => Attempted(t)
  BY DEF Settles, Attempted
<1>6. Tracked(t) = Tracked(s) \ {u.id}
  BY DEF Settles, Tracked, Rooted, Shape, Listing, Pending
<1>7. QED
  BY <1>1, <1>2, <1>3, <1>4, <1>5, <1>6 DEF Settles, Rooted, Shape

\* The save learns its store, and is taken off the list.
Learned(s, a, u, i) ==
  /\ a.pending = s.pending
  /\ \E w \in a.unresolved :
       /\ w.id = u.id /\ \A v \in a.unresolved : v.id = u.id => v = w
       /\ w.target = Attributed(u.target, i) /\ w.target \in Targets
       /\ installationOf(w.target) = i /\ w.target.key = u.target.key
       /\ [a EXCEPT !.unresolved = a.unresolved \ {w}]
            = [s EXCEPT !.unresolved = s.unresolved \ {u}]

\* The receipt of an unchecked save says which store it reached.
LEMMA SaveLearned ==
  ASSUME NEW s, Rooted(s), NEW u \in s.unresolved, s.pending = None \/ s.pending.id # u.id,
         NEW i \in Installs, installationOf(u.target) \in {None, i},
         NEW r, r.state # "unknown"
  PROVE  Learned(s, attributeOperation(s, u.id, r, i), u, i)
<1> DEFINE a == attributeOperation(s, u.id, r, i)
           w == [u EXCEPT !.target = Attributed(@, i)]
           rest == s.unresolved \ {u}
           list == {IF v.id = u.id THEN [v EXCEPT !.target = Attributed(@, i)] ELSE v
                      : v \in s.unresolved}
<1>0. /\ s \in Editors /\ i # None /\ u \in [id : Requests, target : Targets] /\ u.target \in Targets
      /\ \A v \in s.unresolved : v.id = u.id => v = u
  BY NoneApart DEF Rooted, Shape, Editors, Listing
<1>1. a = [s EXCEPT !.unresolved = list]
  <2> DEFINE mine == s.pending # None /\ s.pending.id = u.id
             learns == mine /\ installationOf(s.pending.target) = None /\ s.expected = None
             newPending == IF mine THEN [s.pending EXCEPT !.target = Attributed(@, i)] ELSE s.pending
             newExpected == IF learns THEN i ELSE s.expected
             newTarget == IF learns /\ s.target # None THEN [s.target EXCEPT !.inst = i]
                          ELSE s.target
  <2>1. a = IF i = None \/ r.state = "unknown" THEN s
            ELSE [s EXCEPT !.pending = newPending, !.unresolved = list,
                           !.expected = newExpected, !.target = newTarget]
    BY Zenon DEF attributeOperation
  <2>2. newPending = s.pending /\ newExpected = s.expected /\ newTarget = s.target
    OBVIOUS
  <2> HIDE DEF a, list, newPending, newExpected, newTarget
  <2>3. a = [s EXCEPT !.pending = s.pending, !.unresolved = list,
                      !.expected = s.expected, !.target = s.target]
    BY <1>0, <2>1, <2>2
  <2>4. QED
    BY <1>0, <2>3 DEF Editors
<1>2. /\ w.id = u.id /\ w.target = Attributed(u.target, i) /\ w.target \in Targets
      /\ installationOf(w.target) = i /\ w.target.key = u.target.key
  <2>1. w.id = u.id /\ w.target = Attributed(u.target, i)
    BY <1>0
  <2>2. QED
    BY <1>0, <2>1, AttributedTarget
<1> HIDE DEF w
<1>3. list = rest \cup {w}
  <2>1. \A v \in s.unresolved : v.id = u.id => [v EXCEPT !.target = Attributed(@, i)] = w
    BY <1>0 DEF w
  <2>2. QED
    BY <1>0, <2>1
<1> HIDE DEF a, list
<1>4. \A v \in rest : v.id # u.id
  BY <1>0
<1>5. (rest \cup {w}) \ {w} = rest
  BY <1>2, <1>4
<1>6. a.unresolved = rest \cup {w} /\ a.pending = s.pending
  BY <1>0, <1>1, <1>3 DEF Editors
<1>7. w \in a.unresolved /\ w.id = u.id /\ \A v \in a.unresolved : v.id = u.id => v = w
  BY <1>2, <1>4, <1>6
<1>8. [a EXCEPT !.unresolved = a.unresolved \ {w}] = [s EXCEPT !.unresolved = rest]
  <2>1. [a EXCEPT !.unresolved = a.unresolved \ {w}] = [a EXCEPT !.unresolved = rest]
    BY <1>5, <1>6
  <2>2. QED
    BY <1>0, <1>1, <2>1 DEF Editors
<1>9. QED
  BY <1>2, <1>6, <1>7, <1>8 DEF a, Learned

\* A receipt of an unchecked save takes it off the list, and closes the open
\* record when it is the one that turns out to be purged.
LEMMA SaveSettled ==
  ASSUME NEW s, Rooted(s), NEW u \in s.unresolved, s.pending = None \/ s.pending.id # u.id,
         NEW i \in Installs, installationOf(u.target) \in {None, i},
         NEW r, r.state \in {"committed", "purged"}
  PROVE  LET t == receipt(attributeOperation(s, u.id, r, i), u.id, r)
             x == Attributed(u.target, i)
         IN  /\ installationOf(x) = i /\ x.key = u.target.key
             /\ \/ /\ Settles(s, t, u, x)
                   /\ r.state = "purged" =>
                        /\ Buries(t, x)
                        /\ s.target # None /\ s.phase # "purged" => ~sameRecord(x, s.target)
                \/ Purges(s, t, x) /\ t.unresolved = s.unresolved \ {u} /\ s.expected = i
<1> DEFINE a == attributeOperation(s, u.id, r, i)
           x == Attributed(u.target, i)
           rest == s.unresolved \ {u}
           next == [s EXCEPT !.unresolved = rest]
           live == next.target # None /\ next.phase # "purged"
           t == receipt(a, u.id, r)
<1>0. s \in Editors /\ Shape(s) /\ i # None /\ u.target \in Targets
  BY NoneApart DEF Rooted, Shape, Editors
<1>1. /\ a.pending = s.pending
      /\ \E w \in a.unresolved :
           /\ w.id = u.id /\ \A v \in a.unresolved : v.id = u.id => v = w
           /\ w.target = x /\ x \in Targets /\ installationOf(x) = i /\ x.key = u.target.key
           /\ [a EXCEPT !.unresolved = a.unresolved \ {w}] = next
  <2>1. r.state # "unknown"
    OBVIOUS
  <2>2. Learned(s, a, u, i)
    BY <2>1, SaveLearned
  <2> HIDE DEF a
  <2>3. QED
    BY <2>2 DEF Learned
<1> HIDE DEF a, x
<1>2. t = IF r.state # "purged" THEN next
          ELSE IF live /\ sameRecord(next.target, x) THEN purge(next, x)
          ELSE IF live /\ Unlinked(next.target, x) THEN addTombstone(failClosed(next), x)
          ELSE addTombstone(next, x)
  <2> DEFINE c == CHOOSE v \in a.unresolved : v.id = u.id
  <2>1. t = settleUnresolved(a, c, r)
    BY <1>1 DEF receipt
  <2>2. c.target = x /\ [a EXCEPT !.unresolved = a.unresolved \ {c}] = next
    BY <1>1
  <2> HIDE DEF c, next, t
  <2>3. t = IF r.state = "unknown" THEN a
            ELSE LET after == [a EXCEPT !.unresolved = a.unresolved \ {c}]
                     open == after.target # None /\ after.phase # "purged"
                 IN IF r.state # "purged" THEN after
                    ELSE IF open /\ sameRecord(after.target, c.target) THEN purge(after, c.target)
                    ELSE IF open /\ Unlinked(after.target, c.target)
                         THEN addTombstone(failClosed(after), c.target)
                    ELSE addTombstone(after, c.target)
    BY <2>1 DEF settleUnresolved
  <2>4. QED
    BY <2>2, <2>3
<1>3. rest \in SUBSET [id : Requests, target : Targets] /\ IsFiniteSet(rest)
      /\ Cardinality(rest) <= MaxUnresolved
  <2>1. IsFiniteSet(s.unresolved) /\ Cardinality(s.unresolved) <= MaxUnresolved
    BY <1>0 DEF Shape, Bounded
  <2>2. IsFiniteSet(rest) /\ Cardinality(rest) <= Cardinality(s.unresolved)
    BY <2>1, FS_Subset
  <2>3. Cardinality(rest) \in Nat /\ Cardinality(s.unresolved) \in Nat
    BY <2>1, <2>2, FS_CardinalityType
  <2>4. QED
    BY <1>0, <2>1, <2>2, <2>3, NoneApart DEF Editors
<1> HIDE DEF rest
<1>4. /\ next \in Editors /\ next.unresolved = rest
      /\ next.tombstones = s.tombstones /\ next.tombstonesSaturated = s.tombstonesSaturated
      /\ next.target = s.target /\ next.expected = s.expected /\ next.mode = s.mode
      /\ next.pending = s.pending /\ next.blocked = s.blocked /\ next.phase = s.phase
      /\ next.base = s.base /\ next.loaded = s.loaded /\ next.draft = s.draft
  <2>1. next \in Editors
    BY <1>0, <1>3, Setters
  <2>2. QED
    BY <1>0, <2>1 DEF Editors
<1>5. Bounded(next)
  BY <1>0, <1>3, <1>4 DEF Shape, Bounded
<1> HIDE DEF next, t
<1>6. ~(live /\ Unlinked(next.target, x))
  <2>1. SUFFICES ASSUME live, Unlinked(next.target, x) PROVE FALSE
    OBVIOUS
  <2>2. s.target # None /\ s.target \in Targets /\ s.target.key = x.key /\ installationOf(s.target) = None
    BY <1>0, <1>1, <1>4, <2>1, OpenTarget DEF Unlinked
  <2>3. s.target.bind = Loc
    BY <2>2, InstallationOf, NoneApart
  <2>4. QED
    BY <1>0, <1>1, <2>2, <2>3 DEF Shape, Apart
<1>7. CASE r.state # "purged"
  <2>1. Settles(s, next, u, x)
    BY <1>1, <1>4, <1>5 DEF Settles, rest
  <2>2. QED
    BY <1>1, <1>2, <1>7, <2>1 DEF t, a, x
<1>8. CASE r.state = "purged" /\ live /\ sameRecord(next.target, x)
  <2>1. t = purge(next, x)
    BY <1>2, <1>8
  <2> DEFINE p == purge(next, x)
  <2>2. /\ p \in Editors /\ Bounded(p) /\ Buries(p, x)
        /\ next.tombstones \subseteq p.tombstones /\ p.tombstones \subseteq next.tombstones \cup {x}
        /\ next.tombstonesSaturated => p.tombstonesSaturated
        /\ p.target = next.target /\ p.expected = next.expected /\ p.mode = next.mode
        /\ p.unresolved = next.unresolved
        /\ p.pending = None /\ p.base = None /\ p.loaded = None /\ p.draft = None
        /\ p.blocked = None /\ p.phase = "purged"
    BY <1>0, <1>1, <1>4, <1>5, PurgedTyped
  <2> HIDE DEF p
  <2>3. s.target # None /\ s.target.key = x.key /\ installationOf(s.target) = i /\ s.expected = i
    BY <1>0, <1>1, <1>4, <1>8, OpenTarget DEF sameRecord
  <2>4. Purges(s, p, x)
    BY <1>0, <1>3, <1>4, <2>2, <2>3 DEF Purges, rest
  <2>5. p.unresolved = s.unresolved \ {u}
    BY <1>4, <2>2 DEF rest
  <2>6. QED
    BY <1>1, <2>1, <2>3, <2>4, <2>5 DEF t, a, x, p
<1>9. CASE r.state = "purged" /\ ~(live /\ sameRecord(next.target, x))
  <2>1. t = addTombstone(next, x)
    BY <1>2, <1>6, <1>9
  <2> DEFINE p == addTombstone(next, x)
  <2>2. /\ p \in Editors /\ Bounded(p) /\ Buries(p, x)
        /\ next.tombstones \subseteq p.tombstones /\ p.tombstones \subseteq next.tombstones \cup {x}
        /\ next.tombstonesSaturated => p.tombstonesSaturated
        /\ p.target = next.target /\ p.expected = next.expected /\ p.mode = next.mode
        /\ p.pending = next.pending /\ p.unresolved = next.unresolved /\ p.blocked = next.blocked
        /\ p.base = next.base /\ p.loaded = next.loaded /\ p.draft = next.draft
        /\ p.phase = next.phase
    BY <1>0, <1>1, <1>4, <1>5, TombstoneAdded
  <2> HIDE DEF p
  <2>3. s.target # None /\ s.phase # "purged" => ~sameRecord(x, s.target)
    BY <1>4, <1>9 DEF sameRecord
  <2>4. Settles(s, p, u, x)
    BY <1>1, <1>4, <2>2, <2>3 DEF Settles, rest
  <2>5. QED
    BY <1>1, <2>1, <2>2, <2>3, <2>4 DEF t, a, x, p
<1>10. QED
  BY <1>7, <1>8, <1>9

=============================================================================
