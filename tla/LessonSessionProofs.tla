------------------------- MODULE LessonSessionProofs -------------------------
(* Theorems about one curated-lessons pane and the stores its requests reach, *)
(* for any lessons, installations, requests and bounds: no submitted request  *)
(* is forgotten, reported as refused while a store decided it, or applied in  *)
(* two stores; what an editor compares a draft with was stored; what the tab  *)
(* was told is purged stays hidden; the snapshot of the tab can be read back; *)
(* and unsaved wording goes by the person's hand or with its record.          *)
EXTENDS LessonEditorProofs

------------------------------------------------------------------------------
(* What the session knows of its requests.                                    *)

\* What was told to be refused was decided nowhere and is sent no more.
Refusals ==
  \A r \in Requests : told[r] = "refused" =>
    /\ \A i \in Installs : decided[i][r] = Unused
    /\ \A n \in DOMAIN calls : calls[n].a.id = r => calls[n].host = "done"

\* A store that was not created has nothing.
Untouched ==
  \A i \in Installs \ made :
    /\ \A k \in Keys : record[i][k] = Absent
    /\ \A r \in Requests : decided[i][r] = Unused

\* What a request asks for fits the record it was composed for.
Fits(x) ==
  /\ x.change.kind = "capture" <=> x.change.revision = 0
  /\ x.change.kind \in {"capture", "edit"} => x.change.text \in Texts
  /\ x.origin = None => x.change.kind = "capture"

Submitted ==
  \A r \in Requests :
    IF asked[r] = None
    THEN /\ \A i \in Installs : decided[i][r] = Unused
         /\ \A n \in DOMAIN calls : calls[n].a.id # r
    ELSE Fits(asked[r])

\* An attempt names the store its request was composed for; one that names none
\* is the only one; what it was answered was decided.
Dispatched ==
  \A n \in DOMAIN calls :
    LET a == calls[n].a
        x == calls[n].answer
    IN /\ Asks(a.id, a.target) /\ a.pre = asked[a.id].origin /\ a.origin = a.pre
       /\ a.pre = None => \A m \in DOMAIN calls : calls[m].a.id = a.id => m = n
       /\ x # None => calls[n].host = "done"
       /\ x # None /\ x.state # "refused" =>
            /\ decided[x.inst][a.id] # Unused
            /\ x.state = "committed" => Made(x.inst, a.id, x.revision)

\* A decision was asked for, in one store, by an attempt that was carried out.
Executed(r) ==
  \E n \in DOMAIN calls :
    /\ calls[n].a.id = r /\ calls[n].host = "done"
    /\ calls[n].answer = None \/ calls[n].answer.state # "refused"

Decided ==
  \A i \in Installs, r \in Requests :
    /\ decided[i][r].state = "none" => decided[i][r] = Unused
    /\ decided[i][r].state = "committed" => Made(i, r, decided[i][r].revision)
    /\ decided[i][r] # Unused =>
         /\ asked[r] # None /\ asked[r].origin \in {None, i}
         /\ decided[i][r].revision <= Len(record[i][asked[r].key].log)
         /\ \A j \in Installs : decided[j][r] # Unused => i = j
         /\ Executed(r)

Ledger == Refusals /\ Untouched /\ Submitted /\ Dispatched /\ Decided

\* What a read or a lookup brings was stored, or decided.
ReadStored ==
  read # None /\ read.answered /\ read.view # None =>
    read.inst # None /\ read.view.revision > 0 /\ Wording(read.inst, read.target.key, read.view)

LookupDecided ==
  lookup # None =>
    /\ asked[lookup.id] # None
    /\ ~lookup.answered => lookup.state = "unknown"
    /\ lookup.answered /\ lookup.state # "unknown" =>
         /\ lookup.inst # None /\ decided[lookup.inst][lookup.id] # Unused
         /\ lookup.state = "committed" => Made(lookup.inst, lookup.id, lookup.revision)

\* A link is looked up in the store the pane browses.
Linking == route # None => block = None /\ pinned = route.bind

Invariant == TypeOK /\ Sound(ed) /\ Ledger /\ ReadStored /\ LookupDecided /\ Linking

\* A request that one store decided was decided by no other.
LEMMA DecidedOnce == Decided => OneStore
BY DEF Decided, OneStore

------------------------------------------------------------------------------
(* Steps of the pane, and what they leave alone.                              *)

\* A step that tells nothing and sends nothing.
LEMMA SoundKept ==
  ASSUME Sound(ed'), UNCHANGED <<asked, told, calls, record, decided>>
  PROVE  Sound(ed)'
<1>1. Shape(ed)'
  BY DEF Sound
<1>2. Anchored(ed)' /\ Stored(ed)'
  BY DEF Sound, Anchored, Asks, Met, Stored, Wording
<1>3. Attempted(ed)'
  BY DEF Sound, Attempted, IsOpen
<1>4. Tracks(ed)'
  BY DEF Sound, Tracks
<1>5. Buried(ed)'
  BY DEF Sound, Buried, Home
<1>6. QED
  BY <1>1, <1>2, <1>3, <1>4, <1>5 DEF Sound

\* A step that submits nothing and writes nothing.
LEMMA RootedKept ==
  ASSUME Rooted(ed'), UNCHANGED <<asked, record>>
  PROVE  Rooted(ed)'
<1>1. Shape(ed)'
  BY DEF Rooted
<1>2. Anchored(ed)' /\ Stored(ed)'
  BY DEF Rooted, Anchored, Asks, Met, Stored, Wording
<1>3. QED
  BY <1>1, <1>2 DEF Rooted

\* The request r was told to be purged, and its record is not shown.
BuriedIn(s, r) ==
  \E i \in Installs :
    /\ Home(r, i)
    /\ \/ s.tombstonesSaturated
       \/ \E x \in s.tombstones : x.key = asked[r].key /\ installationOf(x) = i
    /\ s.target # None /\ s.target.key = asked[r].key /\ s.phase # "purged" =>
         s.target.bind # Loc /\ ~Home(r, s.expected)

\* A step that settles requests: each has an outcome, and those that are purged
\* are buried.
LEMMA SoundTold ==
  ASSUME Sound(ed), Rooted(ed'), Attempted(ed)', UNCHANGED <<asked, record, decided>>,
         Tracked(ed') \subseteq Tracked(ed),
         \A r \in Requests : r \notin Tracked(ed) \ Tracked(ed') => told'[r] = told[r],
         \A r \in Tracked(ed) \ Tracked(ed') :
           told'[r] # None /\ (told'[r] = "purged" => BuriedIn(ed', r)),
         ed.tombstones \subseteq ed'.tombstones,
         ed.tombstonesSaturated => ed'.tombstonesSaturated,
         ed'.target # None /\ ed'.phase # "purged" =>
           /\ ed.target # None /\ ed.phase # "purged"
           /\ ed'.target.key = ed.target.key /\ ed'.target.bind = ed.target.bind
           /\ ed.target.bind # Loc => ed'.expected = ed.expected
  PROVE  Sound(ed)'
<1>1. Rooted(ed)'
  BY RootedKept
<1>2. \A r \in Tracked(ed) : r \in Requests /\ asked[r] # None
  <2>1. ed.pending # None => ed.pending.id \in Requests /\ asked[ed.pending.id] # None
    BY DEF Sound, Shape, Editors, Pendings, Anchored, Asks
  <2>2. \A u \in ed.unresolved : u.id \in Requests /\ asked[u.id] # None
    BY DEF Sound, Shape, Editors, Anchored, Asks
  <2>3. QED
    BY <2>1, <2>2 DEF Tracked
<1>3. Tracks(ed)'
  <2>1. SUFFICES ASSUME NEW r \in Requests
                 PROVE  /\ asked[r] # None /\ told'[r] = None => r \in Tracked(ed')
                        /\ told'[r] # None => asked[r] # None /\ r \notin Tracked(ed')
    BY DEF Tracks
  <2>2. /\ asked[r] # None /\ told[r] = None => r \in Tracked(ed)
        /\ told[r] # None => asked[r] # None /\ r \notin Tracked(ed)
    BY DEF Sound, Tracks
  <2>3. CASE r \in Tracked(ed) \ Tracked(ed')
    BY <1>2, <2>3
  <2>4. CASE r \notin Tracked(ed) \ Tracked(ed')
    BY <2>2, <2>4
  <2>5. QED
    BY <2>3, <2>4
<1>4. Buried(ed)'
  <2>1. SUFFICES ASSUME NEW r \in Requests, told'[r] = "purged"
                 PROVE  /\ \E i \in Installs :
                             /\ Home(r, i)
                             /\ \/ ed'.tombstonesSaturated
                                \/ \E x \in ed'.tombstones :
                                     x.key = asked[r].key /\ installationOf(x) = i
                        /\ ed'.target # None /\ ed'.target.key = asked[r].key
                           /\ ed'.phase # "purged" =>
                             /\ ed'.target.bind # Loc
                             /\ ~Home(r, ed'.expected)
    BY DEF Buried, Home
  <2>2. CASE r \in Tracked(ed) \ Tracked(ed')
    BY <2>1, <2>2 DEF BuriedIn
  <2>3. CASE r \notin Tracked(ed) \ Tracked(ed')
    <3>1. told[r] = "purged"
      BY <2>1, <2>3
    <3>2. PICK i \in Installs :
            /\ Home(r, i)
            /\ \/ ed.tombstonesSaturated
               \/ \E x \in ed.tombstones : x.key = asked[r].key /\ installationOf(x) = i
      BY <3>1 DEF Sound, Buried
    <3>3. ed.target # None /\ ed.target.key = asked[r].key /\ ed.phase # "purged" =>
            ed.target.bind # Loc /\ ~Home(r, ed.expected)
      BY <3>1 DEF Sound, Buried
    <3>4. QED
      BY <3>2, <3>3
  <2>4. QED
    BY <2>2, <2>3
<1>5. QED
  BY <1>1, <1>3, <1>4 DEF Sound, Rooted

\* A step after which the attempts are what they were, some of them reported.
Reported ==
  /\ DOMAIN calls' = DOMAIN calls
  /\ \A n \in DOMAIN calls :
       /\ calls'[n].a = calls[n].a /\ calls'[n].host = calls[n].host
       /\ calls'[n].answer \in {calls[n].answer, None}

\* They keep what is known of the requests.
LEMMA LedgerKept ==
  ASSUME Ledger, calls' = calls \/ Reported, UNCHANGED <<made, record, decided, asked>>,
         \A r \in Requests : told'[r] = "refused" =>
           \/ told[r] = "refused"
           \/ /\ \A i \in Installs : decided[i][r] = Unused
              /\ \A n \in DOMAIN calls : calls[n].a.id = r => calls[n].host = "done"
  PROVE  Ledger'
<1>0. Reported
  BY DEF Reported
<1>1. Refusals'
  BY <1>0 DEF Ledger, Refusals, Reported
<1>2. Untouched' /\ Submitted'
  <2>1. Untouched'
    BY DEF Ledger, Untouched
  <2>2. Submitted'
    BY <1>0 DEF Ledger, Submitted, Reported, Fits
  <2>3. QED
    BY <2>1, <2>2
<1>3. Dispatched'
  <2>1. SUFFICES ASSUME NEW n \in DOMAIN calls
                 PROVE  LET a == calls'[n].a
                            x == calls'[n].answer
                        IN /\ Asks(a.id, a.target) /\ a.pre = asked[a.id].origin /\ a.origin = a.pre
                           /\ a.pre = None => \A m \in DOMAIN calls : calls'[m].a.id = a.id => m = n
                           /\ x # None => calls'[n].host = "done"
                           /\ x # None /\ x.state # "refused" =>
                                /\ decided[x.inst][a.id] # Unused
                                /\ x.state = "committed" => Made(x.inst, a.id, x.revision)
    BY <1>0 DEF Dispatched, Reported, Asks, Made
  <2>2. QED
    BY <1>0, <2>1 DEF Ledger, Dispatched, Reported
<1>4. Decided'
  <2>1. \A r : Executed(r) => Executed(r)'
    BY <1>0 DEF Executed, Reported
  <2>2. QED
    BY <2>1 DEF Ledger, Decided, Made
<1>5. QED
  BY <1>1, <1>2, <1>3, <1>4 DEF Ledger

\* A step that keeps or drops what is read, looked up and linked.
LEMMA ReadsKept ==
  ASSUME ReadStored, LookupDecided, Linking,
         UNCHANGED <<record, decided, asked>>,
         read' = None \/ read' = read \/ ~read'.answered,
         lookup' \in {lookup, None},
         route' = None \/ UNCHANGED <<route, block, pinned>>
  PROVE  ReadStored' /\ LookupDecided' /\ Linking'
<1>1. ReadStored'
  BY DEF ReadStored, Wording
<1>2. LookupDecided'
  BY DEF LookupDecided, Made
<1>3. Linking'
  BY DEF Linking
<1>4. QED
  BY <1>1, <1>2, <1>3

------------------------------------------------------------------------------
(* The types of what a step assigns.                                          *)

\* A handshake that begins.
LEMMA HelloTyped == ASSUME NEW o \in Known, NEW d \in BOOLEAN PROVE Hello(o, d) \in Hellos
BY Zenon DEF Hello, Hellos, Known

\* The read of a record that is open has not been answered.
LEMMA FetchTyped ==
  ASSUME NEW s, Shape(s)
  PROVE  /\ Fetch(s) \in Reads \cup {None} /\ (Fetch(s) = None \/ ~Fetch(s).answered)
         /\ Detail(s) \in Reads \cup {None} /\ (Detail(s) = None \/ ~Detail(s).answered)
<1>1. CASE s.target = None \/ s.phase = "purged"
  BY <1>1 DEF Fetch, Detail
<1>2. CASE ~(s.target = None \/ s.phase = "purged")
  <2>1. /\ s.target \in Targets /\ s.expected \in Known /\ s.generation \in Nat
        /\ installationOf(s.target) \in Known /\ s.target.bind \in Installs \cup {Loc}
    BY <1>2, OpenTarget, InstallationOf DEF Shape, Editors
  <2>2. ReadBinding(s, s.target) \in Installs \cup {Loc}
    BY <2>1 DEF ReadBinding, Known
  <2> DEFINE f == [generation |-> s.generation, target |-> s.target, bind |-> ReadBinding(s, s.target),
                   answered |-> FALSE, inst |-> None, view |-> None]
  <2>3. f \in Reads /\ ~f.answered
    BY <2>1, <2>2 DEF Reads, Known
  <2>4. Fetch(s) = f
    BY <1>2 DEF Fetch
  <2>5. QED
    BY <2>3, <2>4 DEF Detail
<1>3. QED
  BY <1>1, <1>2

\* Giving up what is open changes nothing else of an attempt.
LEMMA HungTyped ==
  ASSUME calls \in Seq(Sends)
  PROVE  /\ Hung \in Seq(Sends) /\ DOMAIN Hung = DOMAIN calls
         /\ \A n \in DOMAIN calls : /\ Hung[n].a = calls[n].a /\ Hung[n].host = calls[n].host
                                    /\ Hung[n].answer = calls[n].answer
<1>1. \A n \in DOMAIN calls : [calls[n] EXCEPT !.open = FALSE] \in Sends
  <2>1. SUFFICES ASSUME NEW n \in DOMAIN calls PROVE [calls[n] EXCEPT !.open = FALSE] \in Sends
    OBVIOUS
  <2>2. calls[n] \in Sends
    OBVIOUS
  <2>3. QED
    BY <2>2 DEF Sends
<1>2. DOMAIN calls = 1 .. Len(calls) /\ Len(calls) \in Nat
  OBVIOUS
<1>3. Hung \in Seq(Sends)
  BY <1>1, <1>2 DEF Hung
<1>4. \A n \in DOMAIN calls : /\ Hung[n].a = calls[n].a /\ Hung[n].host = calls[n].host
                              /\ Hung[n].answer = calls[n].answer
  <2>1. SUFFICES ASSUME NEW n \in DOMAIN calls
                 PROVE  /\ Hung[n].a = calls[n].a /\ Hung[n].host = calls[n].host
                        /\ Hung[n].answer = calls[n].answer
    OBVIOUS
  <2>2. calls[n] \in Sends /\ Hung[n] = [calls[n] EXCEPT !.open = FALSE]
    BY DEF Hung
  <2>3. QED
    BY <2>2 DEF Sends
<1>5. QED
  BY <1>3, <1>4 DEF Hung

\* An attempt that is over is neither open nor answered any more.
Over(n) == [calls EXCEPT ![n].open = FALSE, ![n].answer = None]

\* Its types, and what it leaves alone.
LEMMA OverTyped ==
  ASSUME calls \in Seq(Sends), NEW n \in DOMAIN calls
  PROVE  /\ Over(n) \in Seq(Sends) /\ DOMAIN Over(n) = DOMAIN calls
         /\ \A m \in DOMAIN calls : /\ Over(n)[m].a = calls[m].a /\ Over(n)[m].host = calls[m].host
                                    /\ Over(n)[m].answer \in {calls[m].answer, None}
                                    /\ m # n => Over(n)[m] = calls[m]
<1> DEFINE c == [calls[n] EXCEPT !.open = FALSE, !.answer = None]
<1>1. calls[n] \in Sends
  OBVIOUS
<1>2. c \in Sends /\ c.a = calls[n].a /\ c.host = calls[n].host /\ c.answer = None
  BY <1>1 DEF Sends
<1> HIDE DEF c
<1>3. Over(n) = [calls EXCEPT ![n] = c]
  BY DEF Over, c
<1>4. [calls EXCEPT ![n] = c] \in Seq(Sends)
  BY <1>2
<1>5. QED
  BY <1>2, <1>3, <1>4

\* A step that drops no request tells nothing.
LEMMA NothingTold ==
  ASSUME TypeOK, NEW s, Tracked(s) = Tracked(ed), Settle(s, None)
  PROVE  told' = told
<1>1. told' = [r \in Requests |-> told[r]]
  BY DEF Settle
<1>2. QED
  BY <1>1 DEF TypeOK

\* What is left of a bound shrinks.
LEMMA SpendTyped ==
  ASSUME left \in Limits,
         NEW what \in {"requests", "rivals", "moves", "opens", "reloads", "links"}, Spend(what)
  PROVE  left' \in Limits
<1>1. left[what] \in Nat /\ left[what] - 1 \in Nat /\ left' = [left EXCEPT ![what] = left[what] - 1]
  BY DEF Spend, Limits
<1>2. QED
  BY <1>1 DEF Limits

\* What the invariant says of the editor.
LEMMA SessionFacts ==
  ASSUME Invariant
  PROVE  /\ ed \in Editors /\ Shape(ed) /\ Sound(ed) /\ OneStore /\ obs \in Observations \cup {None}
         /\ calls \in Seq(Sends) /\ Sending /\ made \subseteq Installs /\ here \in Known
         /\ TypeOK
<1>1. Sending
  BY DEF Invariant, Ledger, Dispatched, Sending
<1>2. QED
  BY <1>1, DecidedOnce DEF Invariant, Sound, Shape, TypeOK, Ledger, Known

\* The types of what only the pane has.
Browsing ==
  /\ obs \in Observations \cup {None} /\ pinned \in Known /\ block \in Blocks \cup {None}
  /\ held \in Known /\ seen \in Observations \cup {None} /\ hello \in Hellos \cup {None}
  /\ read \in Reads \cup {None} /\ lookup \in Lookups \cup {None} /\ route \in Routes \cup {None}

\* A step of the pane in which no request is submitted, sent or settled.
LEMMA QuietStep ==
  ASSUME Invariant, Browsing', left' \in Limits, UNCHANGED <<store, asked, told>>,
         Sound(ed'),
         \/ calls' = calls
         \/ Reported /\ calls' \in Seq(Sends) /\ Attempted(ed)',
         ReadStored', LookupDecided', Linking'
  PROVE  Invariant'
<1>1. UNCHANGED <<here, made, record, decided>>
  BY DEF store
<1>2. Rooted(ed)'
  BY <1>1, RootedKept DEF Sound, Rooted
<1>3. Attempted(ed)'
  <2>1. CASE calls' = calls
    BY <2>1 DEF Sound, Attempted, IsOpen
  <2>2. QED
    BY <2>1
<1>4. Tracks(ed)' /\ Buried(ed)'
  BY <1>1 DEF Sound, Tracks, Buried, Home
<1>5. Sound(ed)'
  BY <1>2, <1>3, <1>4 DEF Sound, Rooted
<1>6. TypeOK'
  BY <1>1, <1>5 DEF Invariant, TypeOK, Browsing, Sound, Shape
<1>7. Ledger'
  BY <1>1, LedgerKept DEF Invariant
<1>8. QED
  BY <1>5, <1>6, <1>7 DEF Invariant

\* The same, when nothing is read or looked up.
LEMMA PaneStep ==
  ASSUME Invariant, Browsing', left' \in Limits, UNCHANGED <<store, asked, told>>,
         Sound(ed'),
         \/ calls' = calls
         \/ Reported /\ calls' \in Seq(Sends) /\ Attempted(ed)',
         read' = None \/ read' = read \/ ~read'.answered,
         lookup' \in {lookup, None},
         route' = None \/ UNCHANGED <<route, block, pinned>>
  PROVE  Invariant'
<1>1. UNCHANGED <<record, decided, asked>>
  BY DEF store
<1>2. ReadStored' /\ LookupDecided' /\ Linking'
  BY <1>1, ReadsKept DEF Invariant
<1>3. QED
  BY <1>2, QuietStep

\* Giving up every attempt leaves the editor with no saving request that was sent.
LEMMA HungAttempted ==
  ASSUME calls \in Seq(Sends), calls' = Hung,
         ed'.pending # None /\ ed'.phase = "saving" =>
           \A n \in DOMAIN calls : calls[n].a.id # ed'.pending.id
  PROVE  Reported /\ calls' \in Seq(Sends) /\ Attempted(ed)'
<1>1. /\ Hung \in Seq(Sends) /\ DOMAIN Hung = DOMAIN calls
      /\ \A n \in DOMAIN calls : /\ Hung[n].a = calls[n].a /\ Hung[n].host = calls[n].host
                                 /\ Hung[n].answer = calls[n].answer
  BY HungTyped
<1> HIDE DEF Hung
<1>2. QED
  BY <1>1 DEF Reported, Attempted

------------------------------------------------------------------------------
(* The handshake.                                                             *)

\* The host says which store is at the location.
LEMMA HandshakeAnsweredStep == ASSUME Invariant, HandshakeAnswered PROVE Invariant'
<1>1. hello' \in Hellos
  BY SessionFacts DEF HandshakeAnswered, Invariant, TypeOK, Hellos
<1>2. /\ UNCHANGED <<ed, obs, calls, pinned, block, held, seen, store, asked, told, left>>
      /\ UNCHANGED <<read, lookup, route>>
  BY DEF HandshakeAnswered, SameContext
<1>3. Browsing' /\ left' \in Limits /\ Sound(ed')
  BY <1>1, <1>2, SessionFacts DEF Browsing, TypeOK
<1>4. QED
  BY <1>2, <1>3, PaneStep

\* The person asks for what is new.
LEMMA RefreshStep == ASSUME Invariant, Refresh PROVE Invariant'
<1>1. hello' \in Hellos
  BY HelloTyped DEF Refresh, Known
<1>2. /\ UNCHANGED <<ed, obs, calls, pinned, block, held, seen, store, asked, told, left>>
      /\ UNCHANGED <<read, lookup, route>>
  BY DEF Refresh, SameContext
<1>3. Browsing' /\ left' \in Limits /\ Sound(ed')
  BY <1>1, <1>2, SessionFacts DEF Browsing, TypeOK
<1>4. QED
  BY <1>2, <1>3, PaneStep

\* A read fails.
LEMMA ReadFailsStep == ASSUME Invariant, ReadFails PROVE Invariant'
<1>1. /\ UNCHANGED <<ed, obs, calls, pinned, block, held, seen, store, asked, told, left>>
      /\ hello' \in {hello, None} /\ read' \in {read, None} /\ lookup' \in {lookup, None}
      /\ route' \in {route, None}
  BY DEF ReadFails, SameContext
<1>2. Browsing' /\ left' \in Limits /\ Sound(ed')
  BY <1>1, SessionFacts DEF Browsing, TypeOK
<1>3. QED
  BY <1>1, <1>2, PaneStep

\* The pane lets go of an installation the host refused.
LEMMA RevokeStep == ASSUME Invariant, RevokeForIdentity PROVE Invariant'
<1>1. /\ ed' = Connected(ed) /\ calls' = Hung /\ obs' = None /\ seen' = None /\ hello' = None
      /\ read' = None /\ lookup' = None /\ route' = None
      /\ UNCHANGED <<pinned, held, store, asked, told, left>>
  BY DEF RevokeForIdentity, NewContext
<1>2. block' \in Blocks
  BY SessionFacts DEF RevokeForIdentity, TypeOK, Blocks, Known, Editors
<1>3. /\ Sound(Connected(ed))
      /\ Connected(ed).pending # None /\ Connected(ed).phase = "saving" =>
           \A n \in DOMAIN calls : calls[n].a.id # Connected(ed).pending.id
  BY SessionFacts, ConnectedSound
<1>4. Browsing' /\ left' \in Limits /\ Sound(ed')
  BY <1>1, <1>2, <1>3, SessionFacts DEF Browsing, TypeOK, Known
<1>5. Reported /\ calls' \in Seq(Sends) /\ Attempted(ed)'
  BY <1>1, <1>3, SessionFacts, HungAttempted
<1>6. QED
  BY <1>1, <1>4, <1>5, PaneStep

\* What the pane holds against a store.
LEMMA BlockTyped ==
  ASSUME TypeOK, NEW current \in Known, NEW pin \in Known
  PROVE  BlockFor(current, pin) \in Blocks \cup {None}
<1>1. (IF ed.target # None THEN ed.expected ELSE held) \in Known
  BY DEF TypeOK, Editors
<1>2. \A e \in Known : [expected |-> e, current |-> current] \in Blocks
  BY DEF Blocks
<1>3. QED
  BY <1>1, <1>2 DEF BlockFor, Known

\* An observation lets a request and its phase be, unless the record is purged.
LEMMA ObserveKeeps ==
  ASSUME NEW s \in Editors, NEW o
  PROVE  LET t == observeStore(s, o) IN
         t.pending = None \/ (t.pending = s.pending /\ t.phase = s.phase)
<1>1. \A e : LET q == quarantine([s EXCEPT !.expected = e])
             IN q.pending = s.pending /\ q.phase = s.phase
  BY DEF quarantine, Editors
<1>2. LET q == [s EXCEPT !.gate = "unverified", !.loaded = None]
      IN q.pending = s.pending /\ q.phase = s.phase
  BY DEF Editors
<1>3. LET v == Verified(s, o) IN v.pending = None \/ (v.pending = s.pending /\ v.phase = s.phase)
  <2> DEFINE target == IF o.inst = None \/ s.target.bind # Loc
                       THEN s.target ELSE [s.target EXCEPT !.inst = o.inst]
             gate == IF s.gate \notin {"unverified", "mismatch"} THEN s.gate
                     ELSE IF s.mode = "capture" /\ s.pending = None /\ ~s.needsFreshDetail
                          THEN "ready" ELSE "reading"
             expected == IF Expected(s) # None THEN Expected(s) ELSE o.inst
             generation == IF s.gate = "mismatch" THEN s.generation + 1 ELSE s.generation
             t == [s EXCEPT !.target = target, !.gate = gate, !.expected = expected,
                            !.generation = generation]
             b == [t EXCEPT !.loaded = None, !.base = None, !.draft = None,
                            !.pending = None, !.blocked = None, !.phase = "purged"]
  <2>1. Verified(s, o) = IF isTombstoned(t, target) THEN addTombstone(b, target) ELSE t
    BY DEF Verified, purge
  <2> HIDE DEF target, gate, expected, generation
  <2>2. t.pending = s.pending /\ t.phase = s.phase /\ DOMAIN t = DOMAIN s
    BY DEF Editors
  <2> HIDE DEF t
  <2>3. b.pending = None
    BY <2>2 DEF Editors
  <2>4. DOMAIN b = DOMAIN t
    OBVIOUS
  <2> HIDE DEF b
  <2>5. addTombstone(b, target).pending = None
    BY <2>2, <2>3, <2>4 DEF addTombstone, Editors
  <2>6. QED
    BY <2>1, <2>2, <2>5
<1>4. QED
  BY <1>1, <1>2, <1>3 DEF observeStore

\* The pane learns which store is at the location, and may be blocked.
LEMMA HandshakeDoneStep == ASSUME Invariant, HandshakeDone PROVE Invariant'
<1> DEFINE current == hello.inst
           expected == IF ed.target # None THEN ed.expected ELSE held
           accepting == hello.offered # None /\ ed.target = None /\ current = hello.offered
           pin == IF accepting THEN hello.offered ELSE pinned
           blocked == BlockFor(current, pin)
           revoked == IF blocked # None THEN Connected(ed) ELSE ed
           o == [inst |-> current]
           next == observeStore(revoked, o)
<1>1. hello \in Hellos /\ current \in Known /\ hello.offered \in Known /\ o \in Observations
  BY SessionFacts DEF HandshakeDone, TypeOK, Hellos, Observations
<1>2. expected \in Known /\ pin \in Known /\ pinned \in Known
  BY <1>1, SessionFacts DEF TypeOK, Editors
<1>3. blocked \in Blocks \cup {None}
  BY <1>1, <1>2, SessionFacts, BlockTyped
<1>4. /\ Sound(revoked) /\ Tracked(revoked) = Tracked(ed)
      /\ blocked # None => (revoked.pending # None /\ revoked.phase = "saving" =>
                              \A n \in DOMAIN calls : calls[n].a.id # revoked.pending.id)
  <2>1. CASE blocked # None
    BY <2>1, SessionFacts, ConnectedSound
  <2>2. CASE blocked = None
    BY <2>2, SessionFacts
  <2>3. QED
    BY <2>1, <2>2
<1>5. /\ ed' = next /\ obs' = o /\ seen' = o /\ Settle(next, None)
      /\ calls' = (IF blocked # None THEN Hung ELSE calls)
      /\ block' = blocked /\ hello' = None /\ held' \in {None, held}
      /\ pinned' \in {pin, expected, current}
      /\ read' \in {Fetch(next), read, None}
      /\ lookup' \in {lookup, None} /\ route' \in {route, None}
      /\ route' = None \/ (pinned' = pinned /\ block' = block)
      /\ UNCHANGED <<store, asked, left>>
  BY DEF HandshakeDone
<1> HIDE DEF blocked, pin, expected, current, o, revoked
<1>6. /\ Sound(next) /\ Tracked(next) = Tracked(ed)
  BY <1>1, <1>4, ObserveSound
<1>7. revoked \in Editors /\ Shape(next)
  BY <1>4, <1>6 DEF Sound, Shape
<1>8. next.pending = None \/ (next.pending = revoked.pending /\ next.phase = revoked.phase)
  BY <1>7, ObserveKeeps
<1>9. Fetch(next) \in Reads \cup {None} /\ (Fetch(next) = None \/ ~Fetch(next).answered)
  BY <1>7, FetchTyped
<1> HIDE DEF next
<1>10. told' = told
  BY <1>5, <1>6, SessionFacts, NothingTold
<1>11. Browsing' /\ left' \in Limits
  BY <1>1, <1>2, <1>3, <1>5, <1>9, SessionFacts DEF Browsing, TypeOK, Known, pin, current
<1>12. \/ calls' = calls
       \/ Reported /\ calls' \in Seq(Sends) /\ Attempted(ed)'
  <2>1. CASE blocked = None
    BY <1>5, <2>1
  <2>2. CASE blocked # None
    BY <1>4, <1>5, <1>8, <2>2, SessionFacts, HungAttempted
  <2>3. QED
    BY <2>1, <2>2
<1>13. QED
  BY <1>5, <1>6, <1>9, <1>10, <1>11, <1>12, PaneStep

------------------------------------------------------------------------------
(* Records that are closed and opened.                                        *)

\* The record is closed, when it is, by one controller or the next.
LEMMA ClosedFacts ==
  ASSUME Invariant, NEW d \in BOOLEAN
  PROVE  /\ Sound(ClosedBy(d)) /\ ClosedBy(d) \in Editors /\ Shape(ClosedBy(d))
         /\ ClosedBy(d).target = None => ClosedBy(d).pending = None
<1>1. Sound(ClosedBy(d))
  BY SessionFacts, ClosedBySound
<1>2. QED
  BY <1>1 DEF Sound, Shape, Placed

\* With no request in the editor, none of its attempts matters.
LEMMA AfterClose ==
  ASSUME Invariant, calls' \in {calls, Hung}, calls' = calls \/ ed'.pending = None
  PROVE  \/ calls' = calls
         \/ Reported /\ calls' \in Seq(Sends) /\ Attempted(ed)'
BY SessionFacts, HungAttempted

\* The record that is open is closed.
LEMMA CloseEditorStep == ASSUME Invariant, CloseEditor PROVE Invariant'
<1> DEFINE next == ClosedBy(needsPrompt)
<1>1. /\ Sound(next) /\ next \in Editors /\ (next.target = None => next.pending = None)
  <2>1. needsPrompt \in BOOLEAN
    BY DEF needsPrompt
  <2>2. QED
    BY <2>1, ClosedFacts
<1>2. /\ ed' = next /\ ed.target # None
      /\ UNCHANGED <<obs, pinned, block, seen, store, asked, told, left>>
      /\ \/ /\ next.target = None /\ calls' \in {calls, Hung} /\ held' = HeldAfterClose
            /\ hello' \in {hello, Hello(None, FALSE)}
            /\ read' = None /\ lookup' = None /\ route' = None
         \/ calls' = calls /\ UNCHANGED <<held, hello, read, lookup, route>>
  BY DEF CloseEditor, NewContext, SameContext, CallsAfterClose
<1> HIDE DEF next
<1>3. HeldAfterClose \in Known
  BY <1>2, SessionFacts, InstallationOf DEF HeldAfterClose, TypeOK, Editors
<1>4. Hello(None, FALSE) \in Hellos
  BY HelloTyped DEF Known
<1>5. Browsing' /\ left' \in Limits
  BY <1>2, <1>3, <1>4, SessionFacts DEF Browsing, TypeOK
<1>6. QED
  BY <1>1, <1>2, <1>5, AfterClose, PaneStep

\* The pane leaves the installation it held.
LEMMA BrowseStep == ASSUME Invariant, BrowseCurrentInstead PROVE Invariant'
<1> DEFINE next == ClosedBy(needsPrompt)
<1>1. /\ Sound(next) /\ next \in Editors /\ (next.target = None => next.pending = None)
  <2>1. needsPrompt \in BOOLEAN
    BY DEF needsPrompt
  <2>2. QED
    BY <2>1, ClosedFacts
<1>2. /\ ed' = next /\ next.target = None /\ block # None
      /\ UNCHANGED <<obs, pinned, block, seen, store, asked, told, left>>
      /\ calls' \in {calls, Hung} /\ held' = None /\ hello' = Hello(block.current, FALSE)
      /\ read' = None /\ lookup' = None /\ route' = None
  BY DEF BrowseCurrentInstead, NewContext, CallsAfterClose
<1> HIDE DEF next
<1>3. hello' \in Hellos
  BY <1>2, HelloTyped, SessionFacts DEF TypeOK, Blocks
<1>4. Browsing' /\ left' \in Limits
  BY <1>2, <1>3, SessionFacts DEF Browsing, TypeOK, Known
<1>5. QED
  BY <1>1, <1>2, <1>4, AfterClose, PaneStep

\* What an opened record leaves of a request is nothing, when none was open.
LEMMA OpensIdle ==
  ASSUME NEW s, Sound(s), s.target = None, OneStore, NEW nav, Leads(nav),
         NEW o \in Observations \cup {None}
  PROVE  Navigated(s, nav, o).pending = None
<1>1. s \in Editors /\ s.pending = None /\ ~isLessonEditorDirty(s)
  BY DEF Sound, Shape, Placed, isLessonEditorDirty
<1>2. Sound(requestNavigation(s, nav)) /\ requestNavigation(s, nav) = navigate(s, nav)
  BY <1>1, RequestSound DEF requestNavigation
<1>3. Cleared(s).pending = None /\ DOMAIN Cleared(s) = DOMAIN initialLessonEditor
  BY DEF Cleared, initialLessonEditor
<1>4. Opened(Cleared(s), nav).pending = None
  BY <1>3, Zenon DEF Opened, initialLessonEditor
<1>5. [s EXCEPT !.blocked = None].pending = None
  BY <1>1 DEF Editors
<1>6. navigate(s, nav).pending = None
  BY <1>3, <1>4, <1>5 DEF navigate
<1>7. navigate(s, nav) \in Editors
  BY <1>2 DEF Sound, Shape
<1>8. observeStore(navigate(s, nav), o).pending = None
  BY <1>6, <1>7, ObserveKeeps
<1>9. QED
  BY <1>1, <1>2, <1>8 DEF Navigated

\* The state a change that was asked for starts from.
LEMMA ReleasedFacts ==
  ASSUME Invariant, needsPrompt => Released.target = None
  PROVE  /\ Sound(Released) /\ Released \in Editors /\ ~isLessonEditorDirty(Released)
         /\ needsPrompt => Released.pending = None
<1>1. CASE needsPrompt
  <2>1. Released = ClosedBy(TRUE)
    BY <1>1 DEF Released
  <2>2. Sound(Released) /\ Released \in Editors /\ Released.pending = None /\ Shape(Released)
    BY <1>1, <2>1, ClosedFacts
  <2>3. ~isLessonEditorDirty(Released)
    BY <1>1, <2>2 DEF Shape, Placed, isLessonEditorDirty
  <2>4. QED
    BY <2>2, <2>3
<1>2. CASE ~needsPrompt
  BY <1>2, SessionFacts DEF Released, needsPrompt
<1>3. QED
  BY <1>1, <1>2

\* A record is opened.
LEMMA OpeningStep ==
  ASSUME Invariant, needsPrompt => Released.target = None, NEW nav, Leads(nav), nav # Close,
         calls' = (IF needsPrompt THEN CallsAfterClose ELSE calls), Opening(nav, Released),
         left' \in Limits
  PROVE  Invariant'
<1> DEFINE next == Navigated(Released, nav, obs)
<1>1. /\ Sound(Released) /\ Released \in Editors /\ ~isLessonEditorDirty(Released)
      /\ needsPrompt => Released.pending = None
  BY ReleasedFacts
<1>2. Sound(next)
  BY <1>1, SessionFacts, NavigatedSound
<1>3. needsPrompt => next.pending = None
  BY <1>1, SessionFacts, OpensIdle
<1>4. /\ ed' = next /\ UNCHANGED <<obs, pinned, block, held, seen, hello, store, asked, told>>
      /\ \/ read' \in {Detail(next), None} /\ lookup' = None /\ route' = None
         \/ UNCHANGED <<read, lookup, route>>
  BY DEF Opening, SameContext
<1> HIDE DEF next
<1>5. Detail(next) \in Reads \cup {None} /\ (Detail(next) = None \/ ~Detail(next).answered)
  BY <1>2, FetchTyped DEF Sound
<1>6. Browsing'
  BY <1>4, <1>5, SessionFacts DEF Browsing, TypeOK
<1>7. calls' \in {calls, Hung} /\ (calls' = calls \/ ed'.pending = None)
  BY <1>3, <1>4 DEF CallsAfterClose
<1>8. QED
  BY <1>2, <1>4, <1>5, <1>6, <1>7, AfterClose, PaneStep

\* What a lesson and a capture lead to.
LEMMA LeadsTo ==
  ASSUME NEW k \in Keys
  PROVE  /\ \A b \in Installs : LET nav == [type |-> "lesson", target |-> Target(b, k)]
                                IN  Leads(nav) /\ nav # Close
         /\ ~Met(k) => \A b \in Installs \cup {Loc} :
                         LET nav == [type |-> "capture", target |-> Target(b, k)]
                         IN  Leads(nav) /\ nav # Close
<1>1. \A b \in Installs \cup {Loc} : /\ Target(b, k) \in Targets /\ Target(b, k).inst = None
                                     /\ Target(b, k).bind = b /\ Target(b, k).key = k
  BY DEF Target, Targets, Known
<1>2. \A b \in Installs : LET nav == [type |-> "lesson", target |-> Target(b, k)]
                          IN  Leads(nav) /\ nav # Close
  <2>1. SUFFICES ASSUME NEW b \in Installs
                 PROVE  LET nav == [type |-> "lesson", target |-> Target(b, k)]
                        IN  Leads(nav) /\ nav # Close
    OBVIOUS
  <2>2. Target(b, k) \in Targets /\ Target(b, k).inst = None /\ Target(b, k).bind # Loc
    BY <1>1, NoneApart
  <2> HIDE DEF Target
  <2>3. [type |-> "lesson", target |-> Target(b, k)] # Close
    <3>1. [type |-> "lesson", target |-> Target(b, k)].type = "lesson" /\ Close.type = "close"
      BY DEF Close
    <3>2. QED
      BY <3>1
  <2>4. QED
    BY <2>2, <2>3 DEF Leads
<1>3. ASSUME ~Met(k), NEW b \in Installs \cup {Loc}
      PROVE  LET nav == [type |-> "capture", target |-> Target(b, k)]
             IN  Leads(nav) /\ nav # Close
  <2>1. [type |-> "capture", target |-> Target(b, k)] # Close
    <3>1. [type |-> "capture", target |-> Target(b, k)].type = "capture" /\ Close.type = "close"
      BY DEF Close
    <3>2. QED
      BY <3>1
  <2>2. QED
    BY <1>1, <1>3, <2>1 DEF Leads
<1>4. QED
  BY <1>2, <1>3

\* The binding of a pane that browses.
LEMMA BindingTyped == ASSUME TypeOK, Binding # None PROVE Binding \in Installs \cup {Loc}
BY DEF Binding, TypeOK, Known

\* A record of the list is opened.
LEMMA OpenLessonStep == ASSUME Invariant, NEW k \in Keys, OpenLesson(k) PROVE Invariant'
<1>1. Binding \in Installs
  BY SessionFacts DEF OpenLesson, Listed
<1>2. left' \in Limits
  BY SessionFacts, SpendTyped DEF OpenLesson, TypeOK
<1>3. QED
  BY <1>1, <1>2, LeadsTo, OpeningStep DEF OpenLesson

\* A new record is begun.
LEMMA StartCaptureStep == ASSUME Invariant, NEW k \in Keys, StartCapture(k) PROVE Invariant'
<1>1. Binding \in Installs \cup {Loc}
  BY SessionFacts, BindingTyped DEF StartCapture
<1>2. ~Met(k)
  BY NoneApart DEF StartCapture, Taken, Met
<1>3. left' \in Limits
  BY SessionFacts, SpendTyped DEF StartCapture, TypeOK
<1>4. QED
  BY <1>1, <1>2, <1>3, LeadsTo, OpeningStep DEF StartCapture

\* A link is followed,
LEMMA FollowLinkStep == ASSUME Invariant, NEW k \in Keys, FollowLink(k) PROVE Invariant'
<1>1. /\ Sound(Released) /\ Released \in Editors
      /\ needsPrompt => Released.pending = None
  BY ReleasedFacts DEF FollowLink
<1>2. /\ ed' = Released /\ calls' \in {calls, Hung} /\ (calls' = calls \/ ed'.pending = None)
      /\ read' = None /\ lookup' = None /\ hello' = None
      /\ route' = [key |-> k, bind |-> pinned] /\ pinned # None /\ block = None
      /\ UNCHANGED <<obs, pinned, block, held, seen, store, asked, told>>
  BY <1>1 DEF FollowLink, CallsAfterClose
<1>3. left' \in Limits
  BY SessionFacts, SpendTyped DEF FollowLink, TypeOK
<1>4. Browsing'
  BY <1>2, SessionFacts DEF Browsing, TypeOK, Known, Routes
<1>5. ReadStored' /\ LookupDecided' /\ Linking'
  BY <1>2 DEF ReadStored, LookupDecided, Linking
<1>6. QED
  BY <1>1, <1>2, <1>3, <1>4, <1>5, AfterClose, QuietStep

\* ... and its record opened when it is found.
LEMMA LinkLocatedStep == ASSUME Invariant, LinkLocated PROVE Invariant'
<1> DEFINE nav == [type |-> "lesson", target |-> Target(Binding, route.key)]
           next == Navigated(ed, nav, obs)
<1>1. route.key \in Keys /\ route.bind \in Installs /\ Binding = route.bind
  BY SessionFacts, NoneApart DEF LinkLocated, Invariant, Linking, TypeOK, Routes, Binding
<1>2. Leads(nav) /\ nav.type # "capture"
  BY <1>1, LeadsTo
<1>3. Sound(next)
  BY <1>2, SessionFacts, NavigatedSound
<1>4. /\ ed' = next /\ calls' = calls /\ left' = left
      /\ read' \in {Detail(next), read} /\ lookup' \in {None, lookup} /\ route' = None
      /\ UNCHANGED <<obs, pinned, block, held, seen, hello, store, asked, told>>
  BY DEF LinkLocated
<1> HIDE DEF next
<1>5. Detail(next) \in Reads \cup {None} /\ (Detail(next) = None \/ ~Detail(next).answered)
  BY <1>3, FetchTyped DEF Sound
<1>6. Browsing' /\ left' \in Limits
  BY <1>4, <1>5, SessionFacts DEF Browsing, TypeOK
<1>7. QED
  BY <1>3, <1>4, <1>5, <1>6, PaneStep

------------------------------------------------------------------------------
(* Drafts, and the reload of the page.                                        *)

\* The person types.
LEMMA EditTextStep == ASSUME Invariant, NEW t \in Texts, EditText(t) PROVE Invariant'
<1>1. Sound(ed')
  BY SessionFacts, EditSound DEF EditText
<1>2. /\ UNCHANGED <<obs, calls, pinned, block, held, seen, hello, store, asked, told, left>>
      /\ UNCHANGED <<read, lookup, route>>
  BY DEF EditText, SameContext
<1>3. Browsing' /\ left' \in Limits
  BY <1>2, SessionFacts DEF Browsing, TypeOK
<1>4. QED
  BY <1>1, <1>2, <1>3, PaneStep

\* Changes are discarded.
LEMMA CancelEditStep == ASSUME Invariant, CancelEdit PROVE Invariant'
<1>1. Sound(ed')
  BY SessionFacts, DiscardedSound DEF CancelEdit
<1>2. /\ UNCHANGED <<obs, calls, pinned, block, held, seen, hello, store, asked, told, left>>
      /\ UNCHANGED <<read, lookup, route>>
  BY DEF CancelEdit, SameContext
<1>3. Browsing' /\ left' \in Limits
  BY <1>2, SessionFacts DEF Browsing, TypeOK
<1>4. QED
  BY <1>1, <1>2, <1>3, PaneStep

\* A draft is put on the version that was read.
LEMMA RebaseStep == ASSUME Invariant, Rebase PROVE Invariant'
<1>1. ed.phase # "purged"
  BY SessionFacts DEF Rebase, CanRebase, isLessonEditorStale, Shape, Closed
<1>2. Sound(ed')
  BY <1>1, SessionFacts, RebaseSound DEF Rebase
<1>3. /\ UNCHANGED <<obs, calls, pinned, block, held, seen, hello, store, asked, told, left>>
      /\ UNCHANGED <<read, lookup, route>>
  BY DEF Rebase, SameContext
<1>4. Browsing' /\ left' \in Limits
  BY <1>3, SessionFacts DEF Browsing, TypeOK
<1>5. QED
  BY <1>2, <1>3, <1>4, PaneStep

\* The page is reloaded.
LEMMA ReloadStep == ASSUME Invariant, Reload PROVE Invariant'
<1> DEFINE fresh == Disconnected(initialLessonEditor)
           next == hydrate(fresh, snapshotLessonEditor(ed))
<1>1. Hydratable(snapshotLessonEditor(ed))
  BY SessionFacts, SnapshotHydratable
<1>2. fresh.generation \in Nat
  BY DEF Disconnected, initialLessonEditor
<1> HIDE DEF fresh
<1>3. Sound(next) /\ (next.pending # None => next.phase = "unknown")
  BY <1>2, SessionFacts, HydratedSound
<1>4. /\ ed' = next /\ obs' = None /\ calls' = Hung
      /\ pinned' = None /\ block' = None /\ held' = None /\ seen' = None
      /\ hello' = Hello(None, TRUE) /\ read' = None /\ lookup' = None /\ route' = None
      /\ UNCHANGED <<store, asked, told>>
  BY <1>1 DEF Reload, NewContext, fresh
<1> HIDE DEF next
<1>5. left' \in Limits
  BY SessionFacts, SpendTyped DEF Reload, TypeOK
<1>6. hello' \in Hellos
  BY <1>4, HelloTyped DEF Known
<1>7. Browsing'
  BY <1>4, <1>6 DEF Browsing, Known
<1>8. Reported /\ calls' \in Seq(Sends) /\ Attempted(ed)'
  BY <1>3, <1>4, SessionFacts, HungAttempted
<1>9. QED
  BY <1>3, <1>4, <1>5, <1>7, <1>8, PaneStep

------------------------------------------------------------------------------
(* What the host answers to a read.                                           *)

\* The store's view of a record is what it has.
LEMMA ViewStored ==
  ASSUME TypeOK, NEW i \in Known, NEW k \in Keys
  PROVE  /\ View(i, k) \in Views \cup {None}
         /\ View(i, k) # None => /\ i # None /\ View(i, k).revision > 0
                                 /\ Wording(i, k, View(i, k))
<1>1. CASE i = None \/ record[i][k].log = <<>>
  BY <1>1 DEF View
<1>2. CASE ~(i = None \/ record[i][k].log = <<>>)
  <2> DEFINE log == record[i][k].log
             v == [revision |-> Len(log), text |-> log[Len(log)], purged |-> record[i][k].purged]
  <2>1. i \in Installs /\ record[i][k] \in Records
    BY <1>2 DEF TypeOK, Known
  <2>2. log \in Seq(Texts) /\ record[i][k].purged \in BOOLEAN /\ log # <<>>
    BY <1>2, <2>1 DEF Records
  <2>3. View(i, k) = v
    BY <1>2 DEF View
  <2> HIDE DEF log
  <2>4. Len(log) \in Nat /\ Len(log) > 0 /\ log[Len(log)] \in Texts
    BY <2>2
  <2>5. v \in Views /\ v.revision = Len(log) /\ v.text = log[Len(log)]
    <3>1. v.purged = record[i][k].purged
      OBVIOUS
    <3>2. QED
      BY <2>2, <2>4 DEF Views
  <2>6. QED
    BY <1>2, <2>3, <2>4, <2>5 DEF Wording, log
<1>3. QED
  BY <1>1, <1>2

\* The host reads a record.
LEMMA DetailAnsweredStep == ASSUME Invariant, DetailAnswered PROVE Invariant'
<1> DEFINE view == View(here, read.target.key)
<1>1. read \in Reads /\ read.target.key \in Keys /\ here \in Known
  BY SessionFacts DEF DetailAnswered, TypeOK, Reads, Targets
<1>2. /\ view \in Views \cup {None}
      /\ view # None => /\ here # None /\ view.revision > 0 /\ Wording(here, read.target.key, view)
  BY <1>1, SessionFacts, ViewStored
<1>3. /\ read' = [read EXCEPT !.answered = TRUE, !.inst = here, !.view = view]
      /\ UNCHANGED <<ed, obs, calls, pinned, block, held, seen, hello, lookup, route,
                     store, asked, told, left>>
  BY DEF DetailAnswered
<1> HIDE DEF view
<1>4. read' \in Reads /\ read'.inst = here /\ read'.view = view /\ read'.target = read.target
  BY <1>1, <1>2, <1>3 DEF Reads
<1>5. Browsing' /\ left' \in Limits /\ Sound(ed')
  BY <1>3, <1>4, SessionFacts DEF Browsing, TypeOK
<1>6. ReadStored'
  BY <1>2, <1>3, <1>4 DEF ReadStored, Wording, store
<1>7. LookupDecided' /\ Linking'
  BY <1>3 DEF Invariant, LookupDecided, Linking, Made, store
<1>8. QED
  BY <1>3, <1>5, <1>6, <1>7, QuietStep

\* The pane asks what became of a request,
LEMMA CheckOutcomeStep == ASSUME Invariant, CheckOutcome PROVE Invariant'
<1> DEFINE p == ed.pending
           bind == IF installationOf(p.target) # None THEN installationOf(p.target) ELSE p.target.bind
           new == [id |-> p.id, generation |-> p.generation, target |-> p.target, bind |-> bind,
                   answered |-> FALSE, inst |-> None, state |-> "unknown", revision |-> 0]
<1>1. p \in Pendings /\ asked[p.id] # None
  BY SessionFacts DEF CheckOutcome, Editors, Sound, Anchored, Asks
<1>2. /\ lookup' = new
      /\ UNCHANGED <<ed, obs, calls, pinned, block, held, seen, hello, read, route,
                     store, asked, told, left>>
  BY DEF CheckOutcome
<1>3. p.id \in Requests /\ p.generation \in Nat /\ p.target \in Targets /\ bind \in Installs \cup {Loc}
  BY <1>1, InstallationOf DEF Pendings, Known
<1> HIDE DEF bind, p
<1>4. new \in Lookups /\ new.id = p.id /\ ~new.answered /\ new.state = "unknown"
  BY <1>3 DEF Lookups, Known
<1> HIDE DEF new
<1>5. Browsing' /\ left' \in Limits /\ Sound(ed')
  BY <1>2, <1>4, SessionFacts DEF Browsing, TypeOK
<1>6. ReadStored' /\ Linking'
  BY <1>2 DEF Invariant, ReadStored, Wording, Linking, store
<1>7. LookupDecided'
  BY <1>1, <1>2, <1>4 DEF LookupDecided, p
<1>8. QED
  BY <1>2, <1>5, <1>6, <1>7, QuietStep

\* ... and its store says so.
LEMMA OutcomeAnsweredStep == ASSUME Invariant, OutcomeAnswered PROVE Invariant'
<1> DEFINE d == decided[here][lookup.id]
           state == IF d.state = "none" THEN "unknown" ELSE d.state
<1>1. lookup \in Lookups /\ here \in Known /\ asked[lookup.id] # None /\ lookup.state = "unknown"
  BY SessionFacts DEF OutcomeAnswered, TypeOK, Invariant, LookupDecided
<1>2. UNCHANGED <<ed, obs, calls, pinned, block, held, seen, hello, read, route,
                  store, asked, told, left>>
  BY DEF OutcomeAnswered
<1>3. /\ lookup' \in Lookups /\ asked[lookup'.id] # None /\ lookup'.answered
      /\ lookup'.state # "unknown" =>
           /\ lookup'.inst # None /\ decided[lookup'.inst][lookup'.id] # Unused
           /\ lookup'.state = "committed" => Made(lookup'.inst, lookup'.id, lookup'.revision)
  <2>1. CASE here = None
    <3>1. lookup' = [lookup EXCEPT !.answered = TRUE]
      BY <2>1 DEF OutcomeAnswered
    <3>2. lookup' \in Lookups /\ lookup'.id = lookup.id /\ lookup'.answered /\ lookup'.state = "unknown"
      BY <1>1, <3>1 DEF Lookups
    <3>3. QED
      BY <1>1, <3>2
  <2>2. CASE here # None
    <3>1. here \in Installs /\ lookup.id \in Requests
      BY <1>1, <2>2 DEF Known, Lookups
    <3>2. d \in Decisions
      BY <3>1, SessionFacts DEF TypeOK
    <3>3. /\ lookup' = [lookup EXCEPT !.answered = TRUE, !.inst = here, !.revision = d.revision,
                                      !.state = state]
      BY <2>2 DEF OutcomeAnswered
    <3>4. d.revision \in Nat /\ state \in {"unknown", "committed", "purged"}
      BY <3>2 DEF Decisions
    <3>5. state # "unknown" => state = d.state /\ d # Unused
      BY <3>2 DEF Unused, Decisions
    <3>6. state = "committed" => Made(here, lookup.id, d.revision)
      BY <3>1, <3>5 DEF Invariant, Ledger, Decided
    <3> HIDE DEF state
    <3>7. /\ lookup' \in Lookups /\ lookup'.id = lookup.id /\ lookup'.answered
          /\ lookup'.state = state /\ lookup'.inst = here /\ lookup'.revision = d.revision
      BY <1>1, <3>3, <3>4 DEF Lookups
    <3>8. QED
      BY <1>1, <2>2, <3>5, <3>6, <3>7
  <2>3. QED
    BY <2>1, <2>2
<1>4. Browsing' /\ left' \in Limits /\ Sound(ed')
  BY <1>2, <1>3, SessionFacts DEF Browsing, TypeOK
<1>5. ReadStored' /\ Linking'
  BY <1>2 DEF Invariant, ReadStored, Wording, Linking, store
<1>6. LookupDecided'
  BY <1>2, <1>3 DEF LookupDecided, Made, store
<1>7. QED
  BY <1>2, <1>4, <1>5, <1>6, QuietStep

------------------------------------------------------------------------------
(* What an answer does to the requests that are tracked.                      *)

\* It decides nothing,
Undecided(t) == Sound(t) /\ Tracked(t) = Tracked(ed)

\* it ends an unchecked save, whose record may be purged,
SaveEnds(t, o) ==
  /\ o \in {"committed", "purged"}
  /\ \E u \in ed.unresolved, x \in Targets :
       /\ Settles(ed, t, u, x)
       /\ o = "purged" =>
            /\ Buries(t, x) /\ installationOf(x) \in Installs /\ Home(u.id, installationOf(x))
            /\ ed.target # None /\ ed.phase # "purged" => ~sameRecord(x, ed.target)

\* it ends the record that is open, and with it the request under way,
RecordEnds(t, o) ==
  \E x \in Targets :
    /\ Purges(ed, t, x) /\ Met(x.key) /\ installationOf(x) \in Installs
    /\ ed.pending # None => Home(ed.pending.id, installationOf(x))
    /\ \A u \in ed.unresolved \ t.unresolved :
         o \in {"committed", "purged"} /\ Home(u.id, installationOf(x)) /\ u.target.key = x.key

\* it says that the request under way was carried out,
Commit(t, o) ==
  /\ ed.pending # None /\ o = "committed"
  /\ \E i \in Installs : installationOf(ed.pending.target) \in {None, i} /\ Commits(ed, t, i)

\* or that it never will.
Refuses(t, o) ==
  /\ ed.pending # None /\ o = "refused"
  /\ Rooted(t) /\ t.pending = None /\ t.phase # "purged"
  /\ t.target = ed.target /\ t.expected = ed.expected /\ t.unresolved = ed.unresolved
  /\ t.tombstones = ed.tombstones /\ t.tombstonesSaturated = ed.tombstonesSaturated

Outcome(t, o) ==
  Undecided(t) \/ SaveEnds(t, o) \/ RecordEnds(t, o) \/ Commit(t, o) \/ Refuses(t, o)

\* What is told then.
LEMMA SettleTells ==
  ASSUME TypeOK, NEW s, NEW o, Settle(s, o)
  PROVE  /\ \A r \in Requests : r \notin Tracked(ed) \ Tracked(s) => told'[r] = told[r]
         /\ \A r \in Requests : r \in Tracked(ed) \ Tracked(s) =>
              told'[r] = IF ed.pending # None /\ r = ed.pending.id /\ s.phase = "purged"
                         THEN "purged" ELSE o
         /\ o \in {"refused", "committed", "purged", None} =>
              told' \in [Requests -> {"refused", "committed", "purged", None}]
<1> DEFINE D == Tracked(ed) \ Tracked(s)
<1> HIDE DEF D
<1>1. told' = [r \in Requests |->
          IF r \notin D THEN told[r]
          ELSE IF ed.pending # None /\ r = ed.pending.id /\ s.phase = "purged" THEN "purged" ELSE o]
  BY DEF Settle, D
<1>2. told \in [Requests -> {"refused", "committed", "purged", None}]
  BY DEF TypeOK
<1>3. \A r \in Requests : told'[r] =
          IF r \notin D THEN told[r]
          ELSE IF ed.pending # None /\ r = ed.pending.id /\ s.phase = "purged" THEN "purged" ELSE o
  BY <1>1
<1>4. o \in {"refused", "committed", "purged", None} =>
        told' \in [Requests -> {"refused", "committed", "purged", None}]
  BY <1>1, <1>2
<1>5. QED
  BY <1>3, <1>4 DEF D

\* The request of an id that is tracked is the one under way or an unchecked save.
LEMMA TrackedIds ==
  ASSUME Invariant
  PROVE  /\ ed.pending # None =>
              /\ ed.pending.id \in Requests /\ ed.pending.target \in Targets
              /\ ed.target = ed.pending.target /\ ed.phase \in {"saving", "unknown"}
              /\ asked[ed.pending.id] # None /\ asked[ed.pending.id].key = ed.target.key
              /\ Asks(ed.pending.id, ed.pending.target)
              /\ \A u \in ed.unresolved : u.id # ed.pending.id
         /\ \A u \in ed.unresolved :
              /\ u.id \in Requests /\ u.target \in Targets /\ Asks(u.id, u.target)
              /\ asked[u.id] # None /\ asked[u.id].key = u.target.key
         /\ \A r \in Tracked(ed) :
              r \in Requests /\ ((ed.pending # None /\ r = ed.pending.id)
                                 \/ \E u \in ed.unresolved : u.id = r)
<1>1. ed.pending # None =>
        /\ ed.pending.id \in Requests /\ ed.pending.target \in Targets
        /\ ed.target = ed.pending.target /\ ed.phase \in {"saving", "unknown"}
        /\ Asks(ed.pending.id, ed.pending.target)
        /\ \A u \in ed.unresolved : u.id # ed.pending.id
  BY SessionFacts DEF Editors, Pendings, Shape, Pending, Sound, Anchored
<1>2. \A u \in ed.unresolved : u.id \in Requests /\ u.target \in Targets /\ Asks(u.id, u.target)
  BY SessionFacts DEF Editors, Sound, Anchored
<1>3. QED
  BY <1>1, <1>2 DEF Asks, Tracked

\* A save that is purged is buried.
LEMMA SaveBuried ==
  ASSUME Invariant, NEW t, NEW u \in ed.unresolved, NEW x \in Targets, Settles(ed, t, u, x),
         Buries(t, x), installationOf(x) \in Installs, Home(u.id, installationOf(x)),
         ed.target # None /\ ed.phase # "purged" => ~sameRecord(x, ed.target)
  PROVE  BuriedIn(t, u.id)
<1>1. /\ u.id \in Requests /\ asked[u.id].key = x.key /\ x.key = u.target.key
      /\ t.target = ed.target /\ t.phase = ed.phase /\ t.expected = ed.expected
  BY TrackedIds DEF Settles
<1>2. ASSUME t.target # None, t.target.key = asked[u.id].key, t.phase # "purged"
      PROVE  t.target.bind # Loc /\ ~Home(u.id, t.expected)
  <2>1. t.target.bind # Loc
    BY <1>1, <1>2, SessionFacts DEF Shape, Apart
  <2>2. ed.target \in Targets /\ ed.expected = installationOf(ed.target) /\ ed.expected \in Installs
    BY <1>1, <1>2, <2>1, SessionFacts, OpenTarget, InstallationOf
  <2>3. installationOf(x) # ed.expected
    BY <1>1, <1>2, <2>2, NoneApart DEF sameRecord
  <2>4. QED
    BY <1>1, <2>1, <2>2, <2>3, SessionFacts, OneHome
<1>3. QED
  BY <1>1, <1>2 DEF BuriedIn, Buries

\* An outcome is told to the requests that are settled, and keeps what is known.
LEMMA OutcomeSound ==
  ASSUME Invariant, UNCHANGED <<asked, store>>, Attempted(ed)', NEW o, Outcome(ed', o), Settle(ed', o)
  PROVE  /\ Sound(ed)'
         /\ told' \in [Requests -> {"refused", "committed", "purged", None}]
         /\ \A r \in Requests : told'[r] = "refused" =>
              told[r] = "refused" \/ (Refuses(ed', o) /\ r = ed.pending.id)
<1>1. UNCHANGED <<asked, record, decided>> /\ TypeOK /\ Sound(ed) /\ Shape(ed) /\ ed \in Editors
  BY SessionFacts DEF store
<1> DEFINE D == Tracked(ed) \ Tracked(ed')
<1>2. /\ \A r \in Requests : r \notin D => told'[r] = told[r]
      /\ \A r \in Requests : r \in D =>
           told'[r] = IF ed.pending # None /\ r = ed.pending.id /\ ed'.phase = "purged"
                      THEN "purged" ELSE o
      /\ o \in {"refused", "committed", "purged", None} =>
           told' \in [Requests -> {"refused", "committed", "purged", None}]
  BY <1>1, SettleTells
<1>3. D \subseteq Requests
  BY TrackedIds
<1>4. Rooted(ed)
  BY <1>1 DEF Sound, Rooted
<1>5. CASE Undecided(ed')
  <2>1. Rooted(ed)'
    BY <1>1, <1>5, RootedKept DEF Undecided, Sound, Rooted
  <2>2. \A r \in Requests : told'[r] = told[r]
    BY <1>2, <1>5 DEF Undecided
  <2>3. Tracks(ed)' /\ Buried(ed)'
    BY <1>1, <1>5, <2>2 DEF Undecided, Sound, Tracks, Buried, Home
  <2>4. Sound(ed)'
    BY <2>1, <2>3 DEF Sound, Rooted
  <2>5. told' \in [Requests -> {"refused", "committed", "purged", None}]
    BY <1>1, <2>2 DEF TypeOK, Settle
  <2>6. QED
    BY <2>2, <2>4, <2>5
<1>6. CASE SaveEnds(ed', o)
  <2>1. PICK u \in ed.unresolved, x \in Targets :
          /\ Settles(ed, ed', u, x)
          /\ o = "purged" =>
               /\ Buries(ed', x) /\ installationOf(x) \in Installs /\ Home(u.id, installationOf(x))
               /\ ed.target # None /\ ed.phase # "purged" => ~sameRecord(x, ed.target)
    BY <1>6 DEF SaveEnds
  <2>2. o \in {"committed", "purged"}
    BY <1>6 DEF SaveEnds
  <2>3. Rooted(ed') /\ Tracked(ed') = Tracked(ed) \ {u.id}
    BY <1>4, <2>1, SettlesRooted
  <2>4. \A r \in D : r = u.id /\ told'[r] = o
    BY <1>2, <1>3, <2>1, <2>3, TrackedIds
  <2>5. o = "purged" => BuriedIn(ed', u.id)
    BY <2>1, SaveBuried
  <2>6. /\ ed.tombstones \subseteq ed'.tombstones
        /\ ed.tombstonesSaturated => ed'.tombstonesSaturated
        /\ ed'.target = ed.target /\ ed'.phase = ed.phase /\ ed'.expected = ed.expected
    BY <2>1 DEF Settles
  <2>7. \A r \in D : told'[r] # None /\ (told'[r] = "purged" => BuriedIn(ed', r))
    BY <2>2, <2>4, <2>5, NoneApart
  <2>8. Sound(ed)'
    BY <1>1, <1>2, <1>3, <2>3, <2>6, <2>7, SoundTold
  <2>9. \A r \in Requests : told'[r] = "refused" => told[r] = "refused"
    BY <1>2, <2>2, <2>4
  <2>10. QED
    BY <1>2, <2>2, <2>8, <2>9
<1>7. CASE RecordEnds(ed', o)
  <2>1. PICK x \in Targets :
          /\ Purges(ed, ed', x) /\ Met(x.key) /\ installationOf(x) \in Installs
          /\ ed.pending # None => Home(ed.pending.id, installationOf(x))
          /\ \A u \in ed.unresolved \ ed'.unresolved :
               o \in {"committed", "purged"} /\ Home(u.id, installationOf(x)) /\ u.target.key = x.key
    BY <1>7 DEF RecordEnds
  <2>2. Rooted(ed') /\ Tracked(ed') \subseteq Tracked(ed)
    BY <1>4, <2>1, PurgesRooted
  <2>3. /\ ed.tombstones \subseteq ed'.tombstones /\ Buries(ed', x)
        /\ ed.tombstonesSaturated => ed'.tombstonesSaturated
        /\ ed'.phase = "purged" /\ ed'.pending = None /\ x.key = ed.target.key
    BY <2>1 DEF Purges
  <2>4. \A r \in D :
          /\ told'[r] \in {"committed", "purged"}
          /\ Home(r, installationOf(x)) /\ asked[r].key = x.key
    <3>1. SUFFICES ASSUME NEW r \in D
                   PROVE  /\ told'[r] \in {"committed", "purged"}
                          /\ Home(r, installationOf(x)) /\ asked[r].key = x.key
      OBVIOUS
    <3>2. CASE ed.pending # None /\ r = ed.pending.id
      <4>1. told'[r] = "purged"
        BY <1>2, <1>3, <2>3, <3>2
      <4>2. QED
        BY <2>1, <2>3, <3>2, <4>1, TrackedIds
    <3>3. CASE ~(ed.pending # None /\ r = ed.pending.id)
      <4>1. PICK u \in ed.unresolved : u.id = r
        BY <3>3, TrackedIds
      <4>2. u \notin ed'.unresolved
        BY <3>1, <4>1 DEF Tracked
      <4>3. told'[r] = o
        BY <1>2, <1>3, <3>3
      <4>4. QED
        BY <2>1, <4>1, <4>2, <4>3, TrackedIds
    <3>4. QED
      BY <3>2, <3>3
  <2>5. \A r \in D : BuriedIn(ed', r)
    BY <2>1, <2>3, <2>4 DEF BuriedIn, Buries
  <2>6. Sound(ed)'
    BY <1>1, <1>2, <1>3, <2>2, <2>3, <2>4, <2>5, NoneApart, SoundTold
  <2>7. \A r \in Requests : told'[r] = "refused" => told[r] = "refused"
    BY <1>2, <2>4
  <2>8. told' \in [Requests -> {"refused", "committed", "purged", None}]
    <3>1. \A r \in Requests : told'[r] \in {"refused", "committed", "purged", None}
      BY <1>1, <1>2, <2>4 DEF TypeOK
    <3>2. QED
      BY <3>1 DEF Settle
  <2>9. QED
    BY <2>6, <2>7, <2>8
<1>8. CASE Commit(ed', o)
  <2>1. PICK i \in Installs : installationOf(ed.pending.target) \in {None, i} /\ Commits(ed, ed', i)
    BY <1>8 DEF Commit
  <2>2. ed.pending # None /\ o = "committed"
    BY <1>8 DEF Commit
  <2>3. Rooted(ed') /\ Tracked(ed') = Tracked(ed) \ {ed.pending.id}
    BY <1>4, <2>1, <2>2, CommitsRooted
  <2>4. /\ ed'.tombstones = ed.tombstones /\ ed'.tombstonesSaturated = ed.tombstonesSaturated
        /\ ed'.phase # "purged" /\ ed.target # None /\ ed.phase # "purged"
    BY <1>1, <2>1, <2>2, TrackedIds DEF Commits
  <2>5. /\ ed'.target.bind = ed.target.bind /\ ed'.target.key = ed.target.key
        /\ ed.target.bind # Loc => ed'.expected = ed.expected
    <3>1. ed.target \in Targets /\ ed.target = ed.pending.target /\ ed.expected = installationOf(ed.target)
      BY <1>1, <2>2, <2>4, TrackedIds, OpenTarget
    <3>2. ed'.target = Attributed(ed.target, i) /\ ed'.expected = i
      BY <2>1 DEF Commits
    <3>3. ed.target.bind # Loc => installationOf(ed.target) # None
      BY <3>1, InstallationOf, NoneApart
    <3>4. QED
      BY <2>1, <3>1, <3>2, <3>3, AttributedTarget
  <2>6. \A r \in D : told'[r] = "committed"
    BY <1>2, <1>3, <2>2, <2>4
  <2>7. Sound(ed)'
    BY <1>1, <1>2, <1>3, <2>3, <2>4, <2>5, <2>6, NoneApart, SoundTold
  <2>8. \A r \in Requests : told'[r] = "refused" => told[r] = "refused"
    BY <1>2, <2>6
  <2>9. QED
    BY <1>2, <2>2, <2>7, <2>8
<1>9. CASE Refuses(ed', o)
  <2>1. /\ ed.pending # None /\ o = "refused" /\ Rooted(ed') /\ ed'.pending = None
        /\ ed'.phase # "purged" /\ ed'.target = ed.target /\ ed'.expected = ed.expected
        /\ ed'.unresolved = ed.unresolved /\ ed'.tombstones = ed.tombstones
        /\ ed'.tombstonesSaturated = ed.tombstonesSaturated
    BY <1>9 DEF Refuses
  <2>2. Tracked(ed') = Tracked(ed) \ {ed.pending.id} /\ ed.phase # "purged"
    BY <2>1, TrackedIds DEF Tracked
  <2>3. \A r \in D : r = ed.pending.id /\ told'[r] = "refused"
    BY <1>2, <1>3, <2>1, <2>2, TrackedIds
  <2>4. Sound(ed)'
    BY <1>1, <1>2, <1>3, <2>1, <2>2, <2>3, NoneApart, SoundTold
  <2>5. \A r \in Requests : told'[r] = "refused" => told[r] = "refused" \/ r = ed.pending.id
    BY <1>2, <2>3
  <2>6. QED
    BY <1>2, <1>9, <2>1, <2>4, <2>5
<1>10. QED
  BY <1>5, <1>6, <1>7, <1>8, <1>9 DEF Outcome
------------------------------------------------------------------------------
(* A receipt, of a mutation or of a lookup.                                   *)

\* A receipt of the request under way.
LEMMA OwnReceipt ==
  ASSUME Invariant, ed.pending # None, NEW i \in Installs,
         installationOf(ed.pending.target) \in {None, i}, decided[i][ed.pending.id] # Unused,
         NEW r, r.state \in {"committed", "purged"},
         r.state = "committed" => r.revision \in Nat /\ Made(i, ed.pending.id, r.revision)
  PROVE  LET t == receipt(attributeOperation(ed, ed.pending.id, r, i), ed.pending.id, r)
         IN  Outcome(t, r.state) /\ t.pending = None
<1> DEFINE a == attributeOperation(ed, ed.pending.id, r, i)
           t == receipt(a, ed.pending.id, r)
<1>1. /\ Rooted(ed) /\ ed.pending.id \in Requests /\ ed.target = ed.pending.target
      /\ record \in [Installs -> [Keys -> Records]] /\ r.state # "unknown"
  BY SessionFacts, TrackedIds DEF Sound, Rooted, TypeOK
<1>2. a.pending # None /\ a.pending.id = ed.pending.id /\ a.pending.target \in Targets
      /\ installationOf(a.pending.target) = i /\ a.pending.target = Attributed(ed.target, i)
  BY <1>1, OwnLearned
<1>3. t = IF r.state = "purged" THEN purge(a, a.pending.target) ELSE applyCommit(a, r)
  BY <1>2 DEF receipt
<1>4. Home(ed.pending.id, i) /\ ed.target.key \in Keys /\ Met(ed.target.key)
  <2>1. asked[ed.pending.id].origin \in {None, i}
    BY <1>1 DEF Invariant, Ledger, Decided
  <2>2. Met(ed.target.key)
    BY <1>1, TrackedIds, AsksMet
  <2>3. QED
    BY <1>1, <2>1, <2>2, TrackedIds, InstallationOf DEF Home
<1>5. ASSUME NEW x \in Targets, Purges(ed, t, x), installationOf(x) = i,
             t.unresolved = ed.unresolved
      PROVE  Outcome(t, r.state) /\ t.pending = None
  <2>1. x.key = ed.target.key /\ t.pending = None
    BY <1>5 DEF Purges
  <2>2. RecordEnds(t, r.state)
    BY <1>4, <1>5, <2>1 DEF RecordEnds
  <2>3. QED
    BY <2>1, <2>2 DEF Outcome
<1>6. ASSUME r.state = "purged" PROVE Outcome(t, r.state) /\ t.pending = None
  <2>1. /\ Purges(ed, purge(a, a.pending.target), a.pending.target)
        /\ purge(a, a.pending.target).unresolved = ed.unresolved
    BY <1>1, OwnPurged
  <2> HIDE DEF a, t
  <2>2. t = purge(a, a.pending.target)
    BY <1>3, <1>6
  <2>3. QED
    BY <1>2, <1>5, <2>1, <2>2
<1>7. ASSUME r.state = "committed" PROVE Outcome(t, r.state) /\ t.pending = None
  <2> DEFINE c == applyCommit(a, r)
             x == Attributed(ed.target, i)
  <2>1. \/ Commits(ed, c, i)
        \/ Purges(ed, c, x) /\ installationOf(x) = i /\ c.unresolved = ed.unresolved
    BY <1>1, <1>7, OwnCommitted
  <2> HIDE DEF a, c, t, x
  <2>2. t = c /\ x \in Targets
    BY <1>2, <1>3, <1>7 DEF c, x
  <2>3. Commits(ed, c, i) => Commit(t, r.state) /\ t.pending = None
    BY <1>7, <2>2 DEF Commit, Commits
  <2>4. QED
    BY <1>5, <2>1, <2>2, <2>3 DEF Outcome
<1>8. QED
  BY <1>6, <1>7

\* A receipt of an unchecked save.
LEMMA SaveReceipt ==
  ASSUME Invariant, NEW u \in ed.unresolved, NEW i \in Installs,
         installationOf(u.target) \in {None, i}, decided[i][u.id] # Unused,
         NEW r, r.state \in {"committed", "purged"}
  PROVE  LET t == receipt(attributeOperation(ed, u.id, r, i), u.id, r)
         IN  /\ Outcome(t, r.state)
             /\ t.pending # None => t.pending = ed.pending /\ t.phase = ed.phase
<1> DEFINE t == receipt(attributeOperation(ed, u.id, r, i), u.id, r)
           x == Attributed(u.target, i)
<1>1. /\ Rooted(ed) /\ u.id \in Requests /\ u.target \in Targets /\ Asks(u.id, u.target)
      /\ ed.pending = None \/ ed.pending.id # u.id
  BY SessionFacts, TrackedIds DEF Sound, Rooted
<1>2. /\ installationOf(x) = i /\ x.key = u.target.key
      /\ \/ /\ Settles(ed, t, u, x)
            /\ r.state = "purged" =>
                 /\ Buries(t, x)
                 /\ ed.target # None /\ ed.phase # "purged" => ~sameRecord(x, ed.target)
         \/ Purges(ed, t, x) /\ t.unresolved = ed.unresolved \ {u} /\ ed.expected = i
  BY <1>1, SaveSettled
<1>3. x \in Targets
  BY <1>1, AttributedTarget
<1> HIDE DEF t, x
<1>4. Home(u.id, i) /\ Met(x.key)
  <2>1. asked[u.id].origin \in {None, i}
    BY <1>1 DEF Invariant, Ledger, Decided
  <2>2. QED
    BY <1>1, <1>2, <2>1, AsksMet DEF Home
<1>5. CASE /\ Settles(ed, t, u, x)
           /\ r.state = "purged" =>
                /\ Buries(t, x)
                /\ ed.target # None /\ ed.phase # "purged" => ~sameRecord(x, ed.target)
  <2>1. SaveEnds(t, r.state)
    BY <1>2, <1>3, <1>4, <1>5 DEF SaveEnds
  <2>2. t.pending = ed.pending /\ t.phase = ed.phase
    BY <1>5 DEF Settles
  <2>3. QED
    BY <2>1, <2>2 DEF Outcome, t
<1>6. CASE Purges(ed, t, x) /\ t.unresolved = ed.unresolved \ {u} /\ ed.expected = i
  <2>1. ed.pending # None => Home(ed.pending.id, i)
    <3>1. ed.target # None /\ x.key = ed.target.key /\ i # None
      BY <1>6, NoneApart DEF Purges
    <3>2. QED
      BY <1>1, <1>4, <1>6, <3>1, PurgeRooted
  <2>2. \A v \in ed.unresolved \ t.unresolved : v = u
    BY <1>6
  <2>3. RecordEnds(t, r.state) /\ t.pending = None
    BY <1>2, <1>3, <1>4, <1>6, <2>1, <2>2 DEF RecordEnds, Purges
  <2>4. QED
    BY <2>3 DEF Outcome, t
<1>7. QED
  BY <1>2, <1>5, <1>6

\* A change that is calm decides nothing.
LEMMA CalmUndecided ==
  ASSUME Invariant, NEW t, NEW o, Calm(ed, t)
  PROVE  /\ Outcome(t, o)
         /\ t.pending # None => t.pending = ed.pending /\ t.phase \in {ed.phase, "unknown"}
BY SessionFacts, CalmSound DEF Outcome, Undecided, Calm

\* The event of a receipt.
LEMMA ReceiptOutcome ==
  ASSUME Invariant, NEW q, NEW i \in Known, NEW r, r.state \in {"unknown", "committed", "purged"},
         r.state # "unknown" => i # None /\ decided[i][q.id] # Unused,
         r.state = "committed" => r.revision \in Nat /\ Made(i, q.id, r.revision)
  PROVE  LET t == Receipted(ed, q, r, i, obs)
         IN  /\ Outcome(t, r.state)
             /\ t.pending # None =>
                  /\ t.pending = ed.pending /\ t.phase \in {ed.phase, "unknown"}
                  /\ ForPending(ed, q.id, q.generation, q.target) => Calm(ed, t)
<1> DEFINE t == Receipted(ed, q, r, i, obs)
           pends == ForPending(ed, q.id, q.generation, q.target)
           some == ForUnresolved(ed, q.id, q.target)
           origin == ReceiptOrigin(ed, q.id, q.target)
           after == receipt(attributeOperation(ed, q.id, r, i), q.id, r)
<1>1. /\ Calm(ed, ed) /\ Calm(ed, quarantine(ed))
      /\ ed.pending # None => Calm(ed, markUnknown(ed))
  BY SessionFacts, CalmOnes
<1>2. t = IF obs = None THEN ed
          ELSE IF ~pends /\ some = {} THEN ed
          ELSE IF origin # None /\ origin # i THEN IF pends THEN quarantine(ed) ELSE ed
          ELSE after
  BY DEF Receipted
<1>3. CASE t = ed \/ t = quarantine(ed)
  BY <1>1, <1>3, CalmUndecided
<1>4. CASE t = after /\ (pends \/ some # {}) /\ origin \in {None, i}
  <2>1. CASE pends
    <3>1. ed.pending # None /\ ed.pending.id = q.id /\ installationOf(ed.pending.target) \in {None, i}
      BY <1>4, <2>1 DEF ForPending, ReceiptOrigin
    <3>2. CASE r.state = "unknown"
      <4>1. t = markUnknown(ed)
        BY <1>4, <3>1, <3>2 DEF attributeOperation, receipt, markUnknown
      <4>2. QED
        BY <1>1, <3>1, <4>1, CalmUndecided
    <3>3. CASE r.state # "unknown"
      <4>1. i \in Installs
        BY <3>3 DEF Known
      <4>2. Outcome(after, r.state) /\ after.pending = None
        BY <3>1, <3>3, <4>1, OwnReceipt
      <4>3. QED
        BY <1>4, <4>2
    <3>4. QED
      BY <3>2, <3>3
  <2>2. CASE ~pends
    <3>1. PICK u \in some : TRUE
      BY <1>4, <2>2
    <3>2. u \in ed.unresolved /\ u.id = q.id
      BY <3>1 DEF ForUnresolved
    <3>3. \A v \in ed.unresolved : v.id = q.id => v = u
      BY <3>2, SessionFacts DEF Shape, Listing
    <3>4. ed.pending = None \/ ed.pending.id # q.id
      BY <3>2, TrackedIds
    <3>5. (CHOOSE v \in some : TRUE) = u
      BY <3>1, <3>3 DEF ForUnresolved
    <3>6. origin = installationOf(u.target)
      BY <3>4, <3>5 DEF ReceiptOrigin
    <3>7. CASE r.state = "unknown"
      <4>1. t = ed
        BY <1>4, <3>4, <3>7 DEF attributeOperation, receipt, settleUnresolved
      <4>2. QED
        BY <1>3, <4>1
    <3>8. CASE r.state # "unknown"
      <4>1. i \in Installs
        BY <3>8 DEF Known
      <4>2. /\ Outcome(after, r.state)
            /\ after.pending # None => after.pending = ed.pending /\ after.phase = ed.phase
        BY <1>4, <3>2, <3>6, <3>8, <4>1, SaveReceipt
      <4>3. QED
        BY <1>4, <2>2, <4>2
    <3>9. QED
      BY <3>7, <3>8
  <2>3. QED
    BY <2>1, <2>2
<1>5. QED
  <2> HIDE DEF t, after, pends, some, origin
  <2>1. QED
    BY <1>2, <1>3, <1>4
------------------------------------------------------------------------------
(* How an attempt ends.                                                       *)

\* An attempt is for the store its request was composed for.
LEMMA AttemptFacts ==
  ASSUME Invariant, NEW n \in DOMAIN calls
  PROVE  /\ calls[n].a \in Attempts /\ calls[n].a.id \in Requests /\ calls[n].a.target \in Targets
         /\ calls[n].answer \in Answers \cup {None} /\ calls[n].open \in BOOLEAN
         /\ Asks(calls[n].a.id, calls[n].a.target)
         /\ calls[n].a.pre = Origin(calls[n].a.target) /\ calls[n].a.origin = calls[n].a.pre
<1>1. calls[n].a.pre = asked[calls[n].a.id].origin /\ calls[n].a.origin = calls[n].a.pre
      /\ Asks(calls[n].a.id, calls[n].a.target)
  BY DEF Invariant, Ledger, Dispatched
<1>2. QED
  BY <1>1, SessionFacts, SendsTyped DEF Asks

\* A request still being saved is not the one of the attempt that ends.
Waited(t, n) ==
  t.pending # None /\ t.phase = "saving" =>
    t.pending = ed.pending /\ ed.phase = "saving" /\ calls[n].a.id # ed.pending.id

\* An attempt of which nothing is known leaves its request unknown.
LEMMA UnknownOutcome ==
  ASSUME Invariant, NEW n \in DOMAIN calls
  PROVE  LET t == attemptOutcome(ed, calls[n].a, "unknown")
         IN  Calm(ed, t) /\ Waited(t, n)
<1> DEFINE a == calls[n].a
           t == attemptOutcome(ed, a, "unknown")
           pends == ForPending(ed, a.id, a.generation, a.target)
<1>1. t = IF ~pends THEN ed ELSE markUnknown(ed)
  BY DEF attemptOutcome
<1>2. CASE ~pends
  <2>1. ed.pending # None /\ ed.phase = "saving" => calls[n].a.id # ed.pending.id
    BY <1>2, SessionFacts, AttemptKnown
  <2>2. QED
    BY <1>1, <1>2, <2>1, SessionFacts, CalmOnes DEF Waited
<1>3. CASE pends
  <2>1. ed.pending # None /\ t = markUnknown(ed)
    BY <1>1, <1>3 DEF ForPending
  <2>2. t.phase # "saving"
    BY <2>1, SessionFacts DEF markUnknown, Editors
  <2>3. QED
    BY <2>1, <2>2, SessionFacts, CalmOnes DEF Waited
<1>4. QED
  BY <1>2, <1>3

\* A quarantine or a withheld record does not hinder a report of an unknown outcome.
LEMMA CalmUnknown ==
  ASSUME NEW s, NEW t, Shape(s), Calm(s, t), s.pending # None
  PROVE  Calm(s, markUnknown(t)) /\ markUnknown(t).phase = "unknown"
<1>1. Shape(t) /\ t \in Editors /\ s.phase # "purged"
  BY CalmShape DEF Shape, Pending
<1>2. Calm(t, markUnknown(t)) /\ markUnknown(t).phase = "unknown"
  BY <1>1, CalmOnes DEF Calm, markUnknown, Editors
<1> DEFINE u == markUnknown(t)
<1> HIDE DEF u
<1>3. Calm(t, u) /\ u.phase = "unknown"
  BY <1>2 DEF u
<1>4. Calm(s, u)
  BY <1>1, <1>3 DEF Calm
<1>5. QED
  BY <1>3, <1>4 DEF u

\* A refusal ends the request under way and changes nothing else.
LEMMA SettledRefuses ==
  ASSUME Invariant, ed.pending # None, NEW s, Calm(ed, s), NEW phase \in {"error", "conflict"}
  PROVE  Refuses(Settled(s, phase), "refused")
<1> DEFINE t == Settled(s, phase)
<1>1. Sound(s) /\ s \in Editors /\ Shape(s)
  BY SessionFacts, CalmSound DEF Sound, Shape
<1>2. t \in Editors
  <2>1. [s EXCEPT !.pending = None] \in Editors
    BY <1>1, Setters
  <2>2. phase \in Phases
    BY DEF Phases
  <2>3. QED
    BY <2>1, <2>2, Setters DEF Settled
<1>3. /\ t.target = s.target /\ t.expected = s.expected /\ t.mode = s.mode
      /\ t.unresolved = s.unresolved /\ t.blocked = s.blocked /\ t.pending = None
      /\ t.tombstones = s.tombstones /\ t.tombstonesSaturated = s.tombstonesSaturated
      /\ t.base = s.base /\ t.loaded = s.loaded /\ t.draft = s.draft /\ t.phase = phase
  BY <1>1 DEF Settled, Editors
<1> HIDE DEF t
<1>4. s.pending # None /\ s.phase # "purged" /\ t.phase # "purged"
  BY <1>1, <1>3 DEF Shape, Pending, Calm
<1>5. Bounded(t) /\ Placed(t) /\ Pending(t) /\ Versioned(t) /\ Listing(t) /\ Apart(t) /\ Waits(t)
  BY <1>1, <1>3, <1>4 DEF Shape, Bounded, Placed, Pending, Versioned, Listing, Apart, Waits
<1>6. Closed(t)
  BY <1>1, <1>3, <1>4 DEF Shape, Closed, isTombstoned
<1>7. Anchored(t) /\ Stored(t)
  BY <1>1, <1>3 DEF Sound, Anchored, Stored
<1>8. Rooted(t)
  BY <1>2, <1>5, <1>6, <1>7 DEF Rooted, Shape
<1>9. QED
  BY <1>3, <1>4, <1>8 DEF Refuses, Calm, t

\* A refusal of a request whose outcome was not unknown before.
LEMMA RefusalOutcome ==
  ASSUME Invariant, NEW n \in DOMAIN calls, NEW code \in Codes
  PROVE  LET t == attemptOutcome(ed, calls[n].a, code)
         IN  /\ Outcome(t, "refused") /\ Waited(t, n)
             /\ Refuses(t, "refused") => calls[n].a.id = ed.pending.id /\ ed.phase = "saving"
<1> DEFINE a == calls[n].a
           t == attemptOutcome(ed, a, code)
           pends == ForPending(ed, a.id, a.generation, a.target)
           conflict == IF ed.gate # "mismatch" /\ code \in Conflicts THEN "conflict" ELSE "error"
<1>1. /\ Calm(ed, ed) /\ Calm(ed, quarantine(ed)) /\ Calm(ed, Withheld(ed))
      /\ Shape(ed) /\ ed \in Editors
  BY SessionFacts, CalmOnes
<1>2. code # "unknown"
  BY DEF Codes
<1>3. ASSUME NEW s, Calm(ed, s), t = s, s.phase = "unknown" \/ ~pends
      PROVE  /\ Outcome(t, "refused") /\ Waited(t, n)
             /\ Refuses(t, "refused") => calls[n].a.id = ed.pending.id /\ ed.phase = "saving"
  <2>1. Outcome(t, "refused")
    BY <1>3, CalmUndecided
  <2>2. ~Refuses(t, "refused")
    BY <1>3 DEF Calm, Refuses
  <2>3. ~pends /\ ed.pending # None /\ ed.phase = "saving" => calls[n].a.id # ed.pending.id
    BY SessionFacts, AttemptKnown
  <2> HIDE DEF t, pends
  <2>4. Waited(t, n)
    BY <1>1, <1>3, <2>3 DEF Waited, Calm, Shape, Pending
  <2>5. QED
    BY <2>1, <2>2, <2>4
<1>4. ASSUME ~pends
      PROVE  /\ Outcome(t, "refused") /\ Waited(t, n)
             /\ Refuses(t, "refused") => calls[n].a.id = ed.pending.id /\ ed.phase = "saving"
  <2>1. t = ed
    BY <1>4 DEF attemptOutcome
  <2> HIDE DEF t, pends
  <2>2. QED
    BY <1>1, <1>3, <1>4, <2>1
<1>5. ASSUME pends
      PROVE  /\ Outcome(t, "refused") /\ Waited(t, n)
             /\ Refuses(t, "refused") => calls[n].a.id = ed.pending.id /\ ed.phase = "saving"
  <2>1. ed.pending # None /\ a.id = ed.pending.id /\ sameTarget(ed.pending.target, a.target)
    BY <1>5 DEF ForPending
  <2>2. ASSUME NEW s, Calm(ed, s), t = markUnknown(s)
        PROVE  /\ Outcome(t, "refused") /\ Waited(t, n)
               /\ Refuses(t, "refused") => calls[n].a.id = ed.pending.id /\ ed.phase = "saving"
    <3>1. Calm(ed, t) /\ t.phase = "unknown"
      BY <1>1, <2>1, <2>2, CalmUnknown
    <3> HIDE DEF t
    <3>2. QED
      BY <1>3, <3>1
  <2>3. ASSUME NEW s, Calm(ed, s), NEW phase \in {"error", "conflict"}, t = Settled(s, phase),
               ed.phase # "unknown"
        PROVE  /\ Outcome(t, "refused") /\ Waited(t, n)
               /\ Refuses(t, "refused") => calls[n].a.id = ed.pending.id /\ ed.phase = "saving"
    <3>1. Refuses(t, "refused")
      BY <2>1, <2>3, SettledRefuses
    <3>2. ed.phase = "saving"
      BY <2>1, <2>3, TrackedIds
    <3>3. t.pending = None
      BY <3>1 DEF Refuses
    <3> HIDE DEF t
    <3>4. QED
      BY <2>1, <3>1, <3>2, <3>3 DEF Outcome, Waited
  <2>4. CASE a.afterUnknown \/ ed.phase = "unknown"
    <3>1. \/ t = markUnknown(ed)
          \/ t = markUnknown(quarantine(ed))
      BY <1>2, <1>5, <2>4 DEF attemptOutcome
    <3> HIDE DEF t
    <3>2. QED
      BY <1>1, <2>2, <3>1
  <2>5. CASE ~(a.afterUnknown \/ ed.phase = "unknown") /\ code = "INSTALLATION_MISMATCH"
    <3>1. t = IF a.origin # None THEN Settled(quarantine(ed), "error") ELSE markUnknown(Withheld(ed))
      BY <1>2, <1>5, <2>5 DEF attemptOutcome
    <3> HIDE DEF t
    <3>2. QED
      BY <1>1, <2>2, <2>3, <2>5, <3>1
  <2>6. CASE ~(a.afterUnknown \/ ed.phase = "unknown") /\ code = "PURGED"
    <3>1. t = IF a.origin # None /\ a.pre = a.origin THEN purge(ed, ed.pending.target)
              ELSE markUnknown(ed)
      BY <1>2, <1>5, <2>6 DEF attemptOutcome
    <3>2. CASE ~(a.origin # None /\ a.pre = a.origin)
      <4>1. t = markUnknown(ed)
        BY <3>1, <3>2
      <4> HIDE DEF t
      <4>2. QED
        BY <1>1, <2>2, <4>1
    <3>3. CASE a.origin # None /\ a.pre = a.origin
      <4>1. /\ t = purge(ed, ed.target) /\ ed.target \in Targets /\ ed.pending.id \in Requests
            /\ ed.target = ed.pending.target
        BY <2>1, <3>1, <3>3, TrackedIds
      <4>2. ed.target.bind # Loc
        BY <2>1, <3>3, <4>1, AttemptFacts DEF Origin, sameTarget
      <4>3. ed.expected \in Installs /\ installationOf(ed.target) = ed.expected /\ ed.target # None
        BY <1>1, <4>1, <4>2, OpenTarget, InstallationOf, NoneApart
      <4>4. Met(ed.target.key)
        BY <2>1, <4>1, TrackedIds, AsksMet
      <4>5. Rooted(ed) /\ ed.expected # None
        BY <4>3, SessionFacts, NoneApart DEF Sound, Rooted
      <4>6. /\ Purges(ed, t, ed.target) /\ t.unresolved = ed.unresolved
            /\ Home(ed.pending.id, ed.expected)
        BY <2>1, <4>1, <4>3, <4>4, <4>5, PurgeRooted
      <4> HIDE DEF t
      <4>7. RecordEnds(t, "refused")
        BY <4>1, <4>3, <4>4, <4>6 DEF RecordEnds
      <4>8. t.pending = None /\ t.phase = "purged"
        BY <4>6 DEF Purges
      <4>9. QED
        BY <4>7, <4>8 DEF Outcome, Waited, Refuses
    <3>4. QED
      BY <3>2, <3>3
  <2>7. CASE /\ ~(a.afterUnknown \/ ed.phase = "unknown")
             /\ code \notin {"INSTALLATION_MISMATCH", "PURGED"}
    <3>1. t = Settled(ed, conflict)
      BY <1>2, <1>5, <2>7 DEF attemptOutcome
    <3> HIDE DEF t
    <3>2. QED
      BY <1>1, <2>3, <2>7, <3>1
  <2>8. QED
    BY <2>4, <2>5, <2>6, <2>7
<1>6. QED
  BY <1>4, <1>5

\* A success: what became of the request, or that this is not known.
LEMMA SuccessOutcome ==
  ASSUME Invariant, NEW n \in DOMAIN calls, calls[n].answer # None,
         calls[n].answer.state # "refused"
  PROVE  LET x == calls[n].answer
             t == finishSuccess(ed, calls[n].a, x, x.inst, obs)
         IN  Outcome(t, x.state) /\ Waited(t, n) /\ x.state \in {"committed", "purged"}
<1> DEFINE x == calls[n].answer
           a == calls[n].a
           next == Receipted(ed, a, x, x.inst, obs)
           t == finishSuccess(ed, a, x, x.inst, obs)
           pends == ForPending(ed, a.id, a.generation, a.target)
           agrees == a.pre = None \/ a.pre = x.inst
<1>1. x \in Answers /\ x.state \in {"committed", "purged"} /\ x.revision \in Nat /\ x.inst \in Installs
  BY AttemptFacts DEF Answers
<1>2. /\ decided[x.inst][a.id] # Unused
      /\ x.state = "committed" => Made(x.inst, a.id, x.revision)
  BY DEF Invariant, Ledger, Dispatched
<1>3. x.inst \in Known /\ x.inst # None /\ Shape(ed)
  BY <1>1, SessionFacts, NoneApart DEF Known
<1>4. t = IF ~agrees /\ a.origin = None THEN attemptOutcome(ed, a, "unknown")
          ELSE IF next.phase = "saving" THEN attemptOutcome(next, a, "unknown") ELSE next
  BY DEF finishSuccess
<1> HIDE DEF x
<1>5. /\ Outcome(next, x.state)
      /\ next.pending # None =>
           /\ next.pending = ed.pending /\ next.phase \in {ed.phase, "unknown"}
           /\ pends => Calm(ed, next)
  BY <1>1, <1>2, <1>3, ReceiptOutcome
<1>6. attemptOutcome(next, a, "unknown") =
        IF ForPending(next, a.id, a.generation, a.target) THEN markUnknown(next) ELSE next
  BY DEF attemptOutcome
<1>7. ForPending(next, a.id, a.generation, a.target) <=>
        next.pending # None /\ next.pending.id = a.id /\ next.pending.generation = a.generation
        /\ sameTarget(next.pending.target, a.target)
  BY DEF ForPending
<1>8. Calm(ed, attemptOutcome(ed, a, "unknown")) /\ Waited(attemptOutcome(ed, a, "unknown"), n)
  BY UnknownOutcome
<1> HIDE DEF next, t, agrees
<1>9. ASSUME t = next, next.phase = "saving" => ~ForPending(next, a.id, a.generation, a.target)
      PROVE  Outcome(t, x.state) /\ Waited(t, n)
  <2>1. ASSUME next.pending # None, next.phase = "saving"
        PROVE  next.pending = ed.pending /\ ed.phase = "saving" /\ a.id # ed.pending.id
    <3>1. next.pending = ed.pending /\ ed.phase = "saving" /\ ~pends
      BY <1>5, <1>7, <1>9, <2>1 DEF ForPending
    <3>2. QED
      BY <2>1, <3>1, SessionFacts, AttemptKnown
  <2>2. QED
    BY <1>5, <1>9, <2>1 DEF Waited
<1>10. CASE ~agrees /\ a.origin = None
  BY <1>1, <1>4, <1>8, <1>10, CalmUndecided DEF t, x
<1>11. CASE ~(~agrees /\ a.origin = None) /\ next.phase # "saving"
  BY <1>1, <1>4, <1>9, <1>11 DEF t, x
<1>12. CASE ~(~agrees /\ a.origin = None) /\ next.phase = "saving"
  <2>1. CASE ~ForPending(next, a.id, a.generation, a.target)
    BY <1>1, <1>4, <1>6, <1>9, <1>12, <2>1 DEF t, x
  <2>2. CASE ForPending(next, a.id, a.generation, a.target)
    <3>1. t = markUnknown(next)
      BY <1>4, <1>6, <1>12, <2>2
    <3>2. Calm(ed, next) /\ ed.pending # None
      BY <1>5, <1>7, <2>2 DEF ForPending
    <3>3. Calm(ed, t) /\ t.phase = "unknown"
      BY <1>3, <3>1, <3>2, CalmUnknown
    <3>4. Outcome(t, x.state) /\ Waited(t, n)
      BY <3>3, CalmUndecided DEF Waited
    <3>5. QED
      BY <1>1, <3>4 DEF t, x
  <2>3. QED
    BY <2>1, <2>2
<1>13. QED
  BY <1>10, <1>11, <1>12

\* A step that settles requests, and whatever else it does, changes no store.
LEMMA SettledStep ==
  ASSUME Invariant, Browsing', UNCHANGED <<store, asked, left>>,
         NEW o, Outcome(ed', o), Settle(ed', o), Attempted(ed)',
         Refuses(ed', o) => \E n \in DOMAIN calls :
           /\ calls[n].a.id = ed.pending.id /\ ed.phase = "saving"
           /\ calls[n].answer # None /\ calls[n].answer.state = "refused",
         calls' = calls \/ (Reported /\ calls' \in Seq(Sends)),
         read' = None \/ read' = read \/ ~read'.answered,
         lookup' \in {lookup, None},
         route' = None \/ UNCHANGED <<route, block, pinned>>
  PROVE  Invariant'
<1>1. UNCHANGED <<here, made, record, decided, asked, left>>
  BY DEF store
<1>2. /\ Sound(ed)'
      /\ told' \in [Requests -> {"refused", "committed", "purged", None}]
      /\ \A r \in Requests : told'[r] = "refused" =>
           told[r] = "refused" \/ (Refuses(ed', o) /\ r = ed.pending.id)
  BY OutcomeSound
<1>3. Refuses(ed', o) =>
        /\ \A i \in Installs : decided[i][ed.pending.id] = Unused
        /\ \A n \in DOMAIN calls : calls[n].a.id = ed.pending.id => calls[n].host = "done"
  <2>1. SUFFICES ASSUME Refuses(ed', o)
                 PROVE  /\ \A i \in Installs : decided[i][ed.pending.id] = Unused
                        /\ \A n \in DOMAIN calls :
                             calls[n].a.id = ed.pending.id => calls[n].host = "done"
    OBVIOUS
  <2>2. PICK n \in DOMAIN calls :
           /\ calls[n].a.id = ed.pending.id /\ ed.phase = "saving"
           /\ calls[n].answer # None /\ calls[n].answer.state = "refused"
    BY <2>1
  <2>3. ed.pending # None /\ ed.pending.id \in Requests
    BY <2>1, TrackedIds DEF Refuses
  <2>4. \A m \in DOMAIN calls : calls[m].a.id = ed.pending.id => m = n
    BY <2>2, <2>3, SessionFacts DEF Sound, Attempted
  <2>5. calls[n].host = "done"
    BY <2>2 DEF Invariant, Ledger, Dispatched
  <2>6. ~Executed(ed.pending.id)
    BY <2>2, <2>4 DEF Executed
  <2>7. QED
    BY <2>3, <2>4, <2>5, <2>6 DEF Invariant, Ledger, Decided
<1>4. Ledger'
  BY <1>1, <1>2, <1>3, LedgerKept DEF Invariant
<1>5. ReadStored' /\ LookupDecided' /\ Linking'
  BY <1>1, ReadsKept DEF Invariant
<1>6. TypeOK'
  BY <1>1, <1>2 DEF Invariant, TypeOK, Browsing, Sound, Shape
<1>7. QED
  BY <1>2, <1>4, <1>5, <1>6 DEF Invariant

\* The end of an attempt.
LEMMA FinishStep ==
  ASSUME Invariant, NEW n \in DOMAIN calls, NEW o, NEW r, Finish(n, ed', r), Settle(ed', o),
         Outcome(ed', o), Waited(ed', n),
         Refuses(ed', o) => /\ calls[n].a.id = ed.pending.id /\ ed.phase = "saving"
                            /\ calls[n].answer # None /\ calls[n].answer.state = "refused"
  PROVE  Invariant'
<1>1. /\ calls' = Over(n)
      /\ UNCHANGED <<obs, pinned, block, held, seen, store, asked, left, lookup, route>>
      /\ hello' \in {Hello(None, TRUE), hello} /\ read' \in {Detail(ed'), read}
  BY DEF Finish, AfterOutcome, Over
<1>2. Reported /\ calls' \in Seq(Sends) /\ DOMAIN calls' = DOMAIN calls
      /\ \A m \in DOMAIN calls : calls'[m].a = calls[m].a /\ (m # n => calls'[m] = calls[m])
  BY <1>1, SessionFacts, OverTyped DEF Reported
<1>3. Attempted(ed)'
  <2>1. SUFFICES ASSUME ed'.pending # None, ed'.phase = "saving",
                        NEW m \in DOMAIN calls, calls[m].a.id = ed'.pending.id
                 PROVE  /\ calls'[m].open /\ calls'[m].a.generation = ed'.pending.generation
                        /\ \A k \in DOMAIN calls : calls'[k].a.id = ed'.pending.id => k = m
    BY <1>2 DEF Attempted, IsOpen
  <2>2. ed'.pending = ed.pending /\ ed.phase = "saving" /\ calls[n].a.id # ed.pending.id
    BY <2>1 DEF Waited
  <2>3. QED
    BY <1>2, <2>1, <2>2, SessionFacts DEF Sound, Attempted, IsOpen
<1>4. Shape(ed')
  <2>1. UNCHANGED <<asked, record, decided>>
    BY <1>1 DEF store
  <2>2. Sound(ed)'
    BY <1>1, <1>3, OutcomeSound
  <2>3. QED
    BY <2>2 DEF Sound, Shape
<1>5. Detail(ed') \in Reads \cup {None} /\ (Detail(ed') = None \/ ~Detail(ed').answered)
  BY <1>4, FetchTyped
<1>6. Hello(None, TRUE) \in Hellos
  BY HelloTyped DEF Known
<1>7. Browsing'
  BY <1>1, <1>5, <1>6, SessionFacts DEF Browsing, TypeOK
<1>8. QED
  BY <1>1, <1>2, <1>3, <1>5, <1>7, SettledStep

\* An attempt is given up.
LEMMA GivenUpStep == ASSUME Invariant, NEW n \in DOMAIN calls, GivenUp(n) PROVE Invariant'
<1> DEFINE next == attemptOutcome(ed, calls[n].a, "unknown")
<1>1. Calm(ed, next) /\ Waited(next, n)
  BY UnknownOutcome
<1>2. Finish(n, next, None) /\ Settle(next, None) /\ ed' = next
  BY DEF GivenUp, Finish
<1> HIDE DEF next
<1>3. Outcome(next, None) /\ ~Refuses(next, None)
  BY <1>1, CalmUndecided, NoneApart DEF Refuses
<1>4. QED
  BY <1>1, <1>2, <1>3, FinishStep

\* A host refuses an attempt.
LEMMA RefusalStep == ASSUME Invariant, NEW n \in DOMAIN calls, Refusal(n) PROVE Invariant'
<1> DEFINE next == attemptOutcome(ed, calls[n].a, calls[n].answer.code)
<1>1. /\ calls[n].answer # None /\ calls[n].answer.state = "refused"
      /\ Finish(n, next, None) /\ Settle(next, "refused") /\ ed' = next
  BY DEF Refusal, Finish
<1>2. calls[n].answer.code \in Codes
  BY <1>1, AttemptFacts DEF Answers
<1>3. /\ Outcome(next, "refused") /\ Waited(next, n)
      /\ Refuses(next, "refused") => calls[n].a.id = ed.pending.id /\ ed.phase = "saving"
  BY <1>2, RefusalOutcome
<1> HIDE DEF next
<1>4. QED
  BY <1>1, <1>3, FinishStep

\* A store answers an attempt with its receipt.
LEMMA SucceededStep == ASSUME Invariant, NEW n \in DOMAIN calls, Succeeded(n) PROVE Invariant'
<1> DEFINE x == calls[n].answer
           next == finishSuccess(ed, calls[n].a, x, x.inst, obs)
           r == IF x.state = "committed" THEN x ELSE None
<1>1. x # None /\ x.state # "refused" /\ Finish(n, next, r) /\ Settle(next, x.state) /\ ed' = next
  BY DEF Succeeded, Finish
<1>2. Outcome(next, x.state) /\ Waited(next, n) /\ x.state \in {"committed", "purged"}
  BY <1>1, SuccessOutcome
<1>3. ~Refuses(next, x.state)
  BY <1>2 DEF Refuses
<1> HIDE DEF next, x, r
<1>4. QED
  BY <1>1, <1>2, <1>3, FinishStep

\* The pane learns what became of a request.
LEMMA OutcomeDoneStep == ASSUME Invariant, OutcomeDone PROVE Invariant'
<1> DEFINE next == Receipted(ed, lookup, lookup, lookup.inst, obs)
<1>1. /\ lookup' = None
      /\ UNCHANGED <<obs, calls, pinned, block, held, seen, read, route, store, asked, left>>
      /\ \/ /\ ed' = next /\ Settle(next, lookup.state)
            /\ hello' \in {Hello(None, lookup.state = "committed"), hello}
         \/ UNCHANGED <<ed, told, hello>>
  BY DEF OutcomeDone
<1>2. /\ lookup \in Lookups /\ lookup.inst \in Known
      /\ lookup.state \in {"unknown", "committed", "purged"} /\ lookup.revision \in Nat
      /\ lookup.answered
  BY SessionFacts DEF OutcomeDone, TypeOK, Lookups
<1>3. lookup.state # "unknown" =>
        /\ lookup.inst # None /\ decided[lookup.inst][lookup.id] # Unused
        /\ lookup.state = "committed" => Made(lookup.inst, lookup.id, lookup.revision)
  BY <1>2 DEF OutcomeDone, Invariant, LookupDecided
<1>4. /\ Outcome(next, lookup.state)
      /\ next.pending # None => next.pending = ed.pending /\ next.phase \in {ed.phase, "unknown"}
  <2>1. /\ lookup.state # "unknown" => lookup.inst # None /\ decided[lookup.inst][lookup.id] # Unused
        /\ lookup.state = "committed" =>
             lookup.revision \in Nat /\ Made(lookup.inst, lookup.id, lookup.revision)
    BY <1>2, <1>3
  <2> DEFINE t == Receipted(ed, lookup, lookup, lookup.inst, obs)
  <2>2. /\ Outcome(t, lookup.state)
        /\ t.pending # None =>
             /\ t.pending = ed.pending /\ t.phase \in {ed.phase, "unknown"}
             /\ ForPending(ed, lookup.id, lookup.generation, lookup.target) => Calm(ed, t)
    BY <1>2, <2>1, ReceiptOutcome
  <2>3. QED
    BY <2>2
<1> HIDE DEF next
<1>5. Hello(None, lookup.state = "committed") \in Hellos
  BY HelloTyped DEF Known
<1>6. Browsing' /\ left' \in Limits
  BY <1>1, <1>5, SessionFacts DEF Browsing, TypeOK
<1>7. CASE UNCHANGED <<ed, told, hello>>
  BY <1>1, <1>6, <1>7, SessionFacts, PaneStep
<1>8. CASE ed' = next /\ Settle(next, lookup.state)
  <2>1. Attempted(ed)'
    BY <1>1, <1>4, <1>8, SessionFacts DEF Sound, Attempted, IsOpen
  <2>2. ~Refuses(next, lookup.state)
    BY <1>2 DEF Refuses
  <2>3. QED
    BY <1>1, <1>4, <1>6, <1>8, <2>1, <2>2, SettledStep
<1>9. QED
  BY <1>1, <1>7, <1>8

\* The answer to a read of the open record.
LEMMA AnsweredOutcome ==
  ASSUME Invariant, read # None, read.answered
  PROVE  Outcome(Answered(ed, read, obs), None)
<1> DEFINE t == Answered(ed, read, obs)
           current == isCurrentRead(ed, read) /\ authorityMatches(ed, obs)
           view == read.view
<1>1. t = IF ~current THEN ed
          ELSE IF read.inst # ed.expected THEN quarantine(ed)
          ELSE IF view = None THEN detailMissing(ed) ELSE loaded(ed, view)
  BY DEF Answered
<1>2. Calm(ed, ed) /\ Calm(ed, quarantine(ed)) /\ Sound(ed) /\ Shape(ed)
  BY SessionFacts, CalmOnes
<1>3. CASE t = ed \/ t = quarantine(ed)
  BY <1>2, <1>3, CalmUndecided
<1>4. CASE t = detailMissing(ed)
  BY <1>2, <1>4, MissingSound DEF Outcome, Undecided
<1>5. CASE current /\ read.inst = ed.expected /\ view # None /\ t = loaded(ed, view)
  <2>1. /\ read \in Reads /\ view \in Views /\ ed.target # None /\ ed.phase # "purged"
        /\ read.target.key = ed.target.key
    BY <1>5, SessionFacts DEF TypeOK, Reads, isCurrentRead, sameTarget
  <2>2. ed.expected # None /\ view.revision > 0 /\ Wording(ed.expected, ed.target.key, view)
    BY <1>5, <2>1 DEF Invariant, ReadStored
  <2>3. CASE ~view.purged
    BY <1>2, <1>5, <2>1, <2>2, <2>3, LoadedSound DEF Outcome, Undecided
  <2>4. CASE view.purged
    <3>1. t = purge(ed, ed.target)
      BY <1>5, <2>4 DEF loaded
    <3>2. /\ ed.target \in Targets /\ ed.expected = installationOf(ed.target)
          /\ ed.expected \in Installs /\ ed.target.key \in Keys
      BY <1>2, <2>1, <2>2, OpenTarget, InstallationOf DEF Known
    <3>3. Met(ed.target.key)
      <4>1. record[ed.expected][ed.target.key] \in Records
        BY <3>2, SessionFacts DEF TypeOK
      <4>2. Len(record[ed.expected][ed.target.key].log) > 0
        <5>1. Len(record[ed.expected][ed.target.key].log) \in Nat /\ view.revision \in Nat
          BY <2>1, <4>1 DEF Records, Views
        <5>2. QED
          BY <2>2, <5>1 DEF Wording
      <4>3. record[ed.expected][ed.target.key].log # <<>>
        BY <4>2
      <4>4. QED
        BY <3>2, <4>3 DEF Met
    <3>4. Rooted(ed)
      BY <1>2 DEF Sound, Rooted
    <3>5. /\ Purges(ed, t, ed.target) /\ t.unresolved = ed.unresolved
          /\ ed.pending # None => Home(ed.pending.id, ed.expected)
      BY <2>1, <2>2, <3>1, <3>3, <3>4, PurgeRooted
    <3> HIDE DEF t
    <3>6. RecordEnds(t, None)
      BY <3>2, <3>3, <3>5 DEF RecordEnds
    <3>7. QED
      BY <3>6 DEF Outcome, t
  <2>5. QED
    BY <2>3, <2>4
<1>6. QED
  <2> HIDE DEF t, current, view
  <2>1. t = ed \/ t = quarantine(ed) \/ t = detailMissing(ed)
        \/ (current /\ read.inst = ed.expected /\ view # None /\ t = loaded(ed, view))
    BY <1>1
  <2>2. QED
    BY <1>3, <1>4, <1>5, <2>1

\* The pane shows what was read.
LEMMA DetailDoneStep == ASSUME Invariant, DetailDone PROVE Invariant'
<1>1. /\ read # None /\ read.answered /\ read' = None
      /\ ed' \in {ed, Answered(ed, read, obs)} /\ Settle(ed', None)
      /\ UNCHANGED <<obs, calls, pinned, block, held, seen, hello, lookup, route, store, asked, left>>
  BY DEF DetailDone
<1>2. Calm(ed, ed) /\ Sound(ed)
  BY SessionFacts, CalmOnes
<1>3. Outcome(ed', None)
  BY <1>1, <1>2, AnsweredOutcome, CalmUndecided
<1>4. ~Refuses(ed', None) /\ ~SaveEnds(ed', None) /\ ~Commit(ed', None)
  BY NoneApart DEF Refuses, SaveEnds, Commit
<1>5. Attempted(ed')
  <2>1. CASE Undecided(ed')
    BY <2>1 DEF Undecided, Sound
  <2>2. CASE RecordEnds(ed', None)
    BY <2>2 DEF RecordEnds, Purges, Attempted
  <2>3. QED
    BY <1>3, <1>4, <2>1, <2>2 DEF Outcome
<1>6. Attempted(ed)'
  BY <1>1, <1>5 DEF Attempted, IsOpen
<1>7. Browsing'
  BY <1>1, SessionFacts DEF Browsing, TypeOK
<1>8. QED
  BY <1>1, <1>3, <1>4, <1>6, <1>7, SettledStep

------------------------------------------------------------------------------
(* A request is submitted, and sent.                                          *)

\* A new attempt comes after the others.
LEMMA Appended ==
  ASSUME calls \in Seq(Sends), NEW x \in Sends
  PROVE  /\ Append(calls, x) \in Seq(Sends)
         /\ DOMAIN Append(calls, x) = DOMAIN calls \cup {Len(calls) + 1}
         /\ Len(calls) + 1 \notin DOMAIN calls
         /\ Append(calls, x)[Len(calls) + 1] = x
         /\ \A n \in DOMAIN calls : Append(calls, x)[n] = calls[n]
<1>1. Len(calls) \in Nat /\ DOMAIN calls = 1 .. Len(calls)
  OBVIOUS
<1>2. Append(calls, x) \in Seq(Sends) /\ Len(Append(calls, x)) = Len(calls) + 1
      /\ Append(calls, x)[Len(calls) + 1] = x
      /\ \A n \in DOMAIN calls : Append(calls, x)[n] = calls[n]
  OBVIOUS
<1>3. DOMAIN Append(calls, x) = 1 .. (Len(calls) + 1)
  BY <1>2
<1>4. QED
  BY <1>1, <1>2, <1>3

\* Request r is sent by x, for the store it was or is now composed for; it was
\* not told to be over.
Dispatches(x) ==
  /\ x \in Sends /\ x.open /\ x.answer = None
  /\ x.a.pre = Origin(x.a.target) /\ x.a.origin = x.a.pre
  /\ told[x.a.id] = None
  /\ x.a.pre = None => \A n \in DOMAIN calls : calls[n].a.id # x.a.id

\* What is known of the requests holds when one is sent.
LEMMA SentLedger ==
  ASSUME Ledger, calls \in Seq(Sends), UNCHANGED <<made, record, decided, told>>,
         NEW x, Dispatches(x), calls' = calls \/ calls' = Append(calls, x),
         \A q \in Requests : asked'[q] = asked[q] \/ (q = x.a.id /\ asked[q] = None),
         asked'[x.a.id] # None, asked'[x.a.id].key = x.a.target.key,
         asked'[x.a.id].origin = x.a.pre, Fits(asked'[x.a.id])
  PROVE  Ledger'
<1>0. /\ x \in Sends /\ x.a.id \in Requests /\ x.answer = None /\ told[x.a.id] # "refused"
  BY NoneApart DEF Dispatches, Sends, Attempts
<1>1. /\ DOMAIN calls' \in {DOMAIN calls, DOMAIN calls \cup {Len(calls) + 1}}
      /\ Len(calls) + 1 \notin DOMAIN calls
      /\ Len(calls) + 1 \in DOMAIN calls' => calls'[Len(calls) + 1] = x
      /\ \A n \in DOMAIN calls : calls'[n] = calls[n]
  BY <1>0, Appended
<1> DEFINE last == Len(calls) + 1
<1> HIDE DEF last
<1>2. /\ \A n \in DOMAIN calls' : n \in DOMAIN calls \/ (n = last /\ calls'[n] = x)
      /\ \A n \in DOMAIN calls : n \in DOMAIN calls' /\ calls'[n] = calls[n]
      /\ last \notin DOMAIN calls
  BY <1>1 DEF last
<1>3. /\ \A n \in DOMAIN calls : calls[n].a.id \in Requests /\ asked[calls[n].a.id] # None
      /\ \A q \in Requests : asked[q] # None => asked'[q] = asked[q]
  BY SendsTyped DEF Ledger, Dispatched, Asks
<1>4. \A i, r, v : Made(i, r, v) <=> Makes(record, i, asked[r], v)
  BY MadeMakes
<1>5. Refusals'
  BY <1>0, <1>2 DEF Ledger, Refusals
<1>6. Untouched'
  BY DEF Ledger, Untouched
<1>7. Submitted'
  <2>1. SUFFICES ASSUME NEW q \in Requests
                 PROVE  IF asked'[q] = None
                        THEN /\ \A i \in Installs : decided[i][q] = Unused
                             /\ \A n \in DOMAIN calls' : calls'[n].a.id # q
                        ELSE Fits(asked'[q])
    BY DEF Submitted, Fits
  <2>2. CASE q = x.a.id
    BY <2>2
  <2>3. CASE q # x.a.id
    <3>1. asked'[q] = asked[q]
      BY <2>3
    <3>2. IF asked[q] = None
          THEN /\ \A i \in Installs : decided[i][q] = Unused
               /\ \A n \in DOMAIN calls : calls[n].a.id # q
          ELSE Fits(asked[q])
      BY DEF Ledger, Submitted
    <3>3. QED
      BY <1>2, <2>3, <3>1, <3>2
  <2>4. QED
    BY <2>2, <2>3
<1>8. Dispatched'
  <2>1. SUFFICES ASSUME NEW n \in DOMAIN calls'
                 PROVE  LET a == calls'[n].a
                            y == calls'[n].answer
                        IN /\ asked'[a.id] # None /\ asked'[a.id].key = a.target.key
                           /\ asked'[a.id].origin = Origin(a.target)
                           /\ a.pre = asked'[a.id].origin /\ a.origin = a.pre
                           /\ a.pre = None => \A m \in DOMAIN calls' : calls'[m].a.id = a.id => m = n
                           /\ y # None => calls'[n].host = "done"
                           /\ y # None /\ y.state # "refused" =>
                                /\ decided[y.inst][a.id] # Unused
                                /\ y.state = "committed" => Makes(record, y.inst, asked'[a.id], y.revision)
    BY DEF Dispatched, Asks, Origin, Made, Makes
  <2>2. CASE n \in DOMAIN calls
    <3> DEFINE a == calls[n].a
               y == calls[n].answer
    <3>1. /\ asked[a.id] # None /\ asked[a.id].key = a.target.key
          /\ asked[a.id].origin = Origin(a.target)
          /\ a.pre = asked[a.id].origin /\ a.origin = a.pre
          /\ a.pre = None => \A m \in DOMAIN calls : calls[m].a.id = a.id => m = n
          /\ y # None => calls[n].host = "done"
          /\ y # None /\ y.state # "refused" =>
               /\ decided[y.inst][a.id] # Unused
               /\ y.state = "committed" => Makes(record, y.inst, asked[a.id], y.revision)
      BY <1>4, <2>2 DEF Ledger, Dispatched, Asks
    <3>2. a.id \in Requests /\ asked'[a.id] = asked[a.id]
      BY <1>3, <2>2
    <3>3. a.pre = None => \A m \in DOMAIN calls' : calls'[m].a.id = a.id => m = n
      <4>1. SUFFICES ASSUME a.pre = None, NEW m \in DOMAIN calls', calls'[m].a.id = a.id
                     PROVE  m = n
        OBVIOUS
      <4>2. CASE m \in DOMAIN calls
        BY <1>2, <3>1, <4>1, <4>2
      <4>3. CASE m \notin DOMAIN calls
        <5>1. x.a.id = a.id /\ x.a.pre = None
          BY <1>2, <3>1, <3>2, <4>1, <4>3
        <5>2. QED
          BY <2>2, <5>1 DEF Dispatches
      <4>4. QED
        BY <4>2, <4>3
    <3>5. calls'[n] = calls[n]
      BY <1>2, <2>2
    <3> HIDE DEF a, y
    <3>6. QED
      BY <3>1, <3>2, <3>3, <3>5 DEF a, y
  <2>3. CASE n \notin DOMAIN calls
    <3>1. calls'[n] = x /\ n = last
      BY <1>2, <2>3
    <3>2. x.a.pre = None => \A m \in DOMAIN calls' : calls'[m].a.id = x.a.id => m = n
      BY <1>2, <3>1 DEF Dispatches
    <3>3. QED
      BY <3>1, <3>2 DEF Dispatches
  <2>4. QED
    BY <2>2, <2>3
<1>9. Decided'
  <2>1. ASSUME NEW i \in Installs, NEW r \in Requests,
               decided[i][r].state = "committed" => Makes(record, i, asked'[r], decided[i][r].revision)
        PROVE  (decided[i][r].state = "committed" => Made(i, r, decided[i][r].revision))'
    BY <2>1 DEF Made, Makes
  <2>2. SUFFICES ASSUME NEW i \in Installs, NEW r \in Requests
                 PROVE  /\ decided[i][r].state = "none" => decided[i][r] = Unused
                        /\ decided[i][r].state = "committed" => Makes(record, i, asked'[r], decided[i][r].revision)
                        /\ decided[i][r] # Unused =>
                             /\ asked'[r] # None /\ asked'[r].origin \in {None, i}
                             /\ decided[i][r].revision <= Len(record[i][asked'[r].key].log)
                             /\ \A j \in Installs : decided[j][r] # Unused => i = j
                             /\ Executed(r)'
    BY <2>1 DEF Decided
  <2>3. CASE decided[i][r] = Unused
    BY <2>3 DEF Unused
  <2>4. CASE decided[i][r] # Unused
    <3>1. /\ asked[r] # None /\ asked[r].origin \in {None, i}
          /\ decided[i][r].revision <= Len(record[i][asked[r].key].log)
          /\ \A j \in Installs : decided[j][r] # Unused => i = j
          /\ Executed(r)
          /\ decided[i][r].state = "none" => decided[i][r] = Unused
          /\ decided[i][r].state = "committed" => Makes(record, i, asked[r], decided[i][r].revision)
      BY <1>4, <2>4 DEF Ledger, Decided
    <3>2. asked'[r] = asked[r]
      BY <1>3, <3>1
    <3>3. Executed(r)'
      BY <1>2, <3>1 DEF Executed
    <3>4. QED
      BY <3>1, <3>2, <3>3
  <2>5. QED
    BY <2>3, <2>4
<1>10. QED
  BY <1>5, <1>6, <1>7, <1>8, <1>9 DEF Ledger

\* A change is composed on the base there is, and a capture on no version.
LEMMA ChangeFits ==
  ASSUME NEW s, Shape(s), s.target # None, s.base # None, NEW intent, buildChange(s, intent) # None
  PROVE  LET c == buildChange(s, intent) IN
         /\ c \in Mutations /\ c.revision = s.base.revision
         /\ c.kind = "capture" <=> c.revision = 0
         /\ c.kind \in {"capture", "edit"} => c.text \in Texts
         /\ s.expected = None => c.kind = "capture"
<1> DEFINE c == buildChange(s, intent)
           rev == IF s.mode = "capture" THEN 0 ELSE s.base.revision
<1>1. s.mode \in {"capture", "existing"}
  BY OpenTarget
<1>2. /\ s.base.revision \in Nat /\ rev = s.base.revision /\ rev \in Nat
      /\ rev = 0 <=> s.mode = "capture"
      /\ s.expected = None => s.mode = "capture"
  BY DEF Shape, Editors, Versions, Versioned
<1> HIDE DEF rev
<1>3. \/ /\ s.draft \in Texts
         /\ c = [kind |-> IF s.mode = "capture" THEN "capture" ELSE "edit", text |-> s.draft, revision |-> rev]
      \/ /\ intent \in {"important", "purge"} /\ s.mode = "existing"
         /\ c = [kind |-> intent, text |-> None, revision |-> rev]
  BY DEF buildChange, rev
<1> HIDE DEF c
<1>4. QED
  BY <1>1, <1>2, <1>3 DEF Mutations, c

\* A request is about the open record, whose store is named once it is known.
LEMMA SubmitShape ==
  ASSUME NEW s, Shape(s), NEW r \in Requests, NEW intent, CanSubmit(s, r, intent)
  PROVE  LET t == submit(s, r, intent) IN
         /\ Shape(t)
         /\ t.target.key = s.target.key /\ t.expected = s.expected
         /\ Origin(t.target) = s.expected /\ installationOf(t.target) = s.expected
         /\ t.target \in Targets
         /\ t.pending = [id |-> r, target |-> t.target, generation |-> s.generation,
                         mutation |-> buildChange(s, intent)]
         /\ t.pending \in Pendings
         /\ t.unresolved = s.unresolved /\ t.tombstones = s.tombstones
         /\ t.tombstonesSaturated = s.tombstonesSaturated
         /\ t.base = s.base /\ t.loaded = s.loaded /\ t.phase = "saving"
         /\ s.phase # "purged"
         /\ t.target.bind = s.target.bind \/ t.target.bind # Loc
<1> DEFINE t == submit(s, r, intent)
           c == buildChange(s, intent)
           x == IF s.expected = None THEN s.target ELSE Target(s.expected, s.target.key)
           p == [id |-> r, target |-> x, generation |-> s.generation, mutation |-> c]
<1>1. /\ s.pending = None /\ s.phase # "purged" /\ s.blocked = None
      /\ s.target # None /\ s.base # None
      /\ ~isTombstoned(s, s.target) /\ ~isStoreUnresolved(s, s.target)
      /\ \A u \in s.unresolved : u.id # r
      /\ c # None
  BY DEF CanSubmit
<1>2. /\ c \in Mutations /\ c.revision = s.base.revision
      /\ s.expected = None => c.kind = "capture"
  BY <1>1, ChangeFits
<1> HIDE DEF c
<1>3. /\ s.target \in Targets /\ s.expected = installationOf(s.target)
      /\ s.mode \in {"capture", "existing"} /\ s \in Editors /\ s.expected \in Known
      /\ s.generation \in Nat
  BY <1>1, OpenTarget DEF Shape, Editors
<1>4. /\ x \in Targets /\ x.key = s.target.key
      /\ installationOf(x) = s.expected /\ Origin(x) = s.expected
      /\ x.bind = Loc => x.inst = None
      /\ x.bind = s.target.bind \/ x.bind # Loc
  <2>1. CASE s.expected = None
    BY <1>3, <2>1, InstallationOf, NoneApart DEF installationOf, Origin
  <2>2. CASE s.expected # None
    <3>1. s.expected \in Installs /\ s.expected # Loc /\ s.target.key \in Keys
      BY <1>3, <2>2, InstallationOf, NoneApart DEF Known
    <3>2. QED
      BY <2>2, <3>1 DEF Target, installationOf, Origin, Targets, Known
  <2>3. QED
    BY <2>1, <2>2
<1> HIDE DEF x
<1>5. p \in Pendings
  BY <1>2, <1>3, <1>4 DEF Pendings
<1> HIDE DEF p
<1>6. t \in Editors
  <2>1. [s EXCEPT !.target = x] \in Editors
    BY <1>3, <1>4, Setters
  <2>2. [s EXCEPT !.target = x, !.phase = "saving"] \in Editors
    BY <2>1, Setters DEF Phases
  <2>3. [s EXCEPT !.target = x, !.phase = "saving", !.pending = p] \in Editors
    BY <2>2, <1>5, Setters
  <2>4. QED
    BY <2>3 DEF submit, x, p, c
<1>7. /\ t.target = x /\ t.pending = p /\ t.phase = "saving"
      /\ t.expected = s.expected /\ t.mode = s.mode
      /\ t.unresolved = s.unresolved /\ t.tombstones = s.tombstones
      /\ t.tombstonesSaturated = s.tombstonesSaturated
      /\ t.base = s.base /\ t.loaded = s.loaded /\ t.draft = s.draft /\ t.blocked = s.blocked
  BY <1>3 DEF submit, x, p, c, Editors
<1>8. p.id = r /\ p.target = x /\ p.mutation = c
  BY DEF p
<1> HIDE DEF t
<1>9. x # None /\ p # None
  BY <1>4, <1>5, NoneApart
<1>10. Bounded(t) /\ Listing(t) /\ Waits(t)
  BY <1>1, <1>7 DEF Shape, Bounded, Listing, Waits
<1>11. Placed(t)
  BY <1>3, <1>4, <1>7, <1>9, NoneApart DEF Placed
<1>12. Pending(t)
  BY <1>1, <1>2, <1>4, <1>7, <1>8, <1>9, NoneApart DEF Pending
<1>13. Versioned(t)
  BY <1>1, <1>7 DEF Shape, Versioned
<1>14. Closed(t)
  <2>1. ~isTombstoned(t, x)
    BY <1>1, <1>3, <1>4, <1>7 DEF isTombstoned, sameRecord
  <2>2. QED
    BY <1>7, <2>1 DEF Closed
<1>15. Apart(t)
  BY <1>1, <1>4, <1>7 DEF Shape, Apart
<1>16. Shape(t)
  BY <1>6, <1>10, <1>11, <1>12, <1>13, <1>14, <1>15 DEF Shape
<1>17. QED
  BY <1>1, <1>4, <1>5, <1>7, <1>16 DEF t, p, c

\* What the pane reads and looks up is kept when a request gets its id.
LEMMA ReadsAsked ==
  ASSUME ReadStored, LookupDecided, Linking, UNCHANGED <<record, decided, read, lookup, route, block, pinned>>,
         \A q : asked[q] # None => asked'[q] = asked[q]
  PROVE  ReadStored' /\ LookupDecided' /\ Linking'
<1>1. ReadStored'
  BY DEF ReadStored, Wording
<1>2. LookupDecided'
  <2>1. SUFFICES ASSUME lookup # None
                 PROVE  /\ asked'[lookup.id] # None
                        /\ ~lookup.answered => lookup.state = "unknown"
                        /\ lookup.answered /\ lookup.state # "unknown" =>
                             /\ lookup.inst # None /\ decided[lookup.inst][lookup.id] # Unused
                             /\ lookup.state = "committed" =>
                                  Makes(record, lookup.inst, asked'[lookup.id], lookup.revision)
    <3>1. lookup' = lookup /\ decided' = decided /\ record' = record
      OBVIOUS
    <3>2. Made(lookup.inst, lookup.id, lookup.revision)' <=> Makes(record, lookup.inst, asked[lookup.id], lookup.revision)'
      BY Zenon DEF Made, Makes
    <3>3. Makes(record, lookup.inst, asked[lookup.id], lookup.revision)' <=> Makes(record, lookup.inst, asked'[lookup.id], lookup.revision)
      BY <3>1, Zenon DEF Makes
    <3>4. QED
      BY <3>1, <3>2, <3>3, Zenon DEF LookupDecided
  <2>2. QED
    BY <2>1, MadeMakes DEF LookupDecided
<1>3. Linking'
  BY DEF Linking
<1>4. QED
  BY <1>1, <1>2, <1>3

\* An attempt carries what its request was composed for.
Begun(s) == [a |-> beginAttempt(s), open |-> TRUE, host |-> "waiting", answer |-> None]

\* Its types, and what it carries.
LEMMA AttemptBegun ==
  ASSUME NEW s, s.pending \in Pendings, s.expected \in Known,
         s.expected = installationOf(s.pending.target)
  PROVE  LET x == Begun(s) IN
         /\ x \in Sends /\ x.open /\ x.answer = None
         /\ x.a \in Attempts /\ x.a.id = s.pending.id /\ x.a.target = s.pending.target
         /\ x.a.generation = s.pending.generation
         /\ x.a.pre = s.expected /\ x.a.origin = s.expected
<1> DEFINE a == beginAttempt(s)
<1>1. a = [id |-> s.pending.id, target |-> s.pending.target, generation |-> s.pending.generation,
           pre |-> s.expected, origin |-> s.expected, afterUnknown |-> s.phase = "unknown"]
  BY DEF beginAttempt
<1>2. (s.phase = "unknown") \in BOOLEAN
  OBVIOUS
<1>3. s.pending.id \in Requests /\ s.pending.target \in Targets /\ s.pending.generation \in Nat
  BY DEF Pendings
<1> HIDE DEF a
<1>4. a \in Attempts /\ a.id = s.pending.id /\ a.target = s.pending.target
      /\ a.generation = s.pending.generation /\ a.pre = s.expected /\ a.origin = s.expected
  BY <1>1, <1>2, <1>3 DEF Attempts
<1>5. [a |-> a, open |-> TRUE, host |-> "waiting", answer |-> None] \in Sends
  BY <1>4 DEF Sends
<1>6. QED
  BY <1>4, <1>5 DEF Begun, a

\* A request is submitted, and sent if it may be.
LEMMA SubmitStep ==
  ASSUME Invariant, NEW r \in Requests, NEW intent, Submit(r, intent)
  PROVE  Invariant'
<1> DEFINE x == Begun(ed')
           y == [key |-> ed.target.key, change |-> buildChange(ed, intent), origin |-> ed.expected]
<1>1. /\ asked[r] = None /\ CanSubmit(ed, r, intent) /\ ed' = submit(ed, r, intent)
      /\ asked' = [asked EXCEPT ![r] = y]
      /\ calls' = calls \/ calls' = Append(calls, x)
      /\ UNCHANGED <<obs, pinned, block, held, seen, hello, here, made, record, decided, told>>
      /\ UNCHANGED <<read, lookup, route>> /\ Spend("requests")
  BY DEF Submit, Sent, SameContext, store, Begun
<1>2. /\ TypeOK /\ Shape(ed) /\ Sound(ed) /\ calls \in Seq(Sends) /\ ed \in Editors
  BY SessionFacts
<1>3. /\ Shape(ed')
      /\ ed'.target.key = ed.target.key /\ ed'.expected = ed.expected
      /\ Origin(ed'.target) = ed.expected /\ installationOf(ed'.target) = ed.expected
      /\ ed'.target \in Targets
      /\ ed'.pending = [id |-> r, target |-> ed'.target, generation |-> ed.generation,
                        mutation |-> buildChange(ed, intent)]
      /\ ed'.pending \in Pendings
      /\ ed'.unresolved = ed.unresolved /\ ed'.tombstones = ed.tombstones
      /\ ed'.tombstonesSaturated = ed.tombstonesSaturated
      /\ ed'.base = ed.base /\ ed'.loaded = ed.loaded /\ ed'.phase = "saving"
      /\ ed.phase # "purged"
      /\ ed'.target.bind = ed.target.bind \/ ed'.target.bind # Loc
  BY <1>1, <1>2, SubmitShape
<1>4. /\ ed.pending = None /\ ed.target # None /\ ed.base # None
      /\ buildChange(ed, intent) # None
  BY <1>1 DEF CanSubmit
<1>5. /\ buildChange(ed, intent) \in Mutations
      /\ Fits(y)
  BY <1>2, <1>4, ChangeFits DEF Fits
<1>6. ed'.pending # None /\ ed.target.key \in Keys /\ ed.expected \in Known
  BY <1>2, <1>3, <1>4, InstallationOf, OpenTarget, NoneApart DEF Editors
<1>7. y \in Submissions /\ y # None
  BY <1>5, <1>6, NoneApart DEF Submissions
<1>8. y.key = ed.target.key /\ y.origin = ed.expected /\ y.change = buildChange(ed, intent)
  OBVIOUS
<1> HIDE DEF y
<1>9. /\ asked'[r] = y /\ \A q : q # r => asked'[q] = asked[q]
      /\ asked' \in [Requests -> Submissions \cup {None}]
  BY <1>1, <1>2, <1>7 DEF TypeOK
<1>10. told[r] = None
  BY <1>1, <1>2 DEF Sound, Tracks
<1>11. /\ x.a \in Attempts /\ x.a.id = r /\ x.a.target = ed'.target /\ x.a.pre = ed.expected
       /\ x.a.origin = ed.expected /\ x.a.generation = ed.generation
       /\ x.open /\ x.answer = None /\ x \in Sends
  <2>1. ed'.pending.id = r /\ ed'.pending.target = ed'.target
        /\ ed'.pending.generation = ed.generation
    BY <1>3
  <2>2. QED
    BY <1>3, <1>6, <2>1, AttemptBegun DEF x
<1> HIDE DEF x
<1>12. \A n \in DOMAIN calls : calls[n].a.id # r
  BY <1>1 DEF Invariant, Ledger, Submitted
<1>13. Ledger'
  <2>1. Dispatches(x)
    BY <1>3, <1>10, <1>11, <1>12 DEF Dispatches
  <2>2. /\ \A q \in Requests : asked'[q] = asked[q] \/ (q = x.a.id /\ asked[q] = None)
        /\ asked'[x.a.id] # None /\ asked'[x.a.id].key = x.a.target.key
        /\ asked'[x.a.id].origin = x.a.pre /\ Fits(asked'[x.a.id])
    BY <1>1, <1>3, <1>5, <1>7, <1>8, <1>9, <1>11
  <2>3. Ledger
    BY DEF Invariant
  <2>4. QED
    BY <1>1, <1>2, <2>1, <2>2, <2>3, SentLedger
<1>14. \A q : asked[q] # None => asked'[q] = asked[q]
  BY <1>1, <1>9
<1>15. ReadStored' /\ LookupDecided' /\ Linking'
  BY <1>1, <1>14, ReadsAsked DEF Invariant
<1>16. Anchored(ed)'
  <2>1. asked'[r] # None /\ asked'[r].key = ed'.target.key /\ asked'[r].origin = Origin(ed'.target)
    BY <1>3, <1>7, <1>8, <1>9
  <2>2. ed'.pending.id = r /\ ed'.pending.target = ed'.target
    BY <1>3
  <2>3. ed'.pending.id = r /\ ed'.pending.mutation = asked'[r].change
    BY <1>3, <1>8, <1>9
  <2>4. \A u \in ed.unresolved : Asks(u.id, u.target)'
    BY <1>2, <1>14 DEF Sound, Anchored, Asks, Origin
  <2>5. \A k : Met(k) => Met(k)'
    BY <1>1, <1>14 DEF Met
  <2>6. \A z \in ed.tombstones : Met(z.key)'
    BY <1>2, <2>5 DEF Sound, Anchored
  <2>7. \A u \in ed'.unresolved : Asks(u.id, u.target)'
    BY <1>3, <2>4
  <2>8. \A z \in ed'.tombstones : Met(z.key)'
    BY <1>3, <2>6
  <2>9. (ed.pending # None =>
            /\ Asks(ed.pending.id, ed.pending.target)
            /\ ed.pending.mutation \in {None, asked[ed.pending.id].change})'
    BY <2>1, <2>2, <2>3 DEF Asks, Origin
  <2>10. QED
    BY <2>7, <2>8, <2>9 DEF Anchored
<1>17. Stored(ed)'
  <2>1. Stored(ed) /\ ed'.base = ed.base /\ ed'.loaded = ed.loaded /\ record' = record
        /\ ed'.expected = ed.expected /\ ed'.target.key = ed.target.key
    BY <1>1, <1>2, <1>3 DEF Sound
  <2>2. QED
    BY <2>1 DEF Stored, Wording
<1>18. Attempted(ed)'
  <2>1. CASE calls' = calls
    BY <1>3, <1>12, <2>1 DEF Attempted
  <2>2. CASE calls' = Append(calls, x)
    <3>1. /\ DOMAIN calls' = DOMAIN calls \cup {Len(calls) + 1}
          /\ calls'[Len(calls) + 1] = x
          /\ \A n \in DOMAIN calls : calls'[n] = calls[n]
      BY <1>2, <1>11, <2>2, Appended
    <3>2. \A n \in DOMAIN calls' : calls'[n].a.id = r => n = Len(calls) + 1
      BY <1>12, <3>1
    <3>3. QED
      BY <1>3, <1>11, <3>1, <3>2 DEF Attempted, IsOpen
  <2>3. QED
    BY <1>1, <2>1, <2>2
<1>19. Tracks(ed)'
  <2>1. Tracked(ed') = Tracked(ed) \cup {r}
    BY <1>3, <1>4, <1>6 DEF Tracked
  <2>2. QED
    BY <1>1, <1>2, <1>7, <1>9, <1>10, <2>1 DEF Sound, Tracks
<1>20. Buried(ed)'
  <2>1. \A q \in Requests : told[q] = "purged" => q # r /\ asked'[q] = asked[q]
    BY <1>9, <1>10, NoneApart
  <2>2. \A q \in Requests : \A i : told[q] = "purged" => (Home(q, i)' <=> Home(q, i))
    BY <1>1, <2>1 DEF Home
  <2>3. SUFFICES ASSUME NEW q \in Requests, told'[q] = "purged"
                 PROVE  /\ \E i \in Installs :
                             /\ Home(q, i)'
                             /\ \/ ed'.tombstonesSaturated
                                \/ \E z \in ed'.tombstones :
                                     z.key = asked'[q].key /\ installationOf(z) = i
                        /\ ed'.target # None /\ ed'.target.key = asked'[q].key
                           /\ ed'.phase # "purged" =>
                             /\ ed'.target.bind # Loc
                             /\ ~(asked'[q].origin = ed'.expected
                                  \/ (asked'[q].origin = None /\ decided'[ed'.expected][q] # Unused))
    BY DEF Buried, Home, installationOf
  <2>4. /\ \E i \in Installs :
             /\ Home(q, i)
             /\ \/ ed.tombstonesSaturated
                \/ \E z \in ed.tombstones : z.key = asked[q].key /\ installationOf(z) = i
        /\ ed.target # None /\ ed.target.key = asked[q].key /\ ed.phase # "purged" =>
             ed.target.bind # Loc /\ ~Home(q, ed.expected)
    BY <1>1, <1>2, <2>3 DEF Sound, Buried
  <2>5. told[q] = "purged"
    BY <1>1, <2>3
  <2>6. QED
    BY <1>1, <1>3, <1>4, <2>1, <2>2, <2>4, <2>5 DEF Home
<1>21. TypeOK'
  <2>1. calls' \in Seq(Sends)
    BY <1>1, <1>2, <1>11, Appended
  <2>2. left' \in Limits
    BY <1>1, <1>2, SpendTyped DEF TypeOK
  <2>3. QED
    BY <1>1, <1>2, <1>3, <1>9, <2>1, <2>2 DEF TypeOK, Shape
<1>22. Sound(ed)'
  BY <1>3, <1>16, <1>17, <1>18, <1>19, <1>20 DEF Sound
<1>23. QED
  BY <1>13, <1>15, <1>21, <1>22 DEF Invariant

\* A request is sent again.
LEMMA RetryStep == ASSUME Invariant, Retry PROVE Invariant'
<1> DEFINE x == Begun(ed)
           p == ed.pending
<1>1. /\ p # None /\ CanPrepare(ed, obs) /\ ~sending
      /\ calls' = calls \/ calls' = Append(calls, x)
      /\ UNCHANGED <<ed, obs, pinned, block, held, seen, hello, here, made, record, decided, asked, told, left>>
      /\ UNCHANGED <<read, lookup, route>>
  BY DEF Retry, Sent, pane, store, Begun
<1>2. /\ TypeOK /\ Shape(ed) /\ Sound(ed) /\ calls \in Seq(Sends) /\ ed \in Editors
  BY SessionFacts
<1>3. /\ p \in Pendings /\ ed.expected \in Known /\ ed.target # None /\ ed.target = p.target
      /\ ed.expected = installationOf(p.target)
      /\ ed.target.bind = Loc => ed.target.inst = None
  BY <1>1, <1>2, NoneApart DEF Shape, Placed, Pending, Editors
<1>4. /\ x \in Sends /\ x.open /\ x.answer = None /\ x.a.id = p.id /\ x.a.target = p.target
      /\ x.a.generation = p.generation /\ x.a.pre = ed.expected /\ x.a.origin = ed.expected
  BY <1>3, AttemptBegun
<1>5. p.id \in Requests /\ p.target \in Targets
  BY <1>3 DEF Pendings
<1>6. ed.expected = Origin(p.target)
  BY <1>3, <1>5, InstallationOf DEF Origin
<1>7. /\ Asks(p.id, p.target) /\ asked[p.id] # None
  BY <1>1, <1>2 DEF Sound, Anchored, Asks
<1>8. told[p.id] = None
  <2>1. p.id \in Tracked(ed)
    BY <1>1 DEF Tracked
  <2>2. QED
    BY <1>2, <1>5, <2>1 DEF Sound, Tracks
<1>9. ed.phase = "saving" => \A n \in DOMAIN calls : calls[n].a.id # p.id
  BY <1>1, <1>2 DEF Sound, Attempted, sending
<1>10. ed.expected = None => ed.phase = "saving"
  BY <1>1, <1>3 DEF CanPrepare
<1> HIDE DEF x
<1>11. Ledger'
  <2>1. Dispatches(x)
    BY <1>4, <1>6, <1>8, <1>9, <1>10 DEF Dispatches
  <2>2. Fits(asked[p.id])
    BY <1>5, <1>7 DEF Invariant, Ledger, Submitted
  <2>3. Ledger /\ asked' = asked
    BY <1>1 DEF Invariant
  <2>4. QED
    BY <1>1, <1>2, <1>4, <1>6, <1>7, <2>1, <2>2, <2>3, SentLedger DEF Asks
<1>12. ReadStored' /\ LookupDecided' /\ Linking'
  BY <1>1, ReadsKept DEF Invariant
<1>13. Attempted(ed)'
  <2>1. CASE calls' = calls
    BY <1>1, <1>2, <2>1 DEF Sound, Attempted, IsOpen
  <2>2. CASE calls' = Append(calls, x)
    <3>1. /\ DOMAIN calls' = DOMAIN calls \cup {Len(calls) + 1}
          /\ calls'[Len(calls) + 1] = x
          /\ \A n \in DOMAIN calls : calls'[n] = calls[n]
      BY <1>2, <1>4, <2>2, Appended
    <3>2. ed.phase = "saving" => \A n \in DOMAIN calls' : calls'[n].a.id = p.id => n = Len(calls) + 1
      BY <1>9, <3>1
    <3>3. QED
      BY <1>1, <1>4, <3>1, <3>2 DEF Attempted, IsOpen
  <2>3. QED
    BY <1>1, <2>1, <2>2
<1>14. Rooted(ed)'
  BY <1>1, <1>2, RootedKept DEF Sound, Rooted
<1>15. Tracks(ed)' /\ Buried(ed)'
  BY <1>1, <1>2 DEF Sound, Tracks, Buried, Home
<1>16. Sound(ed)'
  BY <1>13, <1>14, <1>15 DEF Sound, Rooted
<1>17. TypeOK'
  <2>1. calls' \in Seq(Sends)
    BY <1>1, <1>2, <1>4, Appended
  <2>2. QED
    BY <1>1, <1>2, <2>1 DEF TypeOK
<1>18. QED
  BY <1>11, <1>12, <1>16, <1>17 DEF Invariant

------------------------------------------------------------------------------
(* The stores: records grow, and a decision is never taken back.              *)

\* A step of a host, or of another client, that keeps what the stores had.
Grown ==
  /\ record' \in [Installs -> [Keys -> Records]]
  /\ \A i \in Installs, k \in Keys :
       /\ Len(record[i][k].log) <= Len(record'[i][k].log)
       /\ \A v \in 1 .. Len(record[i][k].log) : record'[i][k].log[v] = record[i][k].log[v]
  /\ \A i \in Installs, r \in Requests : decided[i][r] # Unused =>
       /\ decided'[i][r] # Unused
       /\ decided'[i][r].revision = decided[i][r].revision
       /\ decided'[i][r].state \in {decided[i][r].state, "purged"}

\* The types of a record and of what was submitted.
LEMMA RecordTyped ==
  ASSUME TypeOK
  PROVE  /\ \A i \in Installs, k \in Keys :
              /\ record[i][k] \in Records /\ record[i][k].log \in Seq(Texts)
              /\ Len(record[i][k].log) \in Nat
         /\ \A i \in Installs, r \in Requests :
              /\ decided[i][r] \in Decisions /\ decided[i][r].revision \in Nat
         /\ \A r \in Requests : asked[r] # None =>
              /\ asked[r] \in Submissions /\ asked[r].key \in Keys
              /\ asked[r].change \in Mutations /\ asked[r].change.revision \in Nat
              /\ asked[r].origin \in Known
<1>1. /\ record \in [Installs -> [Keys -> Records]]
      /\ decided \in [Installs -> [Requests -> Decisions]]
      /\ asked \in [Requests -> Submissions \cup {None}]
  BY DEF TypeOK
<1>2. \A i \in Installs, k \in Keys : record[i][k] \in Records /\ record[i][k].log \in Seq(Texts)
  BY <1>1 DEF Records
<1>3. \A i \in Installs, k \in Keys : Len(record[i][k].log) \in Nat
  BY <1>2
<1>4. \A i \in Installs, r \in Requests : decided[i][r] \in Decisions /\ decided[i][r].revision \in Nat
  BY <1>1 DEF Decisions
<1>5. \A r \in Requests : asked[r] # None =>
        /\ asked[r] \in Submissions /\ asked[r].key \in Keys
        /\ asked[r].change \in Mutations /\ asked[r].change.revision \in Nat
        /\ asked[r].origin \in Known
  BY <1>1 DEF Submissions, Mutations
<1>6. QED
  BY <1>2, <1>3, <1>4, <1>5

\* The records stay of their type.
LEMMA GrownTyped ==
  ASSUME Grown, NEW i \in Installs, NEW k \in Keys
  PROVE  record'[i][k].log \in Seq(Texts) /\ Len(record'[i][k].log) \in Nat
<1>1. record'[i][k] \in Records
  BY DEF Grown
<1>2. record'[i][k].log \in Seq(Texts)
  BY <1>1 DEF Records
<1>3. QED
  BY <1>2

\* What a request asked for stays the version it became.
LEMMA MadeGrown ==
  ASSUME TypeOK, Grown, NEW i \in Installs, NEW r \in Requests, asked[r] # None,
         NEW v, Makes(record, i, asked[r], v)
  PROVE  Makes(record', i, asked[r], v)
<1> DEFINE k == asked[r].key
           old == record[i][k].log
           new == record'[i][k].log
           m == asked[r].change
<1>1. k \in Keys /\ Len(old) \in Nat /\ m.revision \in Nat
  BY RecordTyped
<1>2. Len(old) <= Len(new) /\ \A u \in 1 .. Len(old) : new[u] = old[u]
  BY <1>1 DEF Grown
<1>3. /\ v \in 1 .. Len(old)
      /\ IF m.kind \in {"capture", "edit"} THEN old[v] = m.text
         ELSE m.revision \in 1 .. Len(old) /\ old[v] = old[m.revision]
  BY DEF Makes
<1>4. Len(new) \in Nat
  BY <1>1, GrownTyped
<1> HIDE DEF old, new
<1>5. /\ v \in 1 .. Len(new)
      /\ IF m.kind \in {"capture", "edit"} THEN new[v] = m.text
         ELSE m.revision \in 1 .. Len(new) /\ new[v] = new[m.revision]
  BY <1>1, <1>2, <1>3, <1>4
<1>6. QED
  BY <1>5 DEF Makes, old, new

\* A wording that was stored stays.
LEMMA WordingGrown ==
  ASSUME TypeOK, Grown, NEW i \in Installs, NEW k \in Keys, NEW v, v.revision \in Nat, v.revision > 0,
         Wording(i, k, v)
  PROVE  /\ v.revision <= Len(record'[i][k].log)
         /\ record'[i][k].log[v.revision] = v.text
<1> DEFINE old == record[i][k].log
           new == record'[i][k].log
<1>1. Len(old) \in Nat
  BY RecordTyped
<1>2. Len(old) <= Len(new) /\ \A u \in 1 .. Len(old) : new[u] = old[u]
  BY DEF Grown
<1>3. Len(new) \in Nat
  BY GrownTyped
<1>4. v.revision <= Len(old) /\ old[v.revision] = v.text
  BY DEF Wording
<1> HIDE DEF old, new
<1>5. v.revision <= Len(new) /\ new[v.revision] = v.text
  BY <1>1, <1>2, <1>3, <1>4
<1>6. QED
  BY <1>5 DEF new

\* The editor is about records and requests that the stores keep.
LEMMA SoundGrown ==
  ASSUME TypeOK, Sound(ed), Grown, UNCHANGED <<ed, asked, told>>,
         DOMAIN calls' = DOMAIN calls,
         \A n \in DOMAIN calls : calls'[n].a = calls[n].a /\ calls'[n].open = calls[n].open,
         \A r \in Requests, i \in Installs :
           told[r] = "purged" /\ Home(r, i)' => Home(r, i)
  PROVE  Sound(ed)'
<1>1. Shape(ed)' /\ ed' = ed /\ asked' = asked /\ told' = told
  BY DEF Sound
<1>2. ed \in Editors /\ Shape(ed)
  BY DEF Sound, Shape
<1>3. Stored(ed)'
  <2>1. ASSUME NEW x \in Versions, x.revision > 0, Wording(ed.expected, ed.target.key, x),
               ed.target # None, ed.expected # None
        PROVE  /\ x.revision <= Len(record'[ed.expected][ed.target.key].log)
               /\ record'[ed.expected][ed.target.key].log[x.revision] = x.text
    <3>1. ed.expected \in Installs /\ ed.target.key \in Keys /\ x.revision \in Nat
      BY <1>2, <2>1, OpenTarget, InstallationOf DEF Known, Versions
    <3>2. QED
      BY <2>1, <3>1, WordingGrown
  <2>2. /\ ed.base # None => ed.base \in Versions /\ ed.target # None
        /\ ed.loaded # None => ed.loaded \in Versions /\ ed.target # None
        /\ ed.base # None /\ ed.base.revision > 0 => ed.expected # None
        /\ ed.loaded # None => ed.expected # None
    BY <1>2 DEF Editors, Shape, Placed, Versioned
  <2>3. /\ ed.base # None /\ ed.base.revision > 0 => Wording(ed.expected, ed.target.key, ed.base)
        /\ ed.loaded # None => ed.loaded.revision > 0 /\ Wording(ed.expected, ed.target.key, ed.loaded)
    BY DEF Sound, Stored
  <2>4. /\ ed.base # None /\ ed.base.revision > 0 =>
             /\ ed.base.revision <= Len(record'[ed.expected][ed.target.key].log)
             /\ record'[ed.expected][ed.target.key].log[ed.base.revision] = ed.base.text
        /\ ed.loaded # None =>
             /\ ed.loaded.revision > 0
             /\ ed.loaded.revision <= Len(record'[ed.expected][ed.target.key].log)
             /\ record'[ed.expected][ed.target.key].log[ed.loaded.revision] = ed.loaded.text
    BY <2>1, <2>2, <2>3
  <2>5. QED
    BY <1>1, <2>4 DEF Stored, Wording
<1>4. Anchored(ed)'
  <2>1. \A x \in ed.tombstones : x.key = None \/ x.key \in Keys
    <3>1. \A x \in ed.tombstones : x \in Targets \/ x = PurgedBefore
      BY <1>2 DEF Editors
    <3>2. QED
      BY <3>1 DEF Targets, PurgedBefore, Target
  <2>2. \A k \in Keys : Met(k) => Met(k)'
    <3>1. SUFFICES ASSUME NEW k \in Keys, NEW i \in Installs, record[i][k].log # <<>>
                   PROVE  record'[i][k].log # <<>>
      BY <1>1 DEF Met
    <3>2. record[i][k].log \in Seq(Texts) /\ Len(record[i][k].log) # 0
      BY <3>1, RecordTyped
    <3>3. Len(record[i][k].log) \in Nat /\ Len(record[i][k].log) <= Len(record'[i][k].log)
      BY RecordTyped DEF Grown
    <3>4. QED
      BY <3>2, <3>3
  <2>3. \A x \in ed.tombstones : Met(x.key)'
    <3>1. \A x \in ed.tombstones : Met(x.key)
      BY DEF Sound, Anchored
    <3>2. \A x \in ed.tombstones : x.key = None => Met(x.key)'
      BY DEF Met
    <3>3. QED
      BY <2>1, <2>2, <3>1, <3>2
  <2>4. /\ ed.pending # None =>
             /\ Asks(ed.pending.id, ed.pending.target)
             /\ ed.pending.mutation \in {None, asked[ed.pending.id].change}
        /\ \A u \in ed.unresolved : Asks(u.id, u.target)
    BY DEF Sound, Anchored
  <2>5. (ed.pending # None =>
             /\ Asks(ed.pending.id, ed.pending.target)
             /\ ed.pending.mutation \in {None, asked[ed.pending.id].change})'
    BY <1>1, <2>4 DEF Asks
  <2>6. \A u \in ed.unresolved : Asks(u.id, u.target)'
    BY <1>1, <2>4 DEF Asks
  <2>7. QED
    BY <1>1, <2>3, <2>5, <2>6 DEF Anchored
<1>5. Attempted(ed)'
  BY <1>1 DEF Sound, Attempted, IsOpen
<1>6. Tracks(ed)'
  BY <1>1 DEF Sound, Tracks
<1>7. Buried(ed)'
  <2>1. ASSUME NEW r \in Requests, NEW i \in Installs, Home(r, i)
        PROVE  Home(r, i)'
    BY <1>1, <2>1 DEF Home, Grown
  <2>2. ed.target # None /\ ed.target.bind # Loc => ed.expected \in Installs
    BY <1>2, OpenTarget, InstallationOf
  <2>3. SUFFICES ASSUME NEW r \in Requests, told[r] = "purged"
                 PROVE  /\ \E i \in Installs :
                             /\ Home(r, i)'
                             /\ \/ ed.tombstonesSaturated
                                \/ \E x \in ed.tombstones :
                                     x.key = asked[r].key /\ installationOf(x) = i
                        /\ ed.target # None /\ ed.target.key = asked[r].key
                           /\ ed.phase # "purged" =>
                             /\ ed.target.bind # Loc
                             /\ ~(asked[r].origin = ed.expected
                                  \/ (asked[r].origin = None /\ decided'[ed.expected][r] # Unused))
    BY <1>1 DEF Buried, Home
  <2>4. /\ \E i \in Installs :
             /\ Home(r, i)
             /\ \/ ed.tombstonesSaturated
                \/ \E x \in ed.tombstones : x.key = asked[r].key /\ installationOf(x) = i
        /\ ed.target # None /\ ed.target.key = asked[r].key /\ ed.phase # "purged" =>
             ed.target.bind # Loc /\ ~Home(r, ed.expected)
    BY <2>3 DEF Sound, Buried
  <2>5. ASSUME NEW i \in Installs,
               asked[r].origin = i \/ (asked[r].origin = None /\ decided'[i][r] # Unused)
        PROVE  Home(r, i)
    BY <1>1, <2>3, <2>5 DEF Home
  <2>6. QED
    BY <2>1, <2>2, <2>4, <2>5
<1>8. QED
  BY <1>1, <1>3, <1>4, <1>5, <1>6, <1>7 DEF Sound

\* What was read or looked up is still so.
LEMMA ReadsGrown ==
  ASSUME TypeOK, ReadStored, LookupDecided, Linking, Grown,
         UNCHANGED <<asked, read, lookup, route, block, pinned>>
  PROVE  ReadStored' /\ LookupDecided' /\ Linking'
<1>1. read' = read /\ lookup' = lookup /\ asked' = asked
  OBVIOUS
<1>2. ReadStored'
  <2>1. SUFFICES ASSUME read # None, read.answered, read.view # None
                 PROVE  /\ read.inst # None /\ read.view.revision > 0
                        /\ read.view.revision <= Len(record'[read.inst][read.target.key].log)
                        /\ record'[read.inst][read.target.key].log[read.view.revision] = read.view.text
    BY <1>1 DEF ReadStored, Wording
  <2>2. read.inst # None /\ read.view.revision > 0 /\ Wording(read.inst, read.target.key, read.view)
    BY <2>1 DEF ReadStored
  <2>3. read \in Reads
    BY <2>1 DEF TypeOK
  <2>4. read.inst \in Known /\ read.target \in Targets /\ read.view \in Views
    BY <2>1, <2>3 DEF Reads
  <2>5. read.inst \in Installs /\ read.target.key \in Keys /\ read.view.revision \in Nat
    BY <2>2, <2>4 DEF Known, Targets, Views
  <2>6. QED
    BY <2>2, <2>5, WordingGrown
<1>3. LookupDecided'
  <2>1. SUFFICES ASSUME lookup # None
                 PROVE  /\ asked[lookup.id] # None
                        /\ ~lookup.answered => lookup.state = "unknown"
                        /\ lookup.answered /\ lookup.state # "unknown" =>
                             /\ lookup.inst # None /\ decided'[lookup.inst][lookup.id] # Unused
                             /\ lookup.state = "committed" =>
                                  Makes(record', lookup.inst, asked[lookup.id], lookup.revision)
    BY <1>1 DEF LookupDecided, Made, Makes
  <2>2. /\ asked[lookup.id] # None
        /\ ~lookup.answered => lookup.state = "unknown"
        /\ lookup.answered /\ lookup.state # "unknown" =>
             /\ lookup.inst # None /\ decided[lookup.inst][lookup.id] # Unused
             /\ lookup.state = "committed" => Makes(record, lookup.inst, asked[lookup.id], lookup.revision)
    BY <2>1, MadeMakes DEF LookupDecided
  <2>3. lookup \in Lookups
    BY <2>1 DEF TypeOK
  <2>4. lookup.inst \in Known /\ lookup.id \in Requests
    BY <2>3 DEF Lookups
  <2>5. ASSUME lookup.answered, lookup.state # "unknown"
        PROVE  /\ decided'[lookup.inst][lookup.id] # Unused
               /\ lookup.state = "committed" =>
                    Makes(record', lookup.inst, asked[lookup.id], lookup.revision)
    <3>1. lookup.inst \in Installs
      BY <2>2, <2>4, <2>5 DEF Known
    <3>2. decided'[lookup.inst][lookup.id] # Unused
      BY <2>2, <2>4, <2>5, <3>1 DEF Grown
    <3>3. ASSUME lookup.state = "committed"
          PROVE  Makes(record', lookup.inst, asked[lookup.id], lookup.revision)
      <4>1. Makes(record, lookup.inst, asked[lookup.id], lookup.revision)
        BY <2>2, <2>5, <3>3
      <4>2. QED
        BY <2>2, <2>4, <3>1, <4>1, MadeGrown
    <3>4. QED
      BY <3>2, <3>3
  <2>6. QED
    BY <2>2, <2>5
<1>4. Linking'
  BY DEF Linking
<1>5. QED
  BY <1>2, <1>3, <1>4

\* The step decides request r in the store i, if it was not decided before, and
\* no other.
Decides(i, r) ==
  /\ \A j \in Installs, q \in Requests :
       decided'[j][q] # Unused => decided[j][q] # Unused \/ (j = i /\ q = r)
  /\ i \in Installs /\ r \in Requests /\ decided[i][r] = Unused /\ decided'[i][r] # Unused =>
       /\ i \in made' /\ told[r] # "refused" /\ asked[r] # None /\ asked[r].origin \in {None, i}
       /\ decided'[i][r].state # "none"
       /\ decided'[i][r].revision <= Len(record'[i][asked[r].key].log)
       /\ \A j \in Installs : decided[j][r] # Unused => j = i
       /\ Executed(r)'
       /\ decided'[i][r].state = "committed" => Makes(record', i, asked[r], decided'[i][r].revision)

\* The step answers an attempt that was waiting, or none.
CarriedOut(n) ==
  /\ calls[n].host = "waiting" /\ calls'[n].host = "done"
  /\ calls'[n].a = calls[n].a /\ calls'[n].open = calls[n].open
  /\ LET x == calls'[n].answer IN
       x # None /\ x.state # "refused" =>
         /\ x.inst \in Installs /\ decided'[x.inst][calls[n].a.id] # Unused
         /\ x.state = "committed" => Makes(record', x.inst, asked[calls[n].a.id], x.revision)

\* What is known of the requests holds when a store has written.
LEMMA LedgerGrown ==
  ASSUME Ledger, TypeOK, Grown, UNCHANGED <<asked, told>>, made \subseteq made',
         NEW i, NEW r, Decides(i, r),
         DOMAIN calls' = DOMAIN calls,
         \A n \in DOMAIN calls : calls'[n] = calls[n] \/ CarriedOut(n),
         \A j \in Installs \ made' : record'[j] = record[j]
  PROVE  Ledger'
<1>1. asked' = asked /\ told' = told /\ DOMAIN calls' = DOMAIN calls
  OBVIOUS
<1>2. \A n \in DOMAIN calls :
        /\ calls'[n].a = calls[n].a /\ (calls[n].host = "done" => calls'[n] = calls[n])
        /\ calls[n].a.id \in Requests
  <2>1. \A n \in DOMAIN calls : calls'[n].a = calls[n].a /\ (calls[n].host = "done" => calls'[n] = calls[n])
    BY DEF CarriedOut
  <2>2. \A n \in DOMAIN calls : calls[n].a.id \in Requests
    BY SendsTyped DEF TypeOK
  <2>3. QED
    BY <2>1, <2>2
<1>3. \A j \in Installs, q \in Requests :
        decided'[j][q] # Unused => decided[j][q] # Unused \/ (j = i /\ q = r)
  BY DEF Decides
<1>4. Refusals'
  <2>1. SUFFICES ASSUME NEW q \in Requests, told[q] = "refused"
                 PROVE  /\ \A j \in Installs : decided'[j][q] = Unused
                        /\ \A n \in DOMAIN calls : calls'[n].a.id = q => calls'[n].host = "done"
    BY <1>1 DEF Refusals
  <2>2. /\ \A j \in Installs : decided[j][q] = Unused
        /\ \A n \in DOMAIN calls : calls[n].a.id = q => calls[n].host = "done"
    BY <2>1 DEF Ledger, Refusals
  <2>3. \A j \in Installs : decided'[j][q] = Unused
    BY <1>3, <2>1, <2>2 DEF Decides
  <2>4. QED
    BY <1>2, <2>2, <2>3
<1>5. Untouched'
  <2>1. SUFFICES ASSUME NEW j \in Installs, j \notin made'
                 PROVE  /\ \A k \in Keys : record'[j][k] = Absent
                        /\ \A q \in Requests : decided'[j][q] = Unused
    BY DEF Untouched
  <2>2. j \notin made /\ record'[j] = record[j]
    BY <2>1
  <2>3. /\ \A k \in Keys : record[j][k] = Absent
        /\ \A q \in Requests : decided[j][q] = Unused
    BY <2>2 DEF Ledger, Untouched
  <2>4. QED
    BY <1>3, <2>1, <2>2, <2>3 DEF Decides
<1>6. Submitted'
  <2>1. SUFFICES ASSUME NEW q \in Requests
                 PROVE  IF asked[q] = None
                        THEN /\ \A j \in Installs : decided'[j][q] = Unused
                             /\ \A n \in DOMAIN calls : calls'[n].a.id # q
                        ELSE Fits(asked[q])
    BY <1>1 DEF Submitted, Fits
  <2>2. IF asked[q] = None
        THEN /\ \A j \in Installs : decided[j][q] = Unused
             /\ \A n \in DOMAIN calls : calls[n].a.id # q
        ELSE Fits(asked[q])
    BY DEF Ledger, Submitted
  <2>3. asked[q] = None => \A j \in Installs : decided'[j][q] = Unused
    BY <1>3, <2>2 DEF Decides
  <2>4. QED
    BY <1>2, <2>2, <2>3
<1>7. Dispatched'
  <2>1. SUFFICES ASSUME NEW n \in DOMAIN calls'
                 PROVE  LET a == calls'[n].a
                            y == calls'[n].answer
                        IN /\ asked'[a.id] # None /\ asked'[a.id].key = a.target.key
                           /\ asked'[a.id].origin = Origin(a.target)
                           /\ a.pre = asked'[a.id].origin /\ a.origin = a.pre
                           /\ a.pre = None => \A m \in DOMAIN calls' : calls'[m].a.id = a.id => m = n
                           /\ y # None => calls'[n].host = "done"
                           /\ y # None /\ y.state # "refused" =>
                                /\ decided'[y.inst][a.id] # Unused
                                /\ y.state = "committed" =>
                                     Makes(record', y.inst, asked'[a.id], y.revision)
    BY DEF Dispatched, Asks, Origin, Made, Makes
  <2> DEFINE a == calls[n].a
             y == calls[n].answer
  <2>2. /\ asked[a.id] # None /\ asked[a.id].key = a.target.key
        /\ asked[a.id].origin = Origin(a.target)
        /\ a.pre = asked[a.id].origin /\ a.origin = a.pre
        /\ a.pre = None => \A m \in DOMAIN calls : calls[m].a.id = a.id => m = n
        /\ y # None => calls[n].host = "done"
        /\ y # None /\ y.state # "refused" =>
             /\ decided[y.inst][a.id] # Unused
             /\ y.state = "committed" => Makes(record, y.inst, asked[a.id], y.revision)
    BY <1>1, MadeMakes DEF Ledger, Dispatched, Asks
  <2>3. a.pre = None => \A m \in DOMAIN calls' : calls'[m].a.id = a.id => m = n
    BY <1>1, <1>2, <2>2
  <2>4. a.id \in Requests /\ calls'[n].a = a /\ n \in DOMAIN calls
    BY <1>1, <1>2
  <2>5. CASE CarriedOut(n)
    BY <1>1, <2>2, <2>3, <2>4, <2>5 DEF CarriedOut
  <2>6. CASE calls'[n] = calls[n]
    <3>1. ASSUME y # None, y.state # "refused"
          PROVE  /\ decided'[y.inst][a.id] # Unused
                 /\ y.state = "committed" => Makes(record', y.inst, asked[a.id], y.revision)
      <4>1. y.inst \in Installs
        <5>1. y \in Answers
          BY <2>4, <3>1, SendsTyped DEF TypeOK
        <5>2. QED
          BY <3>1, <5>1 DEF Answers
      <4>2. decided'[y.inst][a.id] # Unused
        BY <2>2, <2>4, <3>1, <4>1 DEF Grown
      <4>3. ASSUME y.state = "committed"
            PROVE  Makes(record', y.inst, asked[a.id], y.revision)
        <5>1. Makes(record, y.inst, asked[a.id], y.revision)
          BY <2>2, <3>1, <4>3
        <5>2. QED
          BY <2>2, <2>4, <4>1, <5>1, MadeGrown
      <4>4. QED
        BY <4>2, <4>3
    <3>2. QED
      BY <1>1, <2>2, <2>3, <2>4, <2>6, <3>1
  <2>7. QED
    BY <1>1, <2>5, <2>6
<1>8. Decided'
  <2>1. \A q : Executed(q) => Executed(q)'
    BY <1>1, <1>2 DEF Executed
  <2>2. SUFFICES ASSUME NEW j \in Installs, NEW q \in Requests
                 PROVE  /\ decided'[j][q].state = "none" => decided'[j][q] = Unused
                        /\ decided'[j][q].state = "committed" =>
                             Makes(record', j, asked'[q], decided'[j][q].revision)
                        /\ decided'[j][q] # Unused =>
                             /\ asked'[q] # None /\ asked'[q].origin \in {None, j}
                             /\ decided'[j][q].revision <= Len(record'[j][asked'[q].key].log)
                             /\ \A l \in Installs : decided'[l][q] # Unused => j = l
                             /\ Executed(q)'
    <3>1. \A l, s, v : (Made(l, s, v))' <=> Makes(record', l, asked'[s], v)
      BY DEF Made, Makes
    <3>2. QED
      BY <3>1 DEF Decided
  <2>3. CASE decided'[j][q] = Unused
    BY <2>3 DEF Unused
  <2>4. CASE decided[j][q] # Unused
    <3>1. /\ asked[q] # None /\ asked[q].origin \in {None, j}
          /\ decided[j][q].revision <= Len(record[j][asked[q].key].log)
          /\ \A l \in Installs : decided[l][q] # Unused => j = l
          /\ Executed(q)
          /\ decided[j][q].state # "none"
          /\ decided[j][q].state = "committed" => Makes(record, j, asked[q], decided[j][q].revision)
      BY <2>4, MadeMakes DEF Ledger, Decided
    <3>2. /\ decided'[j][q] # Unused /\ decided'[j][q].revision = decided[j][q].revision
          /\ decided'[j][q].state \in {decided[j][q].state, "purged"}
      BY <2>4 DEF Grown
    <3>3. decided[j][q].revision \in Nat /\ asked[q].key \in Keys
      BY <3>1, RecordTyped
    <3>4. decided'[j][q].revision <= Len(record'[j][asked[q].key].log)
      <4>1. Len(record[j][asked[q].key].log) <= Len(record'[j][asked[q].key].log)
        BY <3>3 DEF Grown
      <4>2. Len(record[j][asked[q].key].log) \in Nat
        BY <3>3, RecordTyped
      <4>3. Len(record'[j][asked[q].key].log) \in Nat
        BY <3>3, GrownTyped
      <4>4. decided'[j][q].revision = decided[j][q].revision
            /\ decided[j][q].revision <= Len(record[j][asked[q].key].log)
        BY <3>1, <3>2
      <4>5. \A a, b, c \in Nat : a <= b /\ b <= c => a <= c
        OBVIOUS
      <4>6. QED
        BY <3>3, <4>1, <4>2, <4>3, <4>4, <4>5, Zenon
    <3>5. ASSUME decided'[j][q].state = "committed"
          PROVE  Makes(record', j, asked[q], decided'[j][q].revision)
      <4>1. Makes(record, j, asked[q], decided[j][q].revision)
        BY <3>1, <3>2, <3>5
      <4>2. QED
        BY <3>1, <3>2, <4>1, MadeGrown
    <3>6. \A l \in Installs : decided'[l][q] # Unused => j = l
      <4>1. SUFFICES ASSUME NEW l \in Installs, decided'[l][q] # Unused
                     PROVE  j = l
        OBVIOUS
      <4>2. CASE decided[l][q] # Unused
        BY <3>1, <4>2
      <4>3. CASE decided[l][q] = Unused
        <5>1. l = i /\ q = r
          BY <1>3, <4>1, <4>3
        <5>2. QED
          BY <2>4, <4>1, <4>3, <5>1 DEF Decides
      <4>4. QED
        BY <4>2, <4>3
    <3>7. QED
      BY <1>1, <2>1, <3>1, <3>2, <3>4, <3>5, <3>6
  <2>5. CASE decided[j][q] = Unused /\ decided'[j][q] # Unused
    <3>1. j = i /\ q = r
      BY <1>3, <2>5
    <3>2. \A l \in Installs : decided'[l][q] # Unused => j = l
      BY <1>3, <2>5, <3>1 DEF Decides
    <3>3. QED
      BY <1>1, <2>5, <3>1, <3>2 DEF Decides
  <2>6. QED
    BY <2>3, <2>4, <2>5
<1>9. QED
  BY <1>4, <1>5, <1>6, <1>7, <1>8 DEF Ledger

------------------------------------------------------------------------------
(* What the host and other clients do.                                        *)

\* A step of the stores.
LEMMA StoreStep ==
  ASSUME Invariant, Grown, UNCHANGED <<pane, asked, told>>, left' \in Limits,
         made \subseteq made', made' \subseteq Installs, here' \in made' \cup {None},
         decided' \in [Installs -> [Requests -> Decisions]], calls' \in Seq(Sends),
         \A j \in Installs \ made' : record'[j] = record[j],
         NEW i, NEW r, Decides(i, r),
         i \in Installs /\ r \in Requests /\ decided[i][r] = Unused /\ decided'[i][r] # Unused
           /\ asked[r].origin = None => told[r] # "purged",
         DOMAIN calls' = DOMAIN calls,
         \A n \in DOMAIN calls : calls'[n] = calls[n] \/ CarriedOut(n)
  PROVE  Invariant'
<1>1. /\ UNCHANGED <<ed, obs, pinned, block, held, seen, hello, read, lookup, route, asked, told>>
      /\ TypeOK /\ Sound(ed) /\ Ledger /\ ReadStored /\ LookupDecided /\ Linking
  BY DEF pane, Invariant
<1>2. Ledger'
  BY <1>1, LedgerGrown
<1>3. ReadStored' /\ LookupDecided' /\ Linking'
  BY <1>1, ReadsGrown
<1>4. \A n \in DOMAIN calls : calls'[n].a = calls[n].a /\ calls'[n].open = calls[n].open
  BY DEF CarriedOut
<1>5. \A q \in Requests, j \in Installs : told[q] = "purged" /\ Home(q, j)' => Home(q, j)
  BY <1>1 DEF Home, Decides
<1>6. Sound(ed)'
  BY <1>1, <1>4, <1>5, SoundGrown
<1>7. TypeOK'
  BY <1>1 DEF TypeOK, Grown
<1>8. QED
  BY <1>2, <1>3, <1>6, <1>7 DEF Invariant

\* The directory at the location is moved away, or replaced.
LEMMA MoveStep == ASSUME Invariant, Move PROVE Invariant'
<1>1. /\ UNCHANGED <<pane, calls, made, record, decided, asked, told>> /\ Spend("moves")
      /\ here' \in made \cup {None}
  BY DEF Move
<1>2. TypeOK
  BY DEF Invariant
<1>3. left' \in Limits
  BY <1>1, <1>2, SpendTyped DEF TypeOK
<1>4. Grown
  BY <1>1, <1>2, RecordTyped DEF TypeOK, Grown
<1>5. Decides(None, None)
  BY <1>1, NoneApart DEF Decides
<1>6. /\ decided' \in [Installs -> [Requests -> Decisions]] /\ calls' \in Seq(Sends)
      /\ made' \subseteq Installs
  BY <1>1, <1>2 DEF TypeOK
<1>7. QED
  BY <1>1, <1>3, <1>4, <1>5, <1>6, NoneApart, StoreStep

\* Record k of the store i becomes rec: a wording more, or none.
Saves(i, k, rec) ==
  /\ rec.log = record[i][k].log \/ \E t \in Texts : rec.log = Append(record[i][k].log, t)
  /\ record' = [record EXCEPT ![i][k] = rec]

\* A record gets at most one more version.
LEMMA RecordWritten ==
  ASSUME TypeOK, NEW i \in Installs, NEW k \in Keys, NEW rec \in Records, Saves(i, k, rec)
  PROVE  /\ record' \in [Installs -> [Keys -> Records]]
         /\ \A j \in Installs, q \in Keys :
              /\ Len(record[j][q].log) <= Len(record'[j][q].log)
              /\ \A v \in 1 .. Len(record[j][q].log) : record'[j][q].log[v] = record[j][q].log[v]
         /\ \A j \in Installs : j # i => record'[j] = record[j]
         /\ record'[i][k] = rec
<1>1. record \in [Installs -> [Keys -> Records]]
  BY DEF TypeOK
<1>2. /\ record' \in [Installs -> [Keys -> Records]]
      /\ \A j \in Installs : j # i => record'[j] = record[j]
      /\ \A q \in Keys : q # k => record'[i][q] = record[i][q]
      /\ record'[i][k] = rec
  BY <1>1 DEF Saves
<1>3. record[i][k].log \in Seq(Texts) /\ Len(record[i][k].log) \in Nat
  BY RecordTyped
<1>4. /\ Len(record[i][k].log) <= Len(rec.log)
      /\ \A v \in 1 .. Len(record[i][k].log) : rec.log[v] = record[i][k].log[v]
  <2>1. CASE rec.log = record[i][k].log
    BY <1>3, <2>1
  <2>2. ASSUME NEW t \in Texts, rec.log = Append(record[i][k].log, t)
        PROVE  /\ Len(record[i][k].log) <= Len(rec.log)
               /\ \A v \in 1 .. Len(record[i][k].log) : rec.log[v] = record[i][k].log[v]
    <3> DEFINE old == record[i][k].log
    <3>1. old \in Seq(Texts) /\ rec.log = Append(old, t)
      BY <1>3, <2>2
    <3> HIDE DEF old
    <3>2. Len(old) <= Len(rec.log) /\ \A v \in 1 .. Len(old) : rec.log[v] = old[v]
      BY <3>1
    <3>3. QED
      BY <3>2 DEF old
  <2>3. QED
    BY <2>1, <2>2 DEF Saves
<1>5. \A j \in Installs, q \in Keys :
        /\ Len(record[j][q].log) <= Len(record'[j][q].log)
        /\ \A v \in 1 .. Len(record[j][q].log) : record'[j][q].log[v] = record[j][q].log[v]
  <2>1. SUFFICES ASSUME NEW j \in Installs, NEW q \in Keys
                 PROVE  /\ Len(record[j][q].log) <= Len(record'[j][q].log)
                        /\ \A v \in 1 .. Len(record[j][q].log) :
                             record'[j][q].log[v] = record[j][q].log[v]
    OBVIOUS
  <2>2. CASE j = i /\ q = k
    BY <1>2, <1>4, <2>2
  <2>3. CASE ~(j = i /\ q = k)
    <3>1. record'[j][q] = record[j][q]
      BY <1>2, <2>3
    <3>2. Len(record[j][q].log) \in Nat
      BY RecordTyped
    <3>3. QED
      BY <3>1, <3>2
  <2>4. QED
    BY <2>2, <2>3
<1>6. QED
  BY <1>2, <1>5

\* A store decides request r, unless it had, and withdraws what it decided before.
Rewrites(i, r, new) ==
  /\ new \in [Requests -> Decisions] /\ decided' = [decided EXCEPT ![i] = new]
  /\ \A q \in Requests : q # r =>
       \/ new[q] = decided[i][q]
       \/ decided[i][q].state # "none" /\ new[q] = [decided[i][q] EXCEPT !.state = "purged"]
  /\ r \in Requests =>
       new[r].state # "none" /\ (decided[i][r] # Unused => new[r] = decided[i][r])

\* What was decided stays decided, as what it was or as purged.
LEMMA DecidedWritten ==
  ASSUME TypeOK, NEW i \in Installs, NEW r, NEW new, Rewrites(i, r, new)
  PROVE  /\ decided' \in [Installs -> [Requests -> Decisions]]
         /\ \A j \in Installs, q \in Requests : decided[j][q] # Unused =>
              /\ decided'[j][q] # Unused
              /\ decided'[j][q].revision = decided[j][q].revision
              /\ decided'[j][q].state \in {decided[j][q].state, "purged"}
         /\ \A j \in Installs, q \in Requests :
              decided'[j][q] # Unused => decided[j][q] # Unused \/ (j = i /\ q = r)
         /\ r \in Requests => decided'[i][r] = new[r]
<1>1. decided \in [Installs -> [Requests -> Decisions]]
  BY DEF TypeOK
<1>2. /\ decided' \in [Installs -> [Requests -> Decisions]]
      /\ decided'[i] = new /\ \A j \in Installs : j # i => decided'[j] = decided[j]
  BY <1>1 DEF Rewrites
<1>3. \A q \in Requests : q # r =>
        /\ decided[i][q] # Unused =>
             /\ new[q] # Unused /\ new[q].revision = decided[i][q].revision
             /\ new[q].state \in {decided[i][q].state, "purged"}
        /\ new[q] # Unused => decided[i][q] # Unused
  <2>1. SUFFICES ASSUME NEW q \in Requests, q # r
                 PROVE  /\ decided[i][q] # Unused =>
                             /\ new[q] # Unused /\ new[q].revision = decided[i][q].revision
                             /\ new[q].state \in {decided[i][q].state, "purged"}
                        /\ new[q] # Unused => decided[i][q] # Unused
    OBVIOUS
  <2>2. decided[i][q] \in Decisions
    BY <1>1
  <2>3. CASE new[q] = decided[i][q]
    BY <2>3
  <2>4. CASE decided[i][q].state # "none" /\ new[q] = [decided[i][q] EXCEPT !.state = "purged"]
    <3>1. new[q].state = "purged" /\ new[q].revision = decided[i][q].revision
      BY <2>2, <2>4 DEF Decisions
    <3>2. QED
      BY <2>4, <3>1 DEF Unused
  <2>5. QED
    BY <2>1, <2>3, <2>4 DEF Rewrites
<1>4. r \in Requests => new[r] # Unused /\ (decided[i][r] # Unused => new[r] = decided[i][r])
  BY DEF Unused, Rewrites
<1>5. QED
  BY <1>2, <1>3, <1>4

\* Another client writes.
LEMMA RivalStep == ASSUME Invariant, Rival PROVE Invariant'
<1>1. UNCHANGED <<pane, calls, asked, told>> /\ Spend("rivals")
  BY DEF Rival
<1>2. TypeOK /\ made \subseteq Installs /\ here \in made \cup {None}
  BY DEF Invariant, TypeOK
<1>3. left' \in Limits
  BY <1>1, <1>2, SpendTyped DEF TypeOK
<1>4. calls' \in Seq(Sends) /\ DOMAIN calls' = DOMAIN calls /\ \A n \in DOMAIN calls : calls'[n] = calls[n]
  BY <1>1, <1>2 DEF TypeOK
<1>5. ASSUME Grown, made \subseteq made', made' \subseteq Installs, here' \in made' \cup {None},
             decided' \in [Installs -> [Requests -> Decisions]],
             \A j \in Installs \ made' : record'[j] = record[j],
             \A j \in Installs, q \in Requests : decided'[j][q] # Unused => decided[j][q] # Unused
      PROVE  Invariant'
  <2>1. Decides(None, None)
    BY <1>5, NoneApart DEF Decides
  <2>2. QED
    BY <1>1, <1>3, <1>4, <1>5, <2>1, NoneApart, StoreStep
<1>6. ASSUME here = None, NEW i \in Installs \ made, here' = i, made' = made \cup {i},
             UNCHANGED <<record, decided>>
      PROVE  Invariant'
  <2>1. Grown /\ decided' \in [Installs -> [Requests -> Decisions]]
    BY <1>2, <1>6, RecordTyped DEF TypeOK, Grown
  <2>2. QED
    BY <1>2, <1>5, <1>6, <2>1
<1>7. ASSUME NEW k \in Keys, here # None, record[here][k].log # <<>>, ~record[here][k].purged,
             UNCHANGED <<here, made>>
      PROVE  /\ \A t \in Texts : record' = [record EXCEPT ![here][k].log = Append(@, t)] /\ decided' = decided
                  => Invariant'
             /\ /\ record' = [record EXCEPT ![here][k] =
                                [log |-> Append(@.log, @.log[Len(@.log)]), purged |-> TRUE]]
                /\ decided' = [decided EXCEPT ![here] = [q \in Requests |->
                     IF decided[here][q].state # "none" /\ asked[q].key = k
                     THEN [decided[here][q] EXCEPT !.state = "purged"] ELSE decided[here][q]]]
                => Invariant'
  <2> DEFINE rec == record[here][k]
  <2>1. here \in Installs /\ here \in made
    BY <1>2, <1>7
  <2>2. /\ rec \in Records /\ rec.log \in Seq(Texts) /\ Len(rec.log) \in Nat /\ rec.purged \in BOOLEAN
        /\ record \in [Installs -> [Keys -> Records]]
        /\ decided \in [Installs -> [Requests -> Decisions]]
    BY <1>2, <2>1, RecordTyped DEF Records, TypeOK
  <2>3. ASSUME NEW t \in Texts, NEW p \in BOOLEAN,
               record' = [record EXCEPT ![here][k] = [log |-> Append(rec.log, t), purged |-> p]]
        PROVE  /\ record' \in [Installs -> [Keys -> Records]]
               /\ \A j \in Installs, q \in Keys :
                    /\ Len(record[j][q].log) <= Len(record'[j][q].log)
                    /\ \A v \in 1 .. Len(record[j][q].log) : record'[j][q].log[v] = record[j][q].log[v]
               /\ \A j \in Installs : j # here => record'[j] = record[j]
    <3> DEFINE new == [log |-> Append(rec.log, t), purged |-> p]
    <3>1. Append(rec.log, t) \in Seq(Texts)
      BY <2>2, <2>3
    <3>2. new \in Records /\ new.log = Append(rec.log, t)
      BY <2>3, <3>1 DEF Records
    <3>3. record' = [record EXCEPT ![here][k] = new]
      BY <2>3
    <3>4. \E u \in Texts : new.log = Append(record[here][k].log, u)
      BY <2>3, <3>2
    <3> HIDE DEF new
    <3>5. Saves(here, k, new)
      BY <3>2, <3>3, <3>4 DEF Saves
    <3>6. QED
      BY <1>2, <2>1, <3>2, <3>5, RecordWritten
  <2>4. ASSUME NEW t \in Texts, record' = [record EXCEPT ![here][k].log = Append(@, t)], decided' = decided
        PROVE  Invariant'
    <3>1. record' = [record EXCEPT ![here][k] = [log |-> Append(rec.log, t), purged |-> rec.purged]]
      <4>1. \A x \in Records : \A l : [x EXCEPT !.log = l] = [log |-> l, purged |-> x.purged]
        BY DEF Records
      <4>2. record' = [record EXCEPT ![here][k] = [rec EXCEPT !.log = Append(rec.log, t)]]
        BY <2>1, <2>2, <2>4
      <4>3. QED
        BY <2>2, <4>1, <4>2
    <3>2. Grown /\ decided' \in [Installs -> [Requests -> Decisions]]
      BY <2>2, <2>3, <2>4, <3>1, RecordTyped DEF Grown
    <3>3. \A j \in Installs \ made' : record'[j] = record[j]
      BY <1>7, <2>1, <2>2, <2>3, <3>1
    <3>4. QED
      BY <1>2, <1>5, <1>7, <2>4, <3>2, <3>3
  <2>5. ASSUME record' = [record EXCEPT ![here][k] =
                            [log |-> Append(@.log, @.log[Len(@.log)]), purged |-> TRUE]],
               decided' = [decided EXCEPT ![here] = [q \in Requests |->
                     IF decided[here][q].state # "none" /\ asked[q].key = k
                     THEN [decided[here][q] EXCEPT !.state = "purged"] ELSE decided[here][q]]]
        PROVE  Invariant'
    <3> DEFINE t == rec.log[Len(rec.log)]
               new == [q \in Requests |->
                     IF decided[here][q].state # "none" /\ asked[q].key = k
                     THEN [decided[here][q] EXCEPT !.state = "purged"] ELSE decided[here][q]]
    <3>1. t \in Texts
      BY <1>7, <2>2
    <3>2. record' = [record EXCEPT ![here][k] = [log |-> Append(rec.log, t), purged |-> TRUE]]
      BY <2>1, <2>2, <2>5
    <3>3. /\ new \in [Requests -> Decisions]
          /\ \A q \in Requests :
               \/ new[q] = decided[here][q]
               \/ decided[here][q].state # "none" /\ new[q] = [decided[here][q] EXCEPT !.state = "purged"]
      <4>1. \A d \in Decisions : [d EXCEPT !.state = "purged"] \in Decisions
        BY DEF Decisions
      <4>2. \A q \in Requests : decided[here][q] \in Decisions
        BY <2>1, <2>2
      <4>3. QED
        BY <4>1, <4>2
    <3>4. decided' = [decided EXCEPT ![here] = new]
      BY <2>5
    <3> HIDE DEF new, t
    <3>5. PICK r : r \notin Requests
      BY NoSetContainsEverything
    <3>7. /\ decided' \in [Installs -> [Requests -> Decisions]]
          /\ \A j \in Installs, q \in Requests : decided[j][q] # Unused =>
               /\ decided'[j][q] # Unused
               /\ decided'[j][q].revision = decided[j][q].revision
               /\ decided'[j][q].state \in {decided[j][q].state, "purged"}
          /\ \A j \in Installs, q \in Requests :
               decided'[j][q] # Unused => decided[j][q] # Unused \/ (j = here /\ q = r)
          /\ r \in Requests => decided'[here][r] = new[r]
      <4>1. Rewrites(here, r, new)
        BY <3>3, <3>4, <3>5 DEF Rewrites
      <4>2. QED
        BY <1>2, <2>1, <4>1, DecidedWritten
    <3>8. Grown
      BY <2>3, <3>1, <3>2, <3>7 DEF Grown
    <3>9. \A j \in Installs \ made' : record'[j] = record[j]
      BY <1>7, <2>1, <2>3, <3>1, <3>2
    <3>10. QED
      BY <1>2, <1>5, <1>7, <3>5, <3>7, <3>8, <3>9
  <2>6. QED
    BY <2>4, <2>5
<1>8. QED
  BY <1>6, <1>7 DEF Rival

------------------------------------------------------------------------------
(* A host executes a request.                                                 *)

\* Attempt n is answered x, if the client still waits for it.
LEMMA AnswerTyped ==
  ASSUME calls \in Seq(Sends), NEW n \in DOMAIN calls, NEW x \in Answers, Answer(n, x)
  PROVE  /\ calls' \in Seq(Sends) /\ DOMAIN calls' = DOMAIN calls
         /\ \A m \in DOMAIN calls : m # n => calls'[m] = calls[m]
         /\ calls'[n].a = calls[n].a /\ calls'[n].open = calls[n].open /\ calls'[n].host = "done"
         /\ calls'[n].answer \in {x, None}
<1> DEFINE y == IF IsOpen(n) THEN x ELSE None
           c == [calls[n] EXCEPT !.host = "done", !.answer = y]
<1>1. calls[n] \in Sends
  OBVIOUS
<1>2. y \in Answers \cup {None} /\ y \in {x, None}
  OBVIOUS
<1>3. calls' = [calls EXCEPT ![n] = c]
  BY DEF Answer
<1> HIDE DEF y
<1>4. c \in Sends /\ c.a = calls[n].a /\ c.open = calls[n].open /\ c.host = "done" /\ c.answer = y
  BY <1>1, <1>2 DEF Sends
<1> HIDE DEF c
<1>5. [calls EXCEPT ![n] = c] \in Seq(Sends)
  BY <1>4
<1>6. QED
  BY <1>2, <1>3, <1>4, <1>5

\* The versions of the record once the decision d is written.
LogAfter(i, k, m, d) ==
  LET log == record[i][k].log IN
  IF d.revision > Len(log)
  THEN Append(log, IF m.kind \in {"capture", "edit"} THEN m.text ELSE log[Len(log)])
  ELSE log

\* The decision d on request r makes these the versions of its record: what is
\* committed is among them.
Revises(i, r, d, after) ==
  LET m == asked[r].change
      log == record[i][asked[r].key].log
  IN  /\ d \in Decisions /\ d.state # "none"
      /\ decided[i][r] # Unused => d = decided[i][r]
      /\ after = log \/ \E t \in Texts : after = Append(log, t)
      /\ after \in Seq(Texts) /\ d.revision <= Len(after)
      /\ d.state = "committed" =>
           /\ d.revision \in 1 .. Len(after)
           /\ IF m.kind \in {"capture", "edit"} THEN after[d.revision] = m.text
              ELSE m.revision \in 1 .. Len(after) /\ after[d.revision] = after[m.revision]

\* What a store decides, and what it makes of its record.
LEMMA DecisionMade ==
  ASSUME TypeOK, Ledger, NEW i \in Installs, NEW r \in Requests, asked[r] # None,
         NEW d, d = Decision(i, r, asked[r].key, asked[r].change), d.state # "refused"
  PROVE  Revises(i, r, d, LogAfter(i, asked[r].key, asked[r].change, d))
<1> DEFINE k == asked[r].key
           m == asked[r].change
           rec == record[i][k]
           log == rec.log
           rev == Len(log)
           old == decided[i][r]
           after == LogAfter(i, k, m, d)
<1>0. SUFFICES
        /\ d \in Decisions /\ d.state # "none"
        /\ old # Unused => d = old
        /\ after = log \/ \E t \in Texts : after = Append(log, t)
        /\ after \in Seq(Texts) /\ d.revision <= Len(after)
        /\ d.state = "committed" =>
             /\ d.revision \in 1 .. Len(after)
             /\ IF m.kind \in {"capture", "edit"} THEN after[d.revision] = m.text
                ELSE m.revision \in 1 .. Len(after) /\ after[d.revision] = after[m.revision]
  BY DEF Revises
<1>1. /\ k \in Keys /\ m \in Mutations /\ log \in Seq(Texts) /\ rev \in Nat /\ old \in Decisions
      /\ m.revision \in Nat
  BY RecordTyped
<1>2. /\ m.kind = "capture" <=> m.revision = 0
      /\ m.kind \in {"capture", "edit"} => m.text \in Texts
  BY DEF Ledger, Submitted, Fits
<1>3. \/ old.state # "none" /\ d = old
      \/ old.state = "none" /\ m.kind = "purge" /\ d = [state |-> "purged", revision |-> rev]
      \/ /\ old.state = "none" /\ rev = m.revision
         /\ d = [state |-> IF m.kind = "purge" THEN "purged" ELSE "committed",
                 revision |-> IF m.kind = "edit" /\ m.text = log[rev] THEN rev ELSE rev + 1]
  BY DEF Decision
<1>4. old.state = "none" => old = Unused
  BY DEF Ledger, Decided
<1>5. after = IF d.revision > rev
              THEN Append(log, IF m.kind \in {"capture", "edit"} THEN m.text ELSE log[rev])
              ELSE log
  BY DEF LogAfter
<1>6. old.state # "none" => old.revision <= rev
  BY DEF Ledger, Decided, Unused
<1>7. old.state = "committed" =>
        /\ old.revision \in 1 .. rev
        /\ IF m.kind \in {"capture", "edit"} THEN log[old.revision] = m.text
           ELSE m.revision \in 1 .. rev /\ log[old.revision] = log[m.revision]
  <2>1. old.state = "committed" => Made(i, r, old.revision)
    BY DEF Ledger, Decided
  <2>2. QED
    BY <2>1 DEF Made
<1> HIDE DEF k, m, rec, log, old, after
<1>8. CASE old.state # "none" /\ d = old
  <2>1. d.revision \in Nat /\ d.revision <= Len(log)
    BY <1>1, <1>6, <1>8 DEF Decisions
  <2>2. after = log
    BY <1>1, <1>5, <2>1
  <2>3. QED
    BY <1>1, <1>4, <1>7, <1>8, <2>1, <2>2
<1>9. CASE old.state = "none" /\ m.kind = "purge" /\ d = [state |-> "purged", revision |-> rev]
  <2>1. d \in Decisions /\ d.state = "purged" /\ d.revision = rev
    BY <1>1, <1>9 DEF Decisions
  <2>2. after = log
    BY <1>1, <1>5, <2>1
  <2>3. QED
    BY <1>1, <1>4, <1>9, <2>1, <2>2
<1>10. CASE /\ old.state = "none" /\ rev = m.revision
            /\ d = [state |-> IF m.kind = "purge" THEN "purged" ELSE "committed",
                    revision |-> IF m.kind = "edit" /\ m.text = log[rev] THEN rev ELSE rev + 1]
  <2>1. /\ d \in Decisions /\ d.state = (IF m.kind = "purge" THEN "purged" ELSE "committed")
        /\ d.revision = (IF m.kind = "edit" /\ m.text = log[rev] THEN rev ELSE rev + 1)
    BY <1>1, <1>10 DEF Decisions
  <2>2. m.kind # "capture" => rev \in 1 .. rev /\ log[rev] \in Texts
    BY <1>1, <1>2, <1>10
  <2>3. CASE m.kind = "edit" /\ m.text = log[rev]
    <3>1. d.revision = rev /\ d.state = "committed" /\ after = log
      BY <1>1, <1>5, <2>1, <2>3
    <3>2. QED
      BY <1>1, <1>4, <1>10, <2>1, <2>2, <2>3, <3>1
  <2>4. CASE ~(m.kind = "edit" /\ m.text = log[rev])
    <3> DEFINE t == IF m.kind \in {"capture", "edit"} THEN m.text ELSE log[rev]
    <3>1. d.revision = rev + 1
      BY <2>1, <2>4
    <3>2. t \in Texts
      BY <1>2, <2>2
    <3>3. after = Append(log, t)
      BY <1>1, <1>5, <3>1
    <3>4. t = (IF m.kind \in {"capture", "edit"} THEN m.text ELSE log[rev])
      OBVIOUS
    <3> HIDE DEF t
    <3>5. /\ after \in Seq(Texts) /\ Len(after) = rev + 1 /\ after[rev + 1] = t
          /\ \A v \in 1 .. rev : after[v] = log[v]
      BY <1>1, <3>2, <3>3
    <3>6. d.revision \in 1 .. Len(after) /\ d.revision <= Len(after)
      BY <1>1, <3>1, <3>5
    <3>7. d.state = "committed" =>
            IF m.kind \in {"capture", "edit"} THEN after[d.revision] = m.text
            ELSE m.revision \in 1 .. Len(after) /\ after[d.revision] = after[m.revision]
      <4>1. CASE m.kind \in {"capture", "edit"}
        BY <3>1, <3>4, <3>5, <4>1
      <4>2. CASE m.kind \notin {"capture", "edit"}
        <5>1. rev \in 1 .. Len(after) /\ after[rev] = log[rev] /\ after[d.revision] = log[rev]
          BY <1>1, <2>2, <3>1, <3>4, <3>5, <4>2
        <5>2. QED
          BY <1>10, <4>2, <5>1
      <4>3. QED
        BY <4>1, <4>2
    <3>8. QED
      BY <1>4, <1>10, <2>1, <3>2, <3>3, <3>5, <3>6, <3>7
  <2>5. QED
    BY <2>3, <2>4
<1>11. QED
  BY <1>3, <1>8, <1>9, <1>10

\* A request that names no installation is decided once: nothing was decided
\* while its only attempt waits.
LEMMA FirstSent ==
  ASSUME Ledger, NEW n \in DOMAIN calls, calls[n].host = "waiting",
         NEW r \in Requests, r = calls[n].a.id, asked[r].origin = None
  PROVE  \A j \in Installs : decided[j][r] = Unused
<1>1. SUFFICES ASSUME NEW j \in Installs, decided[j][r] # Unused
               PROVE  FALSE
  OBVIOUS
<1>2. Executed(r)
  BY <1>1 DEF Ledger, Decided
<1>3. PICK m \in DOMAIN calls : calls[m].a.id = r /\ calls[m].host = "done"
  BY <1>2 DEF Executed
<1>4. calls[n].a.pre = None => m = n
  BY <1>3 DEF Ledger, Dispatched
<1>5. calls[n].a.pre = None
  BY DEF Ledger, Dispatched
<1>6. QED
  BY <1>3, <1>4, <1>5

\* A host makes the decision d on request r, writes it and answers attempt n.
Carries(n, i, r, d) ==
  /\ d = Decision(i, r, asked[r].key, asked[r].change) /\ d.state # "refused"
  /\ Answer(n, [state |-> d.state, revision |-> d.revision, inst |-> i])
  /\ Write(i, r, asked[r].key, asked[r].change, d)

\* It keeps the invariant.
LEMMA WriteStep ==
  ASSUME Invariant, NEW n \in DOMAIN calls, calls[n].host = "waiting",
         NEW r \in Requests, r = calls[n].a.id, NEW i \in Installs, asked[r].origin \in {None, i},
         NEW d, Carries(n, i, r, d),
         UNCHANGED <<pane, asked, told, left>>,
         made \subseteq made', made' \subseteq Installs, i \in made', here' = i
  PROVE  Invariant'
<1> DEFINE k == asked[r].key
           m == asked[r].change
           after == LogAfter(i, k, m, d)
           rec == [log |-> after, purged |-> d.state = "purged"]
           x == [state |-> d.state, revision |-> d.revision, inst |-> i]
           new == [q \in Requests |->
                    IF q = r THEN d
                    ELSE IF d.state = "purged" /\ decided[i][q].state # "none" /\ asked[q].key = k
                         THEN [decided[i][q] EXCEPT !.state = "purged"] ELSE decided[i][q]]
<1>1. /\ TypeOK /\ Ledger /\ Sound(ed) /\ calls \in Seq(Sends)
      /\ asked[r] # None /\ k \in Keys
      /\ decided \in [Installs -> [Requests -> Decisions]]
      /\ record \in [Installs -> [Keys -> Records]] /\ left \in Limits
  <2>1. TypeOK /\ Ledger /\ Sound(ed)
    BY DEF Invariant
  <2>2. asked[r] # None
    BY <2>1 DEF Ledger, Dispatched, Asks
  <2>3. QED
    BY <2>1, <2>2, RecordTyped DEF TypeOK
<1>2. /\ d \in Decisions /\ d.state # "none"
      /\ decided[i][r] # Unused => d = decided[i][r]
      /\ after = record[i][k].log \/ \E t \in Texts : after = Append(record[i][k].log, t)
      /\ after \in Seq(Texts) /\ d.revision <= Len(after)
      /\ d.state = "committed" =>
           /\ d.revision \in 1 .. Len(after)
           /\ IF m.kind \in {"capture", "edit"} THEN after[d.revision] = m.text
              ELSE m.revision \in 1 .. Len(after) /\ after[d.revision] = after[m.revision]
  <2>1. TypeOK /\ Ledger /\ asked[r] # None
    BY <1>1
  <2>2. Revises(i, r, d, after)
    BY <2>1, DecisionMade DEF Carries
  <2> HIDE DEF after
  <2>3. QED
    BY <2>2 DEF Revises
<1>3. record' = [record EXCEPT ![i][k] = rec]
  BY DEF Carries, Write, LogAfter
<1>4. decided' = [decided EXCEPT ![i] = new]
  BY DEF Carries, Write
<1> HIDE DEF after
<1>5. rec \in Records /\ rec.log = after
  BY <1>2 DEF Records
<1> HIDE DEF rec
<1>6. /\ record' \in [Installs -> [Keys -> Records]]
      /\ \A j \in Installs, q \in Keys :
           /\ Len(record[j][q].log) <= Len(record'[j][q].log)
           /\ \A v \in 1 .. Len(record[j][q].log) : record'[j][q].log[v] = record[j][q].log[v]
      /\ \A j \in Installs : j # i => record'[j] = record[j]
      /\ record'[i][k] = rec
  <2>1. rec.log = record[i][k].log \/ \E t \in Texts : rec.log = Append(record[i][k].log, t)
    BY <1>2, <1>5
  <2>2. TypeOK /\ k \in Keys
    BY <1>1
  <2>3. rec \in Records
    BY <1>5
  <2> HIDE DEF k
  <2>4. Saves(i, k, rec)
    BY <1>3, <2>1, <2>2, <2>3 DEF Saves
  <2>5. QED
    BY <2>2, <2>3, <2>4, RecordWritten
<1>7. Rewrites(i, r, new)
  <2>1. \A e \in Decisions : [e EXCEPT !.state = "purged"] \in Decisions
    BY DEF Decisions
  <2>2. \A q \in Requests : decided[i][q] \in Decisions
    BY <1>1
  <2>3. new \in [Requests -> Decisions] /\ new[r] = d
    BY <1>2, <2>1, <2>2
  <2>4. \A q \in Requests : q # r =>
          \/ new[q] = decided[i][q]
          \/ decided[i][q].state # "none" /\ new[q] = [decided[i][q] EXCEPT !.state = "purged"]
    OBVIOUS
  <2> HIDE DEF new
  <2>5. QED
    BY <1>2, <1>4, <2>3, <2>4 DEF Rewrites
<1>8. new[r] = d
  OBVIOUS
<1> HIDE DEF new
<1>9. /\ decided' \in [Installs -> [Requests -> Decisions]]
      /\ \A j \in Installs, q \in Requests : decided[j][q] # Unused =>
           /\ decided'[j][q] # Unused
           /\ decided'[j][q].revision = decided[j][q].revision
           /\ decided'[j][q].state \in {decided[j][q].state, "purged"}
      /\ \A j \in Installs, q \in Requests :
           decided'[j][q] # Unused => decided[j][q] # Unused \/ (j = i /\ q = r)
      /\ r \in Requests => decided'[i][r] = new[r]
  <2>1. TypeOK
    BY <1>1
  <2>2. QED
    BY <1>7, <2>1, DecidedWritten
<1>10. Grown
  BY <1>6, <1>9 DEF Grown
<1>11. d \in Decisions /\ decided'[i][r] = d /\ d # Unused /\ record'[i][k].log = after
  <2>0. d \in Decisions /\ d.state # "none"
    BY <1>2
  <2>1. d \in Decisions /\ d # Unused
    BY <2>0 DEF Unused
  <2>2. decided'[i][r] = d
    BY <1>8, <1>9
  <2>3. record'[i][k].log = after
    BY <1>5, <1>6
  <2>4. QED
    BY <2>1, <2>2, <2>3
<1>12. d.state = "committed" => Makes(record', i, asked[r], d.revision)
  BY <1>2, <1>11 DEF Makes
<1>13. x \in Answers /\ x.state = d.state /\ x.revision = d.revision /\ x.inst = i
  BY <1>2 DEF Answers, Decisions
<1>14. Answer(n, x)
  BY DEF Carries
<1> HIDE DEF x
<1>15. /\ calls' \in Seq(Sends) /\ DOMAIN calls' = DOMAIN calls
       /\ \A l \in DOMAIN calls : l # n => calls'[l] = calls[l]
       /\ calls'[n].a = calls[n].a /\ calls'[n].open = calls[n].open /\ calls'[n].host = "done"
       /\ calls'[n].answer \in {x, None}
  BY <1>1, <1>13, <1>14, AnswerTyped
<1>16. CarriedOut(n)
  BY <1>11, <1>12, <1>13, <1>15 DEF CarriedOut
<1>17. asked[r].origin = None => \A j \in Installs : decided[j][r] = Unused
  BY <1>1, FirstSent
<1>18. Decides(i, r)
  <2>1. told[r] # "refused"
    BY <1>1 DEF Ledger, Refusals
  <2>2. \A j \in Installs : decided[j][r] # Unused => j = i
    <3>1. \A j \in Installs : decided[j][r] # Unused => asked[r].origin \in {None, j}
      BY <1>1 DEF Ledger, Decided
    <3>2. QED
      BY <1>17, <3>1
  <2>3. Executed(r)'
    <3>1. calls'[n].a.id = r /\ calls'[n].host = "done" /\ n \in DOMAIN calls'
          /\ (calls'[n].answer = None \/ calls'[n].answer.state # "refused")
      <4>1. x.state # "refused"
        BY <1>13 DEF Carries
      <4>2. QED
        BY <1>15, <4>1
    <3>2. QED
      BY <3>1 DEF Executed
  <2>4. decided'[i][r].revision <= Len(record'[i][k].log) /\ decided'[i][r].state # "none"
    BY <1>2, <1>11
  <2>5. QED
    BY <1>1, <1>9, <1>11, <1>12, <2>1, <2>2, <2>3, <2>4 DEF Decides
<1>19. asked[r].origin = None => told[r] # "purged"
  <2>1. SUFFICES ASSUME asked[r].origin = None, told[r] = "purged"
                 PROVE  FALSE
    OBVIOUS
  <2>2. PICK j \in Installs : Home(r, j)
    BY <1>1, <2>1 DEF Sound, Buried
  <2>3. QED
    BY <1>17, <2>1, <2>2, NoneApart DEF Home
<1>20. QED
  BY <1>1, <1>6, <1>9, <1>10, <1>15, <1>16, <1>18, <1>19, StoreStep

\* A host refuses attempt n, and writes nothing.
LEMMA RefuseStep ==
  ASSUME Invariant, NEW n \in DOMAIN calls, calls[n].host = "waiting",
         NEW x \in Answers, x.state = "refused", Answer(n, x),
         UNCHANGED <<pane, here, made, record, decided, asked, told, left>>
  PROVE  Invariant'
<1>1. /\ TypeOK /\ calls \in Seq(Sends) /\ left' \in Limits /\ made' \subseteq Installs
      /\ here' \in made' \cup {None} /\ decided' \in [Installs -> [Requests -> Decisions]]
  BY DEF Invariant, TypeOK
<1>2. /\ calls' \in Seq(Sends) /\ DOMAIN calls' = DOMAIN calls
      /\ \A m \in DOMAIN calls : m # n => calls'[m] = calls[m]
      /\ calls'[n].a = calls[n].a /\ calls'[n].open = calls[n].open /\ calls'[n].host = "done"
      /\ calls'[n].answer \in {x, None}
  BY <1>1, AnswerTyped
<1>3. CarriedOut(n)
  BY <1>2 DEF CarriedOut
<1>4. Grown
  BY <1>1, RecordTyped DEF TypeOK, Grown
<1>5. Decides(None, None)
  BY NoneApart DEF Decides
<1>6. QED
  BY <1>1, <1>2, <1>3, <1>4, <1>5, NoneApart, StoreStep

\* The host executes an attempt.
LEMMA ExecuteStep == ASSUME Invariant, NEW n \in DOMAIN calls, Execute(n) PROVE Invariant'
<1> DEFINE a == calls[n].a
           r == a.id
           m == asked[r].change
           k == asked[r].key
<1>1. calls[n].host = "waiting" /\ UNCHANGED <<pane, asked, told, left>>
  BY DEF Execute
<1>2. /\ TypeOK /\ Ledger /\ calls \in Seq(Sends) /\ made \subseteq Installs
      /\ here \in made \cup {None}
  BY DEF Invariant, TypeOK
<1>3. r \in Requests /\ asked[r] # None /\ a.pre = asked[r].origin
  BY <1>2, SendsTyped DEF Ledger, Dispatched, Asks
<1>4. \A c \in Codes : [state |-> "refused", code |-> c] \in Answers
  BY DEF Answers
<1>5. CASE a.pre # here /\ Answer(n, [state |-> "refused", code |-> "INSTALLATION_MISMATCH"])
           /\ UNCHANGED store
  <2>1. [state |-> "refused", code |-> "INSTALLATION_MISMATCH"] \in Answers
    BY <1>4 DEF Codes
  <2>2. QED
    BY <1>1, <1>5, <2>1, RefuseStep DEF store
<1>6. CASE Answer(n, [state |-> "refused", code |-> "STORAGE_BUSY"]) /\ UNCHANGED store
  <2>1. [state |-> "refused", code |-> "STORAGE_BUSY"] \in Answers
    BY <1>4 DEF Codes
  <2>2. QED
    BY <1>1, <1>6, <2>1, RefuseStep DEF store
<1>7. ASSUME a.pre = here, here # None,
             Decision(here, r, k, m).state = "refused", Answer(n, Decision(here, r, k, m)), UNCHANGED store
      PROVE  Invariant'
  <2> DEFINE d == Decision(here, r, k, m)
  <2>1. here \in Installs
    BY <1>2, <1>7
  <2>2. decided[here][r] \in Decisions /\ decided[here][r].state # "refused"
    BY <1>2, <1>3, <2>1, RecordTyped DEF Decisions
  <2>3. d \in Answers
    <3>1. \/ d = decided[here][r]
          \/ \E c \in Codes : d = [state |-> "refused", code |-> c]
          \/ \E v : d = [state |-> "purged", revision |-> v]
          \/ \E v : d = [state |-> IF m.kind = "purge" THEN "purged" ELSE "committed", revision |-> v]
      BY DEF Decision, Codes
    <3>2. d.state = "refused"
      BY <1>7
    <3> HIDE DEF d
    <3>3. ~ \E v : d = [state |-> "purged", revision |-> v]
      BY <3>2
    <3>4. ~ \E v : d = [state |-> IF m.kind = "purge" THEN "purged" ELSE "committed", revision |-> v]
      BY <3>2
    <3>5. QED
      BY <1>4, <2>2, <3>1, <3>2, <3>3, <3>4
  <2>4. d.state = "refused" /\ Answer(n, d)
    BY <1>7
  <2> HIDE DEF d
  <2>5. QED
    BY <1>1, <1>7, <2>3, <2>4, RefuseStep DEF store
<1>8. ASSUME a.pre = here, here # None,
             Decision(here, r, k, m).state # "refused",
             Answer(n, [state |-> Decision(here, r, k, m).state,
                        revision |-> Decision(here, r, k, m).revision, inst |-> here]),
             Write(here, r, k, m, Decision(here, r, k, m)), UNCHANGED <<here, made>>
      PROVE  Invariant'
  <2>1. here \in Installs /\ here \in made /\ asked[r].origin \in {None, here}
    BY <1>2, <1>3, <1>8
  <2>2. ASSUME NEW i, i = here
        PROVE  Carries(n, i, r, Decision(i, r, k, m))
    BY <1>8, <2>2 DEF Carries
  <2>3. QED
    BY <1>1, <1>2, <1>3, <1>8, <2>1, <2>2, WriteStep
<1>9. ASSUME a.pre = None, here = None, NEW i \in Installs \ made,
             here' = i, made' = made \cup {i},
             Answer(n, [state |-> Decision(i, r, k, m).state,
                        revision |-> Decision(i, r, k, m).revision, inst |-> i]),
             Write(i, r, k, m, Decision(i, r, k, m))
      PROVE  Invariant'
  <2>1. record[i][k] = Absent /\ decided[i][r] = Unused
    BY <1>2, <1>3, <1>9, RecordTyped DEF Ledger, Untouched
  <2>2. m.revision = 0 /\ m.kind = "capture"
    BY <1>3, <1>2, <1>9 DEF Ledger, Submitted, Fits
  <2>3. Decision(i, r, k, m).state = "committed"
    BY <2>1, <2>2 DEF Decision, Absent, Unused
  <2>4. Carries(n, i, r, Decision(i, r, k, m))
    BY <1>9, <2>3 DEF Carries
  <2>5. QED
    BY <1>1, <1>2, <1>3, <1>9, <2>4, WriteStep
<1>10. QED
  BY <1>5, <1>6, <1>7, <1>8, <1>9 DEF Execute

------------------------------------------------------------------------------
(* Every state a run reaches.                                                 *)

\* A step that changes nothing keeps the invariant.
LEMMA StutterStep == ASSUME Invariant, UNCHANGED vars PROVE Invariant'
<1>1. /\ UNCHANGED <<ed, obs, calls, pinned, block, held, seen, hello, read, lookup, route>>
      /\ UNCHANGED <<here, made, record, decided, asked, told, left>>
  BY DEF vars
<1>2. TypeOK'
  BY <1>1, SessionFacts DEF TypeOK
<1>3. Sound(ed') /\ Sound(ed)'
  BY <1>1, SessionFacts, SoundKept
<1>4. Ledger'
  BY <1>1, LedgerKept DEF Invariant
<1>5. ReadStored' /\ LookupDecided' /\ Linking'
  BY <1>1 DEF Invariant, ReadStored, Wording, LookupDecided, Made, Linking
<1>6. QED
  BY <1>2, <1>3, <1>4, <1>5 DEF Invariant

\* The list of purged records a run begins with.
LEMMA InitialEditor ==
  ASSUME NEW full \in BOOLEAN, full => MaxTombstones > 0
  PROVE  LET s == [Disconnected(initialLessonEditor) EXCEPT
                    !.tombstones = IF full THEN {PurgedBefore} ELSE {}]
         IN /\ Shape(s) /\ s.tombstones \subseteq {PurgedBefore}
            /\ s.pending = None /\ s.unresolved = {} /\ s.base = None /\ s.loaded = None
            /\ s.target = None
<1> DEFINE x == IF full THEN {PurgedBefore} ELSE {}
           s == [Disconnected(initialLessonEditor) EXCEPT !.tombstones = x]
<1>1. SUFFICES /\ Shape(s) /\ s.tombstones \subseteq {PurgedBefore}
               /\ s.pending = None /\ s.unresolved = {} /\ s.base = None /\ s.loaded = None
               /\ s.target = None
  OBVIOUS
<1>2. IsFiniteSet(x) /\ Cardinality(x) <= MaxTombstones /\ x \subseteq {PurgedBefore}
  <2>1. CASE full
    <3>1. IsFiniteSet({PurgedBefore}) /\ Cardinality({PurgedBefore}) = 1
      BY FS_Singleton
    <3>2. QED
      BY <2>1, <3>1, NoneApart
  <2>2. CASE ~full
    BY <2>2, FS_EmptySet, NoneApart
  <2>3. QED
    BY <2>1, <2>2
<1> HIDE DEF x
<1> DEFINE z == initialLessonEditor
           e == Disconnected(z)
<1>3. /\ z.expected = None /\ z.target = None /\ z.mode = None /\ z.loaded = None /\ z.base = None
      /\ z.draft = None /\ z.pending = None /\ z.unresolved = {} /\ z.tombstones = {}
      /\ z.blocked = None /\ z.phase = "idle"
  BY DEF initialLessonEditor
<1>4. z \in Editors
  BY InitialTyped
<1> HIDE DEF z
<1>5. Shape(z)
  <2>1. Bounded(z) /\ Placed(z) /\ Pending(z) /\ Versioned(z)
    BY <1>3, FS_EmptySet, NoneApart DEF Bounded, Placed, Pending, Versioned
  <2>2. Closed(z) /\ Listing(z) /\ Apart(z) /\ Waits(z)
    BY <1>3 DEF Closed, Listing, Apart, Waits
  <2>3. QED
    BY <1>4, <2>1, <2>2 DEF Shape
<1>6. Calm(z, e)
  BY <1>5, CalmOnes
<1>7. /\ e.expected = None /\ e.target = None /\ e.mode = None /\ e.loaded = None /\ e.base = None
      /\ e.draft = None /\ e.pending = None /\ e.unresolved = {} /\ e.phase # "purged"
      /\ Waits(e) /\ e \in Editors
  BY <1>3, <1>6 DEF Calm
<1> HIDE DEF e
<1>8. s \in Editors
  <2>1. x \in SUBSET (Targets \cup {PurgedBefore})
    BY <1>2
  <2>2. QED
    BY <1>7, <2>1, Setters DEF e, z
<1>9. /\ s.expected = None /\ s.target = None /\ s.mode = None /\ s.loaded = None /\ s.base = None
      /\ s.draft = None /\ s.pending = None /\ s.unresolved = {} /\ s.tombstones = x
      /\ s.phase # "purged" /\ s.blocked = e.blocked
  BY <1>7 DEF Editors, e, z
<1> HIDE DEF s
<1>10. Bounded(s) /\ Placed(s) /\ Pending(s) /\ Versioned(s)
  BY <1>2, <1>9, FS_EmptySet, NoneApart DEF Bounded, Placed, Pending, Versioned
<1>11. Closed(s) /\ Listing(s) /\ Apart(s) /\ Waits(s)
  BY <1>7, <1>9 DEF Closed, Listing, Apart, Waits
<1>12. QED
  BY <1>2, <1>8, <1>9, <1>10, <1>11 DEF Shape

\* What a run begins with.
LEMMA InitInvariant == ASSUME Init PROVE Invariant
<1>1. PICK w \in Scenarios :
        /\ ed = [Disconnected(initialLessonEditor) EXCEPT
                  !.tombstones = IF w.full THEN {PurgedBefore} ELSE {}]
        /\ obs = None /\ calls = <<>>
        /\ pinned = None /\ block = None /\ held = None /\ seen = None
        /\ hello = Hello(None, FALSE) /\ read = None /\ lookup = None /\ route = None
        /\ made = w.installs
        /\ IF made = {} THEN here = None ELSE here \in made
        /\ \E k \in Keys, text \in [made -> Texts] :
             record = [i \in Installs |-> [q \in Keys |->
                         IF i \in made /\ q = k THEN [log |-> <<text[i]>>, purged |-> FALSE]
                         ELSE Absent]]
        /\ decided = [i \in Installs |-> [r \in Requests |-> Unused]]
        /\ asked = [r \in Requests |-> None]
        /\ told = [r \in Requests |-> None]
        /\ left = w.left
  BY DEF Init
<1>2. /\ w.installs \subseteq Installs /\ w.left \in Limits
      /\ w.full \in BOOLEAN /\ (w.full => MaxTombstones > 0)
  BY SessionAssumption
<1>3. /\ Shape(ed) /\ ed.tombstones \subseteq {PurgedBefore}
      /\ ed.pending = None /\ ed.unresolved = {} /\ ed.base = None /\ ed.loaded = None
      /\ ed.target = None
  BY <1>1, <1>2, InitialEditor
<1>4. record \in [Installs -> [Keys -> Records]]
  <2>1. Absent \in Records
    BY DEF Absent, Records
  <2>2. PICK k \in Keys, text \in [made -> Texts] :
          record = [i \in Installs |-> [q \in Keys |->
                      IF i \in made /\ q = k THEN [log |-> <<text[i]>>, purged |-> FALSE]
                      ELSE Absent]]
    BY <1>1
  <2>3. \A i \in made : [log |-> <<text[i]>>, purged |-> FALSE] \in Records
    BY <2>2 DEF Records
  <2>4. QED
    BY <2>1, <2>2, <2>3
<1>5. \A i \in Installs \ made : \A k \in Keys : record[i][k] = Absent
  BY <1>1
<1>6. TypeOK
  <2>1. /\ ed \in Editors /\ obs \in Observations \cup {None} /\ calls \in Seq(Sends)
        /\ pinned \in Known /\ block \in Blocks \cup {None} /\ held \in Known
    BY <1>1, <1>3 DEF Shape, Known
  <2>2. /\ seen \in Observations \cup {None} /\ hello \in Hellos \cup {None}
        /\ read \in Reads \cup {None} /\ lookup \in Lookups \cup {None}
        /\ route \in Routes \cup {None}
    BY <1>1, HelloTyped DEF Known
  <2>3. made \subseteq Installs /\ here \in made \cup {None} /\ left \in Limits
    BY <1>1, <1>2
  <2>4. decided \in [Installs -> [Requests -> Decisions]]
    <3>1. Unused \in Decisions
      BY DEF Unused, Decisions
    <3>2. QED
      BY <1>1, <3>1
  <2>5. /\ asked \in [Requests -> Submissions \cup {None}]
        /\ told \in [Requests -> {"refused", "committed", "purged", None}]
    BY <1>1
  <2>6. QED
    BY <1>4, <2>1, <2>2, <2>3, <2>4, <2>5 DEF TypeOK
<1>7. Sound(ed)
  <2>1. Anchored(ed)
    BY <1>3 DEF Anchored, Met, PurgedBefore, Target
  <2>2. Stored(ed) /\ Attempted(ed)
    BY <1>3 DEF Stored, Attempted
  <2>3. Tracks(ed) /\ Buried(ed)
    BY <1>1, NoneApart DEF Tracks, Buried
  <2>4. QED
    BY <1>3, <2>1, <2>2, <2>3 DEF Sound
<1>8. Ledger
  <2>1. DOMAIN calls = {}
    BY <1>1
  <2>2. Refusals /\ Submitted
    BY <1>1, <2>1, NoneApart DEF Refusals, Submitted
  <2>3. Untouched
    BY <1>1, <1>5 DEF Untouched
  <2>4. Dispatched
    BY <2>1 DEF Dispatched
  <2>5. Decided
    BY <1>1 DEF Decided, Unused
  <2>6. QED
    BY <2>2, <2>3, <2>4, <2>5 DEF Ledger
<1>9. ReadStored /\ LookupDecided /\ Linking
  BY <1>1 DEF ReadStored, LookupDecided, Linking
<1>10. QED
  BY <1>6, <1>7, <1>8, <1>9 DEF Invariant

\* A step keeps the invariant.
LEMMA NextInvariant == ASSUME Invariant, [Next]_vars PROVE Invariant'
<1>1. CASE HandshakeAnswered \/ HandshakeMismatch \/ HandshakeDone \/ Refresh
  BY <1>1, HandshakeAnsweredStep, RevokeStep, HandshakeDoneStep, RefreshStep DEF HandshakeMismatch
<1>2. CASE CloseEditor \/ BrowseCurrentInstead
  BY <1>2, CloseEditorStep, BrowseStep
<1>3. CASE \E k \in Keys : OpenLesson(k) \/ StartCapture(k) \/ FollowLink(k)
  BY <1>3, OpenLessonStep, StartCaptureStep, FollowLinkStep
<1>4. CASE LinkLocated \/ LinkRefused
  BY <1>4, LinkLocatedStep, RevokeStep DEF LinkRefused
<1>5. CASE DetailAnswered \/ DetailRefused \/ DetailDone \/ ReadFails
  BY <1>5, DetailAnsweredStep, RevokeStep, DetailDoneStep, ReadFailsStep DEF DetailRefused
<1>6. CASE \E r \in Requests, intent \in {"save", "important", "purge"} : Submit(r, intent)
  BY <1>6, SubmitStep
<1>7. CASE \E n \in DOMAIN calls : Succeeded(n) \/ Refusal(n) \/ GivenUp(n) \/ Execute(n)
  BY <1>7, SucceededStep, RefusalStep, GivenUpStep, ExecuteStep
<1>8. CASE Retry \/ CheckOutcome \/ OutcomeAnswered \/ OutcomeRefused \/ OutcomeDone
  BY <1>8, RetryStep, CheckOutcomeStep, OutcomeAnsweredStep, RevokeStep, OutcomeDoneStep
     DEF OutcomeRefused
<1>9. CASE (\E t \in Texts : EditText(t)) \/ CancelEdit \/ Rebase \/ Reload
  BY <1>9, EditTextStep, CancelEditStep, RebaseStep, ReloadStep
<1>10. CASE Rival \/ Move
  BY <1>10, RivalStep, MoveStep
<1>11. CASE UNCHANGED vars
  BY <1>11, StutterStep
<1>12. QED
  BY <1>1, <1>2, <1>3, <1>4, <1>5, <1>6, <1>7, <1>8, <1>9, <1>10, <1>11 DEF Next

------------------------------------------------------------------------------
(* What every run keeps.                                                      *)

\* The inductive invariant: what the editor, the attempts, the reads under way
\* and the stores' decisions have to do with each other, whatever the pane,
\* the hosts and the other clients do.
THEOREM SessionInvariant == Spec => []Invariant
<1>1. Init => Invariant
  BY InitInvariant
<1>2. Invariant /\ [Next]_vars => Invariant'
  BY NextInvariant
<1>3. QED
  BY <1>1, <1>2, PTL DEF Spec

\* Every variable has the type the code gives it.
THEOREM Typing == Spec => []TypeOK
<1>1. Invariant => TypeOK
  BY DEF Invariant
<1>2. QED
  BY <1>1, SessionInvariant, PTL

\* A save the pane reported as refused is one no store decided or will decide:
\* a refusal that comes after an answer was lost is not taken for the outcome.
THEOREM RefusalsProven == Spec => []NoFalseRefusal
<1>1. Invariant => NoFalseRefusal
  BY DEF Invariant, Ledger, Refusals, NoFalseRefusal
<1>2. QED
  BY <1>1, SessionInvariant, PTL

\* A request that was submitted is in the editor, among the unchecked saves, or
\* settled, through every navigation, quarantine, reconnect and reload.
THEOREM RequestsKept == Spec => []NoRequestForgotten
<1>1. Invariant => NoRequestForgotten
  BY DEF Invariant, Sound, Tracks, NoRequestForgotten
<1>2. QED
  BY <1>1, SessionInvariant, PTL

\* A request is decided by one store, the one it was composed for.
THEOREM DecidedByOne == Spec => []OneStore
<1>1. Invariant => OneStore
  BY DecidedOnce DEF Invariant, Ledger
<1>2. QED
  BY <1>1, SessionInvariant, PTL

\* The version a draft is compared with and submitted against is one the
\* store of its record had.
THEOREM BaseStored == Spec => []BaseWasStored
<1>1. Invariant => BaseWasStored
  BY DEF Invariant, Sound, Stored, Wording, BaseWasStored
<1>2. QED
  BY <1>1, SessionInvariant, PTL

\* Nothing of a record the tab was told is purged is shown, not even when the
\* list of purged records is full.
THEOREM PurgedHidden == Spec => []PurgedStaysHidden
<1>1. ASSUME Invariant PROVE PurgedStaysHidden
  <2>1. Sound(ed) /\ Shape(ed) /\ OneStore
    BY <1>1, SessionFacts
  <2>2. SUFFICES ASSUME ed.target # None,
                        \/ isTombstoned(ed, ed.target)
                        \/ ed.expected # None /\ ToldPurged(ed.target, ed.expected)
                 PROVE  Shown(ed) = {}
    BY DEF PurgedStaysHidden
  <2>3. ed.phase = "purged"
    <3>1. CASE isTombstoned(ed, ed.target)
      BY <2>1, <2>2, <3>1 DEF Shape, Closed
    <3>2. CASE ed.expected # None /\ ToldPurged(ed.target, ed.expected)
      <4>1. PICK r \in Requests :
              /\ told[r] = "purged" /\ asked[r].key = ed.target.key
              /\ asked[r].origin = ed.expected \/ decided[ed.expected][r].state = "purged"
        BY <3>2 DEF ToldPurged
      <4>2. ed.expected \in Installs
        BY <2>1, <3>2 DEF Shape, Editors, Known
      <4>3. Home(r, ed.expected)
        BY <2>1, <4>1, <4>2 DEF OneStore, Home, Unused
      <4>4. QED
        BY <2>1, <2>2, <4>1, <4>3 DEF Sound, Buried
    <3>3. QED
      BY <2>2, <3>1, <3>2
  <2>4. ed.loaded = None /\ ed.base = None /\ ed.draft = None
    BY <2>1, <2>3 DEF Shape, Closed
  <2>5. QED
    BY <2>4 DEF Shown
<1>2. QED
  BY <1>1, SessionInvariant, PTL

\* The tab can read back what it keeps, so that no reload takes the unchecked
\* saves and the purged records with it.
THEOREM SnapshotRead == Spec => []SnapshotReadable
<1>1. Invariant => SnapshotReadable
  BY SessionFacts, SnapshotHydratable DEF SnapshotReadable
<1>2. QED
  BY <1>1, SessionInvariant, PTL

------------------------------------------------------------------------------
(* What becomes of wording that is not saved: the steps that leave it alone.  *)

Worded(s) == {"draft", "phase"} \subseteq DOMAIN s

\* The wording of s is in t as it was.
Same(s, t) == DOMAIN t = DOMAIN s /\ t.draft = s.draft

\* It goes only with its record.
Drafts(s, t) == DOMAIN t = DOMAIN s /\ (t.draft = s.draft \/ t.phase = "purged")

\* A purged record is shown as purged.
LEMMA PurgePhase ==
  ASSUME NEW s, NEW x, Worded(s)
  PROVE  Drafts(s, purge(s, x))
<1> DEFINE b == [s EXCEPT !.loaded = None, !.base = None, !.draft = None,
                          !.pending = None, !.blocked = None, !.phase = "purged"]
<1>1. DOMAIN b = DOMAIN s /\ b.phase = "purged"
  BY DEF Worded
<1>2. purge(s, x) = addTombstone(b, x)
  BY DEF purge
<1> HIDE DEF b
<1>3. QED
  BY <1>1, <1>2 DEF addTombstone, Worded, Drafts

\* So do an observation of the store,
LEMMA ObserveDrafts ==
  ASSUME NEW s, NEW o, Worded(s)
  PROVE  Drafts(s, observeStore(s, o))
<1>1. \A e : Drafts(s, quarantine([s EXCEPT !.expected = e]))
  BY DEF quarantine, Drafts, Worded
<1>2. Drafts(s, [s EXCEPT !.gate = "unverified", !.loaded = None]) /\ Drafts(s, s)
  BY DEF Drafts, Worded
<1>3. Drafts(s, Verified(s, o))
  <2> DEFINE target == IF o.inst = None \/ s.target.bind # Loc
                       THEN s.target ELSE [s.target EXCEPT !.inst = o.inst]
             gate == IF s.gate \notin {"unverified", "mismatch"} THEN s.gate
                     ELSE IF s.mode = "capture" /\ s.pending = None /\ ~s.needsFreshDetail
                          THEN "ready" ELSE "reading"
             expected == IF Expected(s) # None THEN Expected(s) ELSE o.inst
             t == [s EXCEPT !.target = target, !.gate = gate, !.expected = expected,
                            !.generation = IF s.gate = "mismatch" THEN @ + 1 ELSE @]
  <2>1. Verified(s, o) = IF isTombstoned(t, target) THEN purge(t, target) ELSE t
    BY DEF Verified
  <2> HIDE DEF target, gate, expected
  <2>2. Same(s, t)
    BY DEF Same, Worded
  <2> HIDE DEF t
  <2>3. QED
    BY <2>1, <2>2, PurgePhase DEF Same, Drafts, Worded
<1>4. QED
  BY <1>1, <1>2, <1>3 DEF observeStore

\* ... a navigation that the person has not agreed to,
LEMMA NavigatedDrafts ==
  ASSUME NEW s, NEW nav, NEW o, Worded(s), isLessonEditorDirty(s)
  PROVE  Drafts(s, Navigated(s, nav, o))
<1>1. requestNavigation(s, nav) = [s EXCEPT !.blocked = nav]
  BY DEF requestNavigation
<1>2. Same(s, requestNavigation(s, nav))
  BY <1>1 DEF Same, Worded
<1>3. Drafts(s, observeStore(requestNavigation(s, nav), o))
  BY <1>2, ObserveDrafts DEF Same, Drafts, Worded
<1>4. QED
  BY <1>3 DEF Navigated, Drafts

\* ... what a read brings,
LEMMA AnsweredDrafts ==
  ASSUME NEW s, NEW q, NEW o, Worded(s), isLessonEditorDirty(s)
  PROVE  Drafts(s, Answered(s, q, o))
<1>1. Drafts(s, s) /\ Drafts(s, quarantine(s)) /\ Drafts(s, detailMissing(s))
  BY DEF Drafts, quarantine, detailMissing, Worded
<1>2. Drafts(s, loaded(s, q.view))
  <2> DEFINE v == [revision |-> q.view.revision, text |-> q.view.text]
             fresh == [s EXCEPT !.gate = "ready", !.needsFreshDetail = FALSE, !.loaded = v]
  <2>1. s.base # None
    BY DEF isLessonEditorDirty
  <2>2. loaded(s, q.view) \in {purge(s, s.target), s, fresh}
    BY <2>1 DEF loaded
  <2>3. Drafts(s, fresh)
    BY DEF Drafts, Worded
  <2>4. QED
    BY <1>1, <2>2, <2>3, PurgePhase
<1>3. QED
  BY <1>1, <1>2 DEF Answered

\* ... and what becomes of a request: an attempt that named no store,
LEMMA OutcomeDrafts ==
  ASSUME NEW s, NEW a, NEW code, Worded(s)
  PROVE  Drafts(s, attemptOutcome(s, a, code))
<1>1. Same(s, quarantine(s)) /\ Same(s, Withheld(s)) /\ Same(s, s)
  BY DEF quarantine, Withheld, Same, Worded
<1>2. \A t : Same(s, t) => Same(s, markUnknown(t))
  BY DEF markUnknown, Same, Worded
<1>3. \A t, phase : Same(s, t) => Same(s, Settled(t, phase))
  BY DEF Settled, Same, Worded
<1>4. \A t : Same(s, t) => Drafts(s, t)
  BY DEF Same, Drafts
<1>5. Drafts(s, purge(s, s.pending.target))
  BY PurgePhase
<1>6. QED
  BY <1>1, <1>2, <1>3, <1>4, <1>5 DEF attemptOutcome

\* ... an unchecked save,
LEMMA UnresolvedDrafts ==
  ASSUME NEW s, NEW u, NEW r, Worded(s)
  PROVE  Drafts(s, settleUnresolved(s, u, r))
<1> DEFINE next == [s EXCEPT !.unresolved = @ \ {u}]
<1>1. Same(s, next) /\ Worded(next)
  BY DEF Same, Worded
<1> HIDE DEF next
<1>2. Same(next, failClosed(next))
  BY <1>1 DEF failClosed, Withheld, Same, Worded
<1>3. \A t, x : Same(next, t) => Same(next, addTombstone(t, x))
  BY <1>1 DEF addTombstone, Same, Worded
<1>4. Drafts(next, purge(next, u.target))
  BY <1>1, PurgePhase
<1>5. settleUnresolved(s, u, r) \in {s, next, purge(next, u.target),
        addTombstone(failClosed(next), u.target), addTombstone(next, u.target)}
  BY DEF settleUnresolved, next
<1>6. QED
  BY <1>1, <1>2, <1>3, <1>4, <1>5 DEF Same, Drafts

\* ... a commit,
LEMMA CommitDrafts ==
  ASSUME NEW s, NEW r, Worded(s)
  PROVE  Drafts(s, applyCommit(s, r))
<1> DEFINE p == s.pending
           m == p.mutation
           newer == s.base # None /\ m # None /\ r.revision > s.base.revision
           next == [s EXCEPT !.mode = "existing", !.pending = None,
                      !.base = IF ~newer THEN @
                               ELSE [revision |-> r.revision,
                                     text |-> IF m.kind \in {"capture", "edit"} THEN m.text ELSE @.text]]
           done == [next EXCEPT !.phase = IF isLessonEditorDirty(next) THEN "editing" ELSE "saved"]
<1>1. applyCommit(s, r) = IF m # None /\ m.kind = "purge" THEN purge(s, p.target) ELSE done
  BY DEF applyCommit
<1>2. Same(s, next)
  BY DEF Same, Worded
<1> HIDE DEF next
<1>3. Same(s, done)
  BY <1>2 DEF Same, Worded
<1> HIDE DEF done
<1>4. QED
  BY <1>1, <1>3, PurgePhase DEF Same, Drafts

\* ... and any receipt.
LEMMA ReceiptedDrafts ==
  ASSUME NEW s, NEW q, NEW r, NEW i, NEW o, Worded(s)
  PROVE  Drafts(s, Receipted(s, q, r, i, o))
<1> DEFINE t == attributeOperation(s, q.id, r, i)
<1>1. Same(s, t) /\ Worded(t)
  BY DEF attributeOperation, Same, Worded
<1>2. Same(s, s) /\ Same(s, quarantine(s))
  BY DEF quarantine, Same, Worded
<1> HIDE DEF t
<1>3. Drafts(t, receipt(t, q.id, r))
  <2>1. Drafts(t, [t EXCEPT !.phase = "unknown"])
    BY <1>1 DEF Drafts, Worded
  <2>2. \A u : Drafts(t, settleUnresolved(t, u, r))
    BY <1>1, UnresolvedDrafts
  <2>3. Drafts(t, purge(t, t.pending.target)) /\ Drafts(t, applyCommit(t, r))
    BY <1>1, PurgePhase, CommitDrafts
  <2>4. QED
    BY <2>1, <2>2, <2>3 DEF receipt
<1>4. Drafts(s, receipt(t, q.id, r))
  BY <1>1, <1>3 DEF Same, Drafts
<1>5. Receipted(s, q, r, i, o) \in {s, quarantine(s), receipt(t, q.id, r)}
  BY DEF Receipted, t
<1>6. QED
  BY <1>2, <1>4, <1>5 DEF Same, Drafts

\* The answer of an attempt is such a receipt, or none.
LEMMA SuccessDrafts ==
  ASSUME NEW s, NEW a, NEW r, NEW i, NEW o, Worded(s)
  PROVE  Drafts(s, finishSuccess(s, a, r, i, o))
<1> DEFINE next == Receipted(s, a, r, i, o)
<1>1. Drafts(s, next)
  BY ReceiptedDrafts
<1>2. finishSuccess(s, a, r, i, o) \in
        {attemptOutcome(s, a, "unknown"), next}
        \cup (IF next.phase = "saving" THEN {attemptOutcome(next, a, "unknown")} ELSE {})
  BY DEF finishSuccess
<1> HIDE DEF next
<1>3. Drafts(s, attemptOutcome(s, a, "unknown"))
  BY OutcomeDrafts
<1>4. next.phase = "saving" => Drafts(s, attemptOutcome(next, a, "unknown"))
  <2>1. Worded(next)
    BY <1>1 DEF Drafts, Worded
  <2>2. Drafts(next, attemptOutcome(next, a, "unknown"))
    BY <2>1, OutcomeDrafts
  <2>3. QED
    BY <1>1, <2>2 DEF Drafts
<1>5. QED
  BY <1>1, <1>2, <1>3, <1>4

\* Wording that is not saved stays when the connection is lost.
LEMMA ConnectedDrafts == ASSUME NEW s, Worded(s) PROVE Same(s, Connected(s))
<1>1. Same(s, ReportUnknown(s)) /\ Worded(ReportUnknown(s))
  BY DEF ReportUnknown, markUnknown, Same, Worded
<1>2. Same(ReportUnknown(s), Connected(s))
  BY <1>1 DEF Connected, Disconnected, Same, Worded
<1>3. QED
  BY <1>1, <1>2 DEF Same

------------------------------------------------------------------------------
\* Any step but those of the person, with wording that is not saved.
LEMMA WordingStep ==
  ASSUME Worded(ed), isLessonEditorDirty(ed), [Next]_vars
  PROVE  \/ Drafts(ed, ed')
         \/ \E t \in Texts : EditText(t)
         \/ CancelEdit \/ Reload \/ CloseEditor \/ BrowseCurrentInstead
         \/ \E k \in Keys : OpenLesson(k) \/ StartCapture(k) \/ FollowLink(k)
<1>1. Drafts(ed, ed)
  BY DEF Drafts
<1>2. CASE RevokeForIdentity
  BY <1>2, ConnectedDrafts DEF RevokeForIdentity, Same, Drafts
<1>3. CASE ed' = ed
  BY <1>1, <1>3
<1>4. CASE HandshakeDone
  <2>1. \E s \in {ed, Connected(ed)} : \E o : ed' = observeStore(s, o)
    BY <1>4 DEF HandshakeDone
  <2>2. PICK s \in {ed, Connected(ed)} : \E o : ed' = observeStore(s, o)
    BY <2>1
  <2>3. Same(ed, s) /\ Worded(s)
    BY ConnectedDrafts DEF Same, Worded
  <2>4. QED
    BY <2>2, <2>3, ObserveDrafts DEF Same, Drafts
<1>5. CASE LinkLocated
  BY <1>5, NavigatedDrafts DEF LinkLocated
<1>6. CASE DetailDone
  BY <1>1, <1>6, AnsweredDrafts DEF DetailDone
<1>7. ASSUME NEW r \in Requests, NEW intent, Submit(r, intent)
      PROVE  Drafts(ed, ed')
  BY <1>7 DEF Submit, submit, Drafts, Worded
<1>8. ASSUME NEW n \in DOMAIN calls, Succeeded(n) \/ Refusal(n) \/ GivenUp(n)
      PROVE  Drafts(ed, ed')
  BY <1>8, SuccessDrafts, OutcomeDrafts DEF Succeeded, Refusal, GivenUp, Finish
<1>9. CASE OutcomeDone
  BY <1>1, <1>9, ReceiptedDrafts DEF OutcomeDone
<1>10. CASE Rebase
  BY <1>10 DEF Rebase, rebase, Drafts, Worded
<1>11. CASE HandshakeAnswered \/ Refresh \/ DetailAnswered \/ ReadFails \/ CheckOutcome
            \/ OutcomeAnswered
  BY <1>3, <1>11 DEF HandshakeAnswered, Refresh, DetailAnswered, ReadFails, CheckOutcome,
                     OutcomeAnswered
<1>12. CASE Retry \/ Rival \/ Move \/ \E n \in DOMAIN calls : Execute(n)
  BY <1>3, <1>12 DEF Retry, Rival, Move, Execute, pane
<1>13. CASE UNCHANGED vars
  BY <1>3, <1>13 DEF vars
<1>14. QED
  BY <1>2, <1>4, <1>5, <1>6, <1>7, <1>8, <1>9, <1>10, <1>11, <1>12, <1>13
     DEF Next, HandshakeMismatch, LinkRefused, DetailRefused, OutcomeRefused

\* Wording that is not saved goes only when the person discards, edits or
\* leaves it or reloads the page, or with its record: no answer, receipt, lost
\* connection or link that was located takes it away.
THEOREM WordingStays == Spec => WordingKept
<1>1. Invariant => Worded(ed)
  BY SessionFacts DEF Editors, Worded
<1>2. ASSUME Invariant, [Next]_vars
      PROVE  [isLessonEditorDirty(ed) /\ ed'.phase # "purged" =>
                \/ ed'.draft = ed.draft
                \/ \E t \in Texts : EditText(t)
                \/ CancelEdit \/ Reload \/ CloseEditor \/ BrowseCurrentInstead
                \/ \E k \in Keys : OpenLesson(k) \/ StartCapture(k) \/ FollowLink(k)]_vars
  BY <1>1, <1>2, WordingStep DEF Drafts
<1>3. QED
  BY <1>2, SessionInvariant, PTL DEF Spec, WordingKept
==============================================================================
