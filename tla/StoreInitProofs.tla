-------------------------- MODULE StoreInitProofs --------------------------
(***************************************************************************)
(* For any number of processes and deaths: one process works under the     *)
(* guard, an identity once written stays, all that are told the store is   *)
(* ready are told the same one, a create opens what it made, and files     *)
(* that fit together are never taken for damage.                           *)
(***************************************************************************)
EXTENDS StoreInit, TLAPS

Looking == {"dir", "marker", "db", "guard", "absent", "read", "redb", "verify"}
Labels == Looking \cup {"idle", "mkdir", "take", "wait", "owned", "open", "write", "mkdb",
                        "schema", "ready", "release", "done", "dead"}
Stages == {"first", "under", "last"}
Damage == {"unreadable", "database_without_marker", "database_missing",
           "database_invalid", "identity_mismatch"}
Answers == {"ready", "uninitialized", "mismatch", "guard_held", "interrupted"}

Call == [kind : Kinds, pc : Labels, stage : Stages, seen : SUBSET {"marker", "db", "guard"},
         attempt : 0 .. 2, id : Procs \cup {None}, late : BOOLEAN, result : Answers \cup {"none"}]
Marker == [id : Procs, state : {"initializing", "ready"}]

\* A call has no answer but the answers, so damage is not among them.
Typed ==
  /\ dir \in BOOLEAN
  /\ marker \in Marker \cup {None}
  /\ db \in Procs \cup {None, "empty"}
  /\ guard \in Procs \cup {None}
  /\ proc \in [Procs -> Call]

\* The database is made after the marker and has its identity when that is ready.
MarkerFirst ==
  /\ marker = None => db = None
  /\ marker # None /\ marker.state = "ready" => db = marker.id

Under(p) == proc[p].stage = "under" /\ proc[p].pc \notin {"open", "done", "dead"}

\* Who works under the guard, and what it knows of the files there.
Holding(p) ==
  /\ Under(p) => guard = p /\ dir
  /\ At(p, "take") => dir
  /\ proc[p].pc \in {"write", "mkdb", "schema", "ready", "release"} => proc[p].stage = "under"
  /\ At(p, "write") => marker = None
  /\ proc[p].pc \in {"mkdb", "schema", "ready"} => marker = [id |-> p, state |-> "initializing"]
  /\ At(p, "schema") => db = "empty"
  /\ At(p, "ready") => db = p

\* What a look has found is there for good; under the guard what it has not
\* found is not there.
Looked(p) ==
  /\ "marker" \in proc[p].seen => marker # None
  /\ "db" \in proc[p].seen => db # None
  /\ At(p, "absent") => "marker" \notin proc[p].seen
  /\ At(p, "read") => "marker" \in proc[p].seen
  /\ proc[p].attempt # 0 => marker # None
  /\ proc[p].attempt # 0 /\ proc[p].pc \in {"db", "guard", "absent"} => "marker" \in proc[p].seen
  /\ Under(p) /\ proc[p].pc \in {"db", "guard", "absent"} /\ "marker" \notin proc[p].seen =>
       marker = None

HasId(p) == proc[p].id \in Procs /\ db = proc[p].id

\* The identity a call opens, or has been told, is that of the database.
Identified(p) ==
  /\ proc[p].pc \in {"redb", "verify", "open"} => HasId(p)
  /\ At(p, "release") /\ proc[p].result = "none" => HasId(p)
  /\ proc[p].result # "none" => proc[p].pc \in {"release", "done"}
  /\ At(p, "done") => proc[p].result # "none"
  /\ proc[p].result = "ready" => At(p, "done") /\ HasId(p)
  /\ proc[p].kind = "create" =>
       /\ At(p, "open") => proc[p].id = p
       /\ At(p, "release") /\ proc[p].result = "none" => proc[p].id = p
       /\ proc[p].result = "ready" => proc[p].id = p

Knows(p) == Holding(p) /\ Looked(p) /\ Identified(p)

IInv == Typed /\ MarkerFirst /\ \A p \in Procs : Knows(p)

-----------------------------------------------------------------------------
(* Files only grow, and those under the guard change by its owner's hand.  *)

Grows ==
  /\ dir => dir'
  /\ marker # None => marker' # None
  /\ db # None => db' # None
  /\ db \in Procs => db' = db

Unheld(p) == Under(p) => UNCHANGED <<marker, db, guard>>

\* A process that takes no step knows what it knew.
LEMMA OtherKnows ==
  ASSUME IInv, NEW q \in Procs, proc'[q] = proc[q], Grows, Unheld(q)
  PROVE  Knows(q)'
<1>1. Knows(q) /\ proc[q] \in Call
  BY DEF IInv, Typed
<1>2. proc[q].pc \in {"write", "mkdb", "schema", "ready", "release"} => Under(q)
  BY <1>1 DEF Knows, Holding, Under
<1>3. Under(q)' <=> Under(q)
  BY DEF Under
<1>4. Holding(q)'
  BY <1>1, <1>2, <1>3 DEF Knows, Holding, At, Grows, Unheld
<1>5. Looked(q)'
  BY <1>1, <1>3 DEF Knows, Looked, At, Grows, Unheld
<1>6. Identified(q)'
  BY <1>1 DEF Knows, Identified, HasId, At, Grows
<1> QED BY <1>4, <1>5, <1>6 DEF Knows

\* A step of one process that leaves the files as they are.
LEMMA QuietStep ==
  ASSUME IInv, NEW p \in Procs, NEW c \in Call, proc' = [proc EXCEPT ![p] = c],
         UNCHANGED disk, Knows(p)'
  PROVE  IInv'
<1>1. Typed'
  BY DEF IInv, Typed, disk
<1>2. MarkerFirst'
  BY DEF IInv, MarkerFirst, disk
<1>3. ASSUME NEW q \in Procs, q # p PROVE Knows(q)'
  <2>1. proc'[q] = proc[q]
    BY <1>3 DEF IInv, Typed
  <2> QED BY <2>1, OtherKnows DEF Grows, Unheld, disk
<1> QED BY <1>1, <1>2, <1>3 DEF IInv

\* A step of the guard's owner, or of one that takes a free guard.
LEMMA OwnerStep ==
  ASSUME IInv, NEW p \in Procs, NEW c \in Call, proc' = [proc EXCEPT ![p] = c],
         Typed', MarkerFirst', Grows, Under(p) \/ guard = None, Knows(p)'
  PROVE  IInv'
<1>1. ASSUME NEW q \in Procs, q # p PROVE Knows(q)'
  <2>1. proc'[q] = proc[q]
    BY <1>1 DEF IInv, Typed
  <2>2. ~Under(q)
    <3>1. Under(q) => guard = q
      BY DEF IInv, Knows, Holding
    <3>2. Under(p) => guard = p
      BY DEF IInv, Knows, Holding
    <3>3. None # q
      BY NoneAssumption
    <3> QED BY <1>1, <3>1, <3>2, <3>3
  <2> QED BY <2>1, <2>2, OtherKnows DEF Unheld
<1> QED BY <1>1 DEF IInv

-----------------------------------------------------------------------------
(* What a call does once an inspection ended.                              *)

\* Whatever an inspection finds, a call goes on in a state it can be in: it
\* finds "ready" only with the identity of the database, and under the guard
\* nothing only where there is nothing.
LEMMA FoundStep ==
  ASSUME IInv, NEW p \in Procs, proc[p].pc \in Looking,
         NEW found \in {"uninitialized", "ready", "guard_held", "interrupted"},
         found = "ready" => HasId(p),
         Under(p) /\ found \in {"uninitialized", "guard_held"} => marker = None,
         Found(p, found), UNCHANGED disk
  PROVE  IInv'
<1>1. proc \in [Procs -> Call] /\ proc[p] \in Call /\ Knows(p)
  BY DEF IInv, Typed
<1>2. proc[p].result = "none"
  BY <1>1 DEF Knows, Identified, Looking
<1>3. ASSUME NEW r \in Answers, Done(p, r), r = "ready" => proc[p].kind # "create" /\ HasId(p)
      PROVE  IInv'
  <2> DEFINE c == [proc[p] EXCEPT !.pc = "done", !.result = r, !.seen = {},
                                  !.attempt = 0, !.stage = "first"]
  <2>1. c \in Call
    <3>1. "done" \in Labels /\ "first" \in Stages /\ r \in Answers \cup {"none"}
      BY DEF Labels, Stages
    <3>2. {} \in SUBSET {"marker", "db", "guard"} /\ 0 \in 0 .. 2
      OBVIOUS
    <3> QED BY <1>1, <3>1, <3>2 DEF Call
  <2>2. proc' = [proc EXCEPT ![p] = c] /\ proc'[p] = c
    BY <1>1, <1>3 DEF Done
  <2>3. r # "none"
    BY DEF Answers
  <2>4. Knows(p)'
    BY <1>1, <1>3, <2>2, <2>3 DEF Knows, Holding, Looked, Identified, HasId, Under, At, disk, Call
  <2> QED BY <2>1, <2>2, <2>4, QuietStep
<1>4. ASSUME NEW l \in Labels, Goto(p, l),
             \/ l \in {"mkdir", "wait", "owned"} /\ ~Under(p)
             \/ l = "open" /\ HasId(p) /\ proc[p].kind # "create"
             \/ l = "write" /\ Under(p) /\ marker = None
             \/ l = "release" /\ Under(p) /\ HasId(p) /\ proc[p].kind # "create"
      PROVE  IInv'
  <2> DEFINE c == [proc[p] EXCEPT !.pc = l]
  <2>1. c \in Call
    BY <1>1 DEF Call
  <2>2. proc' = [proc EXCEPT ![p] = c] /\ proc'[p] = c
    BY <1>1, <1>4 DEF Goto
  <2>3. proc[p].pc \notin {"open", "done", "dead"}
    BY DEF Looking
  <2>4. Knows(p)'
    BY <1>1, <1>2, <1>4, <2>2, <2>3 DEF Knows, Holding, Looked, Identified, HasId, Under, At, disk, Call
  <2> QED BY <2>1, <2>2, <2>4, QuietStep
<1>5. ASSUME NEW r \in Answers, Under(p), r # "ready",
             proc' = [proc EXCEPT ![p].pc = "release", ![p].result = r]
      PROVE  IInv'
  <2> DEFINE c == [proc[p] EXCEPT !.pc = "release", !.result = r]
  <2>1. c \in Call
    BY <1>1 DEF Call, Labels
  <2>2. proc' = [proc EXCEPT ![p] = c] /\ proc'[p] = c
    BY <1>1, <1>5
  <2>3. r # "none"
    BY DEF Answers
  <2>4. Knows(p)'
    BY <1>1, <1>5, <2>2, <2>3 DEF Knows, Holding, Looked, Identified, HasId, Under, At, disk, Call
  <2> QED BY <2>1, <2>2, <2>4, QuietStep
<1>6. /\ {"mkdir", "open", "wait", "owned", "write", "release"} \subseteq Labels
      /\ found \in Answers /\ {"mismatch", "guard_held"} \subseteq Answers
  BY DEF Labels, Answers
<1>7. ~(proc[p].pc \in {"open", "done", "dead"})
  BY DEF Looking
<1>8. CASE proc[p].kind = "inspect"
  <2>1. Done(p, found)
    BY <1>8 DEF Found
  <2>2. proc[p].kind # "create"
    BY <1>8
  <2> QED BY <1>3, <1>6, <2>1, <2>2
<1>9. CASE proc[p].kind # "inspect" /\ proc[p].stage = "first"
  <2>1. FirstLook(p, found) /\ ~Under(p)
    BY <1>9 DEF Found, Under
  <2>2. CASE found = "uninitialized"
    BY <1>4, <1>6, <2>1, <2>2 DEF FirstLook
  <2>3. CASE found = "ready" /\ proc[p].kind = "create"
    BY <1>3, <1>6, <2>1, <2>3 DEF FirstLook
  <2>4. CASE found = "ready" /\ proc[p].kind # "create"
    BY <1>4, <1>6, <2>1, <2>4 DEF FirstLook
  <2>5. CASE found = "guard_held"
    BY <1>4, <1>6, <2>1, <2>5 DEF FirstLook
  <2>6. CASE found = "interrupted"
    BY <1>4, <1>6, <2>1, <2>6 DEF FirstLook
  <2> QED BY <2>2, <2>3, <2>4, <2>5, <2>6
<1>10. CASE proc[p].kind # "inspect" /\ proc[p].stage = "under"
  <2>1. LookUnderGuard(p, found) /\ Under(p)
    BY <1>7, <1>10 DEF Found, Under
  <2>2. CASE found \in {"uninitialized", "guard_held"}
    BY <1>4, <1>6, <2>1, <2>2 DEF LookUnderGuard
  <2>3. CASE found = "ready" /\ proc[p].kind = "join"
    BY <1>4, <1>6, <2>1, <2>3 DEF LookUnderGuard
  <2>4. CASE found = "ready" /\ proc[p].kind # "join"
    BY <1>5, <1>6, <2>1, <2>4 DEF LookUnderGuard
  <2>5. CASE found = "interrupted"
    BY <1>5, <1>6, <2>1, <2>5 DEF LookUnderGuard
  <2> QED BY <2>2, <2>3, <2>4, <2>5
<1>11. CASE proc[p].kind # "inspect" /\ proc[p].stage \notin {"first", "under"}
  BY <1>3, <1>6, <1>11 DEF Found, LastLook
<1> QED BY <1>8, <1>9, <1>10, <1>11

-----------------------------------------------------------------------------
(* inspectState.                                                           *)

\* A look at one entry.
LEMMA SeesStep ==
  ASSUME IInv, NEW p \in Procs, NEW entry \in {"marker", "db", "guard"}, NEW next \in Labels,
         NEW there \in BOOLEAN, Sees(p, entry, there, next), UNCHANGED disk,
         \/ At(p, "marker") /\ entry = "marker" /\ next = "db" /\ (there <=> marker # None)
         \/ At(p, "db") /\ entry = "db" /\ next = "guard" /\ (there <=> db # None)
         \/ At(p, "guard") /\ entry = "guard"
              /\ next = IF "marker" \in proc[p].seen THEN "read" ELSE "absent"
  PROVE  IInv'
<1>1. proc \in [Procs -> Call] /\ proc[p] \in Call /\ Knows(p)
  BY DEF IInv, Typed
<1> DEFINE found == IF there THEN proc[p].seen \cup {entry} ELSE proc[p].seen \ {entry}
           c == [proc[p] EXCEPT !.seen = found, !.pc = next]
<1>2. c \in Call
  <2>1. found \in SUBSET {"marker", "db", "guard"}
    BY <1>1 DEF Call
  <2> HIDE DEF found
  <2> QED BY <1>1, <2>1 DEF Call
<1>3. proc' = [proc EXCEPT ![p] = c] /\ proc'[p] = c
  BY <1>1 DEF Sees
<1>4. /\ proc'[p].seen = found /\ proc'[p].pc = next
      /\ proc'[p].stage = proc[p].stage /\ proc'[p].attempt = proc[p].attempt
      /\ proc'[p].id = proc[p].id /\ proc'[p].result = proc[p].result
      /\ proc'[p].kind = proc[p].kind
  BY <1>1, <1>3 DEF Call
<1>5. Under(p)' <=> Under(p)
  BY <1>4 DEF Under, At
<1>6. Holding(p)' /\ Identified(p)'
  BY <1>1, <1>4, <1>5 DEF Knows, Holding, Identified, HasId, At, disk
<1>7. Looked(p)'
  BY <1>1, <1>4, <1>5 DEF Knows, Looked, At, disk
<1> QED BY <1>2, <1>3, <1>6, <1>7, QuietStep DEF Knows

\* A call goes on to another look and nothing else changes.
LEMMA GotoStep ==
  ASSUME IInv, NEW p \in Procs, NEW l \in Labels, Goto(p, l), UNCHANGED disk,
         \/ At(p, "dir") /\ l = "marker"
         \/ At(p, "redb") /\ l = "verify"
         \/ At(p, "owned") /\ l = "wait"
         \/ At(p, "take") /\ l = "wait" /\ guard # None
  PROVE  IInv'
<1>1. proc \in [Procs -> Call] /\ proc[p] \in Call /\ Knows(p)
  BY DEF IInv, Typed
<1> DEFINE c == [proc[p] EXCEPT !.pc = l]
<1>2. c \in Call
  BY <1>1 DEF Call
<1>3. proc' = [proc EXCEPT ![p] = c] /\ proc'[p] = c
  BY <1>1 DEF Goto
<1>4. Knows(p)'
  BY <1>1, <1>3 DEF Knows, Holding, Looked, Identified, HasId, Under, At, disk, Call
<1> QED BY <1>2, <1>3, <1>4, QuietStep

\* The first look: no directory is never found under the guard.
LEMMA LookDirStep == ASSUME IInv, NEW p \in Procs, LookDir(p) PROVE IInv'
<1>1. Knows(p) /\ proc[p].pc \in Looking /\ UNCHANGED disk
  BY DEF IInv, LookDir, Looking, At
<1>2. CASE dir
  BY <1>1, <1>2, GotoStep DEF LookDir, Labels, Looking
<1>3. CASE ~dir
  <2>1. ~Under(p) /\ Found(p, "uninitialized")
    BY <1>1, <1>3 DEF Knows, Holding, LookDir
  <2> QED BY <1>1, <2>1, FoundStep
<1> QED BY <1>2, <1>3

\* The looks at the marker, the database and the guard.
LEMMA LookStep ==
  ASSUME IInv, NEW p \in Procs, LookMarker(p) \/ LookDb(p) \/ LookGuard(p)
  PROVE  IInv'
<1>1. {"db", "guard", "read", "absent"} \subseteq Labels
  BY DEF Labels, Looking
<1>2. CASE LookMarker(p)
  <2>1. Sees(p, "marker", marker # None, "db") /\ At(p, "marker") /\ UNCHANGED disk
    BY <1>2 DEF LookMarker
  <2>2. (marker # None) \in BOOLEAN
    OBVIOUS
  <2> QED BY <1>1, <2>1, <2>2, SeesStep
<1>3. CASE LookDb(p)
  <2>1. Sees(p, "db", db # None, "guard") /\ At(p, "db") /\ UNCHANGED disk
    BY <1>3 DEF LookDb
  <2>2. (db # None) \in BOOLEAN
    OBVIOUS
  <2> QED BY <1>1, <2>1, <2>2, SeesStep
<1>4. CASE LookGuard(p)
  <2> DEFINE l == IF "marker" \in proc[p].seen THEN "read" ELSE "absent"
  <2>1. Sees(p, "guard", guard # None, l) /\ At(p, "guard") /\ UNCHANGED disk
    BY <1>4 DEF LookGuard
  <2>2. (guard # None) \in BOOLEAN /\ l \in Labels
    BY <1>1
  <2> QED BY <2>1, <2>2, SeesStep
<1> QED BY <1>2, <1>3, <1>4

\* Without a marker: where a database was seen there is a marker now, and a
\* second inspection sees it.
LEMMA NoMarkerStep == ASSUME IInv, NEW p \in Procs, NoMarker(p) PROVE IInv'
<1>1. /\ proc \in [Procs -> Call] /\ proc[p] \in Call /\ Knows(p) /\ MarkerFirst
      /\ At(p, "absent") /\ proc[p].pc \in Looking /\ UNCHANGED disk
  BY DEF IInv, Typed, NoMarker, Looking, At
<1>2. "marker" \notin proc[p].seen /\ proc[p].attempt = 0
  BY <1>1 DEF Knows, Looked, At
<1>3. "db" \in proc[p].seen => marker # None
  BY <1>1 DEF Knows, Looked, MarkerFirst
<1>4. Under(p) => marker = None
  BY <1>1, <1>2 DEF Knows, Looked, At
<1>5. CASE proc[p].seen # {} /\ marker # None
  <2> DEFINE c == [proc[p] EXCEPT !.pc = "dir", !.attempt = @ + 1]
  <2>1. c \in Call
    <3>1. "dir" \in Labels /\ proc[p].attempt + 1 \in 0 .. 2
      BY <1>2 DEF Labels, Looking
    <3> QED BY <1>1, <3>1 DEF Call
  <2>2. proc' = [proc EXCEPT ![p] = c] /\ proc'[p] = c
    <3>1. proc[p].attempt < 2
      BY <1>2
    <3>2. proc' = [proc EXCEPT ![p].pc = "dir", ![p].attempt = @ + 1]
      BY <1>5, <3>1 DEF NoMarker
    <3> QED BY <1>1, <3>2
  <2>3. Knows(p)'
    BY <1>1, <1>5, <2>2 DEF Knows, Holding, Looked, Identified, HasId, Under, At, disk, Call
  <2> QED BY <1>1, <2>1, <2>2, <2>3, QuietStep
<1>6. CASE ~(proc[p].seen # {} /\ marker # None)
  <2>1. "db" \notin proc[p].seen
    BY <1>3, <1>6
  <2>2. Found(p, "guard_held") \/ Found(p, "uninitialized")
    BY <1>6, <2>1 DEF NoMarker, WithoutMarker
  <2> QED BY <1>1, <1>4, <2>2, FoundStep
<1> QED BY <1>5, <1>6

\* The marker is read: it is there, and when it is ready so is the database.
LEMMA ReadMarkerStep == ASSUME IInv, NEW p \in Procs, ReadMarker(p) PROVE IInv'
<1>1. /\ proc \in [Procs -> Call] /\ proc[p] \in Call /\ Knows(p) /\ MarkerFirst
      /\ At(p, "read") /\ proc[p].pc \in Looking /\ UNCHANGED disk
      /\ marker \in Marker \cup {None}
  BY DEF IInv, Typed, ReadMarker, Looking, At
<1>2. marker # None
  BY <1>1 DEF Knows, Looked
<1>3. CASE marker.state = "initializing"
  <2>1. Found(p, "interrupted")
    BY <1>2, <1>3 DEF ReadMarker
  <2> QED BY <1>1, <2>1, FoundStep
<1>4. CASE marker.state # "initializing"
  <2> DEFINE l == IF "db" \in proc[p].seen THEN "verify" ELSE "redb"
             c == [proc[p] EXCEPT !.id = marker.id, !.pc = l]
  <2>1. marker.id \in Procs /\ db = marker.id
    BY <1>1, <1>2, <1>4 DEF Marker, MarkerFirst
  <2>2. c \in Call
    BY <1>1, <2>1 DEF Call, Labels, Looking
  <2>3. proc' = [proc EXCEPT ![p] = c] /\ proc'[p] = c
    BY <1>1, <1>2, <1>4 DEF ReadMarker
  <2>4. Knows(p)'
    BY <1>1, <2>1, <2>3 DEF Knows, Holding, Looked, Identified, HasId, Under, At, disk, Call
  <2> QED BY <1>1, <2>2, <2>3, <2>4, QuietStep
<1> QED BY <1>3, <1>4

\* The identity that was read is that of the database.
LEMMA VerifiedReady == ASSUME IInv, NEW p \in Procs, HasId(p) PROVE Verified(p) = "ready"
BY NoneAssumption DEF Verified, HasId

\* The last looks at the database.
LEMMA VerifyStep ==
  ASSUME IInv, NEW p \in Procs, Relook(p) \/ Verify(p)
  PROVE  IInv'
<1>1. Knows(p) /\ HasId(p) /\ UNCHANGED disk /\ proc[p].pc \in Looking
  BY DEF IInv, Relook, Verify, At, Looking, Knows, Identified
<1>2. CASE Relook(p)
  <2>1. Goto(p, "verify") /\ At(p, "redb")
    BY <1>1, <1>2, NoneAssumption DEF Relook, HasId
  <2> QED BY <1>1, <2>1, GotoStep DEF Labels, Looking
<1>3. CASE Verify(p)
  <2>1. Found(p, "ready") /\ At(p, "verify")
    BY <1>1, <1>3, VerifiedReady DEF Verify
  <2>2. Under(p) /\ "ready" \in {"uninitialized", "guard_held"} => marker = None
    OBVIOUS
  <2> QED BY <1>1, <2>1, <2>2, FoundStep
<1> QED BY <1>2, <1>3

-----------------------------------------------------------------------------
(* openCurationStoreWith and initialize.                                   *)

\* A call that ends with an answer and changes no file.
LEMMA DoneStep ==
  ASSUME IInv, NEW p \in Procs, NEW r \in Answers, Done(p, r), UNCHANGED disk,
         r = "ready" => HasId(p) /\ (proc[p].kind = "create" => proc[p].id = p)
  PROVE  IInv'
<1>1. proc \in [Procs -> Call] /\ proc[p] \in Call /\ Knows(p)
  BY DEF IInv, Typed
<1> DEFINE c == [proc[p] EXCEPT !.pc = "done", !.result = r, !.seen = {},
                                !.attempt = 0, !.stage = "first"]
<1>2. c \in Call
  <2>1. "done" \in Labels /\ "first" \in Stages /\ r \in Answers \cup {"none"}
    BY DEF Labels, Stages
  <2>2. {} \in SUBSET {"marker", "db", "guard"} /\ 0 \in 0 .. 2
    OBVIOUS
  <2> QED BY <1>1, <2>1, <2>2 DEF Call
<1>3. proc' = [proc EXCEPT ![p] = c] /\ proc'[p] = c
  BY <1>1 DEF Done
<1>4. r # "none"
  BY DEF Answers
<1>5. Knows(p)'
  BY <1>1, <1>3, <1>4 DEF Knows, Holding, Looked, Identified, HasId, Under, At, disk, Call
<1> QED BY <1>2, <1>3, <1>5, QuietStep

\* The open verifies the identity once more.
LEMMA OpenStep == ASSUME IInv, NEW p \in Procs, OpenReady(p) PROVE IInv'
<1>1. HasId(p) /\ (proc[p].kind = "create" => proc[p].id = p)
  BY DEF IInv, Knows, Identified, OpenReady, At
<1>2. Done(p, "ready") /\ UNCHANGED disk
  BY <1>1, VerifiedReady DEF OpenReady
<1>3. "ready" \in Answers
  BY DEF Answers
<1> QED BY <1>1, <1>2, <1>3, DoneStep

\* A waiter that finds no guard behind an initializing marker gives up.
LEMMA OwnedStep == ASSUME IInv, NEW p \in Procs, LookOwned(p) PROVE IInv'
<1>1. "wait" \in Labels /\ "interrupted" \in Answers /\ "interrupted" # "ready"
  BY DEF Labels, Answers
<1>2. CASE guard # None
  BY <1>1, <1>2, GotoStep DEF LookOwned
<1>3. CASE guard = None
  BY <1>1, <1>3, DoneStep DEF LookOwned
<1> QED BY <1>2, <1>3

\* A call starts, waits and sees its deadline pass.
LEMMA WaitStep ==
  ASSUME IInv, NEW p \in Procs,
         (\E k \in Kinds : Start(p, k)) \/ Wait(p) \/ Deadline(p)
  PROVE  IInv'
<1>1. proc \in [Procs -> Call] /\ proc[p] \in Call /\ Knows(p) /\ UNCHANGED disk
  BY DEF IInv, Typed, Start, Wait, Deadline
<1>2. ASSUME NEW k \in Kinds, Start(p, k) PROVE IInv'
  <2> DEFINE c == [proc[p] EXCEPT !.kind = k, !.pc = "dir"]
  <2>1. c \in Call
    BY <1>1 DEF Call, Labels, Looking
  <2>2. proc' = [proc EXCEPT ![p] = c] /\ proc'[p] = c /\ At(p, "idle")
    BY <1>1, <1>2 DEF Start
  <2>3. Knows(p)'
    BY <1>1, <2>2 DEF Knows, Holding, Looked, Identified, HasId, Under, At, disk, Call
  <2> QED BY <1>1, <2>1, <2>2, <2>3, QuietStep
<1>3. CASE Wait(p)
  <2> DEFINE st == IF proc[p].late THEN "last" ELSE "first"
             c == [proc[p] EXCEPT !.pc = "dir", !.attempt = 0, !.stage = st]
  <2>1. c \in Call
    <3>1. "dir" \in Labels /\ 0 \in 0 .. 2 /\ st \in Stages
      BY DEF Labels, Looking, Stages
    <3> HIDE DEF st
    <3> QED BY <1>1, <3>1 DEF Call
  <2>2. proc' = [proc EXCEPT ![p] = c] /\ proc'[p] = c /\ At(p, "wait")
    BY <1>1, <1>3 DEF Wait
  <2>3. st # "under"
    OBVIOUS
  <2> HIDE DEF st
  <2>4. Knows(p)'
    BY <1>1, <2>2, <2>3 DEF Knows, Holding, Looked, Identified, HasId, Under, At, disk, Call
  <2> QED BY <1>1, <2>1, <2>2, <2>4, QuietStep
<1>4. CASE Deadline(p)
  <2> DEFINE c == [proc[p] EXCEPT !.late = TRUE]
  <2>1. c \in Call
    BY <1>1 DEF Call
  <2>2. proc' = [proc EXCEPT ![p] = c] /\ proc'[p] = c
    BY <1>1, <1>4 DEF Deadline
  <2>3. Knows(p)'
    BY <1>1, <2>2 DEF Knows, Holding, Looked, Identified, HasId, Under, At, disk, Call
  <2> QED BY <1>1, <2>1, <2>2, <2>3, QuietStep
<1> QED BY <1>2, <1>3, <1>4

\* A call that has not begun is a call.
LEMMA IdleCall == Idle \in Call
<1>1. "inspect" \in Kinds /\ "idle" \in Labels /\ "first" \in Stages
  BY DEF Kinds, Labels, Stages
<1>2. {} \in SUBSET {"marker", "db", "guard"} /\ 0 \in 0 .. 2 /\ FALSE \in BOOLEAN
  OBVIOUS
<1> QED BY <1>1, <1>2 DEF Idle, Call

\* A process dies and leaves its files and its guard.
LEMMA CrashStep == ASSUME IInv, NEW p \in Procs, Crash(p) PROVE IInv'
<1> DEFINE c == [Idle EXCEPT !.pc = "dead", !.kind = proc[p].kind]
<1>1. proc \in [Procs -> Call] /\ proc[p] \in Call /\ UNCHANGED disk
  BY DEF IInv, Typed, Crash
<1>2. c \in Call
  <2>1. "dead" \in Labels /\ proc[p].kind \in Kinds
    BY <1>1 DEF Labels, Call
  <2> QED BY <2>1, IdleCall DEF Call
<1>3. /\ c.pc = "dead" /\ c.stage = "first" /\ c.seen = {} /\ c.attempt = 0
      /\ c.result = "none"
  BY DEF Idle
<1>4. proc' = [proc EXCEPT ![p] = c] /\ proc'[p] = c
  BY <1>1 DEF Crash
<1> HIDE DEF c
<1>5. Knows(p)'
  BY <1>3, <1>4 DEF Knows, Holding, Looked, Identified, HasId, Under, At
<1> QED BY <1>1, <1>2, <1>4, <1>5, QuietStep

\* The directory is made.
LEMMA DirStep == ASSUME IInv, NEW p \in Procs, EnsureDir(p) PROVE IInv'
<1>1. proc \in [Procs -> Call] /\ proc[p] \in Call /\ Knows(p) /\ At(p, "mkdir")
      /\ dir' = TRUE /\ UNCHANGED <<marker, db, guard>>
  BY DEF IInv, Typed, EnsureDir
<1> DEFINE c == [proc[p] EXCEPT !.pc = "take"]
<1>2. c \in Call
  BY <1>1 DEF Call, Labels
<1>3. proc' = [proc EXCEPT ![p] = c] /\ proc'[p] = c
  BY <1>1 DEF EnsureDir, Goto
<1>4. Knows(p)'
  BY <1>1, <1>3 DEF Knows, Holding, Looked, Identified, HasId, Under, At, Call
<1>5. Typed' /\ MarkerFirst'
  <2>1. proc' \in [Procs -> Call]
    BY <1>1, <1>2, <1>3
  <2> QED BY <1>1, <2>1 DEF IInv, Typed, MarkerFirst
<1>6. ASSUME NEW q \in Procs, q # p PROVE Knows(q)'
  <2>1. proc'[q] = proc[q]
    BY <1>1, <1>3, <1>6
  <2> QED BY <1>1, <2>1, OtherKnows DEF Grows, Unheld
<1> QED BY <1>4, <1>5, <1>6 DEF IInv

\* The guard is taken only when it is free.
LEMMA TakeStep == ASSUME IInv, NEW p \in Procs, TakeGuard(p) PROVE IInv'
<1>1. proc \in [Procs -> Call] /\ proc[p] \in Call /\ Knows(p) /\ At(p, "take")
  BY DEF IInv, Typed, TakeGuard
<1>2. CASE guard # None
  <2>1. Goto(p, "wait") /\ UNCHANGED disk /\ "wait" \in Labels
    BY <1>2 DEF TakeGuard, disk, Labels
  <2> QED BY <1>1, <1>2, <2>1, GotoStep
<1>3. CASE guard = None
  <2> DEFINE c == [proc[p] EXCEPT !.pc = "dir", !.attempt = 0, !.stage = "under"]
  <2>1. c \in Call
    <3>1. "dir" \in Labels /\ 0 \in 0 .. 2 /\ "under" \in Stages
      BY DEF Labels, Looking, Stages
    <3> QED BY <1>1, <3>1 DEF Call
  <2>2. /\ proc' = [proc EXCEPT ![p] = c] /\ proc'[p] = c
        /\ guard' = p /\ UNCHANGED <<dir, marker, db>>
    BY <1>1, <1>3 DEF TakeGuard, Guarded
  <2>3. Knows(p)'
    BY <1>1, <2>2 DEF Knows, Holding, Looked, Identified, HasId, Under, At, Call
  <2>4. Typed' /\ MarkerFirst' /\ Grows
    <3>1. proc' \in [Procs -> Call]
      BY <1>1, <2>1, <2>2
    <3> QED BY <2>2, <3>1 DEF IInv, Typed, MarkerFirst, Grows
  <2> QED BY <1>3, <2>1, <2>2, <2>3, <2>4, OwnerStep
<1> QED BY <1>2, <1>3

\* The owner writes the marker, the database and the marker again.
LEMMA WriteStep ==
  ASSUME IInv, NEW p \in Procs,
         WriteMarker(p) \/ CreateDb(p) \/ WriteSchema(p) \/ WriteReady(p)
  PROVE  IInv'
<1>1. proc \in [Procs -> Call] /\ proc[p] \in Call /\ Knows(p) /\ MarkerFirst /\ Under(p)
  BY DEF IInv, Typed, WriteMarker, CreateDb, WriteSchema, WriteReady, Knows, Holding, Under, At
<1>2. guard = p /\ dir
  BY <1>1 DEF Knows, Holding
<1>3. /\ marker \in Marker \cup {None} /\ db \in Procs \cup {None, "empty"}
      /\ dir \in BOOLEAN /\ guard \in Procs \cup {None}
  BY DEF IInv, Typed
<1>4. {"mkdb", "schema", "ready", "release"} \subseteq Labels
  BY DEF Labels
<1>5. ASSUME NEW s \in {"initializing", "ready"}
      PROVE  [id |-> p, state |-> s] \in Marker /\ [id |-> p, state |-> s] # None
  BY NoneAssumption DEF Marker
<1>6. CASE WriteMarker(p)
  <2> DEFINE c == [proc[p] EXCEPT !.pc = "mkdb"]
  <2>1. c \in Call
    BY <1>1, <1>4 DEF Call
  <2>2. /\ proc' = [proc EXCEPT ![p] = c] /\ proc'[p] = c
        /\ marker' = [id |-> p, state |-> "initializing"] /\ UNCHANGED <<dir, db, guard>>
        /\ marker = None /\ At(p, "write")
    BY <1>1, <1>6 DEF WriteMarker, Goto, Knows, Holding
  <2>3. marker' # None /\ marker' \in Marker /\ marker'.state # "ready" /\ db = None
    BY <1>1, <1>5, <2>2 DEF MarkerFirst
  <2>4. Knows(p)'
    BY <1>1, <1>2, <2>2, <2>3 DEF Knows, Holding, Looked, Identified, HasId, Under, At, Call
  <2>5. Typed' /\ MarkerFirst' /\ Grows
    <3>1. proc' \in [Procs -> Call]
      BY <1>1, <2>1, <2>2
    <3> QED BY <1>3, <2>2, <2>3, <3>1 DEF Typed, MarkerFirst, Grows
  <2> QED BY <1>1, <2>1, <2>2, <2>4, <2>5, OwnerStep
<1>7. CASE CreateDb(p)
  <2> DEFINE c == [proc[p] EXCEPT !.pc = "schema"]
  <2>1. c \in Call
    BY <1>1, <1>4 DEF Call
  <2>2. /\ proc' = [proc EXCEPT ![p] = c] /\ proc'[p] = c
        /\ db' = "empty" /\ UNCHANGED <<dir, marker, guard>>
        /\ marker = [id |-> p, state |-> "initializing"] /\ db = None /\ At(p, "mkdb")
    BY <1>1, <1>7 DEF CreateDb, Goto, Knows, Holding, At
  <2>3. marker # None /\ marker.state # "ready" /\ "empty" # None
    BY <1>5, <2>2, NoneAssumption
  <2>4. Knows(p)'
    BY <1>1, <1>2, <2>2, <2>3 DEF Knows, Holding, Looked, Identified, HasId, Under, At, Call
  <2>5. Typed' /\ MarkerFirst' /\ Grows
    <3>1. proc' \in [Procs -> Call]
      BY <1>1, <2>1, <2>2
    <3> QED BY <1>3, <2>2, <2>3, <3>1, NoneAssumption DEF Typed, MarkerFirst, Grows
  <2> QED BY <1>1, <2>1, <2>2, <2>4, <2>5, OwnerStep
<1>8. CASE WriteSchema(p)
  <2> DEFINE c == [proc[p] EXCEPT !.pc = "ready"]
  <2>1. c \in Call
    BY <1>1, <1>4 DEF Call
  <2>2. /\ proc' = [proc EXCEPT ![p] = c] /\ proc'[p] = c
        /\ db' = p /\ UNCHANGED <<dir, marker, guard>>
        /\ marker = [id |-> p, state |-> "initializing"] /\ db = "empty" /\ At(p, "schema")
    BY <1>1, <1>8 DEF WriteSchema, Goto, Knows, Holding, At
  <2>3. marker # None /\ marker.state # "ready" /\ p # None
    BY <1>5, <2>2, NoneAssumption
  <2>4. Knows(p)'
    BY <1>1, <1>2, <2>2, <2>3 DEF Knows, Holding, Looked, Identified, HasId, Under, At, Call
  <2>5. Typed' /\ MarkerFirst' /\ Grows
    <3>1. proc' \in [Procs -> Call]
      BY <1>1, <2>1, <2>2
    <3> QED BY <1>3, <2>2, <2>3, <3>1, NoneAssumption DEF Typed, MarkerFirst, Grows
  <2> QED BY <1>1, <2>1, <2>2, <2>4, <2>5, OwnerStep
<1>9. CASE WriteReady(p)
  <2> DEFINE c == [proc[p] EXCEPT !.pc = "release", !.id = p]
  <2>1. c \in Call
    BY <1>1, <1>4 DEF Call
  <2>2. /\ proc' = [proc EXCEPT ![p] = c] /\ proc'[p] = c
        /\ marker' = [id |-> p, state |-> "ready"] /\ UNCHANGED <<dir, db, guard>>
        /\ db = p /\ At(p, "ready")
    BY <1>1, <1>9 DEF WriteReady, Knows, Holding
  <2>3. marker' # None /\ marker' \in Marker /\ marker'.id = p
    BY <1>5, <2>2
  <2>4. Knows(p)'
    BY <1>1, <1>2, <2>2, <2>3 DEF Knows, Holding, Looked, Identified, HasId, Under, At, Call
  <2>5. Typed' /\ MarkerFirst' /\ Grows
    <3>1. proc' \in [Procs -> Call]
      BY <1>1, <2>1, <2>2
    <3> QED BY <1>3, <2>2, <2>3, <3>1 DEF Typed, MarkerFirst, Grows
  <2> QED BY <1>1, <2>1, <2>2, <2>4, <2>5, OwnerStep
<1> QED BY <1>6, <1>7, <1>8, <1>9

\* The owner removes its guard, opens the store or ends.
LEMMA ReleaseStep == ASSUME IInv, NEW p \in Procs, ReleaseGuard(p) PROVE IInv'
<1>1. /\ proc \in [Procs -> Call] /\ proc[p] \in Call /\ Knows(p) /\ Under(p)
      /\ At(p, "release") /\ guard' = None /\ UNCHANGED <<dir, marker, db>>
  BY DEF IInv, Typed, ReleaseGuard, Knows, Holding, Under, At
<1> DEFINE l == IF proc[p].result = "none" THEN "open" ELSE "done"
           c == [proc[p] EXCEPT !.pc = l]
<1>2. c \in Call
  BY <1>1 DEF Call, Labels
<1>3. proc' = [proc EXCEPT ![p] = c] /\ proc'[p] = c
  BY <1>1 DEF ReleaseGuard, Goto
<1>4. Knows(p)'
  BY <1>1, <1>3 DEF Knows, Holding, Looked, Identified, HasId, Under, At, Call
<1>5. Typed' /\ MarkerFirst' /\ Grows
  <2>1. proc' \in [Procs -> Call]
    BY <1>1, <1>2, <1>3
  <2> QED BY <1>1, <2>1 DEF IInv, Typed, MarkerFirst, Grows
<1> QED BY <1>1, <1>2, <1>3, <1>4, <1>5, OwnerStep

-----------------------------------------------------------------------------
(* The invariant.                                                          *)

\* Nothing is there and nobody has begun.
LEMMA InitHolds == ASSUME Init PROVE IInv
<1>1. Typed
  BY IdleCall DEF Init, Typed
<1>2. MarkerFirst
  BY DEF Init, MarkerFirst
<1>3. ASSUME NEW p \in Procs PROVE Knows(p)
  <2>1. /\ proc[p].pc = "idle" /\ proc[p].stage = "first" /\ proc[p].seen = {}
        /\ proc[p].attempt = 0 /\ proc[p].result = "none"
    BY DEF Init, Idle
  <2> QED BY <2>1 DEF Knows, Holding, Looked, Identified, HasId, Under, At
<1> QED BY <1>1, <1>2, <1>3 DEF IInv

\* Every step keeps it.
LEMMA NextKeeps == ASSUME IInv, [Next]_vars PROVE IInv'
<1>1. ASSUME NEW p \in Procs, Inspect(p) PROVE IInv'
  BY <1>1, LookDirStep, LookStep, NoMarkerStep, ReadMarkerStep, VerifyStep DEF Inspect
<1>2. ASSUME NEW p \in Procs, Step(p) PROVE IInv'
  BY <1>1, <1>2, OwnedStep, WaitStep, DirStep, TakeStep, WriteStep, ReleaseStep, OpenStep
  DEF Step
<1>3. CASE UNCHANGED vars
  BY <1>3 DEF vars, IInv, Typed, MarkerFirst, Knows, Holding, Looked, Identified, HasId,
    Under, At
<1> QED BY <1>2, <1>3, WaitStep, CrashStep DEF Next

\* The strengthened invariant holds of every reachable state.
THEOREM Invariance == Spec => []IInv
<1>1. Init => IInv
  BY InitHolds
<1>2. IInv /\ [Next]_vars => IInv'
  BY NextKeeps
<1> QED BY <1>1, <1>2, PTL DEF Spec

\* The files and the calls have the states they can have.
THEOREM Typing == Spec => []TypeOK
<1>1. IInv => TypeOK
  <2> SUFFICES ASSUME IInv PROVE TypeOK
    OBVIOUS
  <2>1. dir \in BOOLEAN /\ db \in Procs \cup {None, "empty"} /\ guard \in Procs \cup {None}
        /\ marker \in [id : Procs, state : {"initializing", "ready"}] \cup {None}
    BY DEF IInv, Typed, Marker
  <2>2. ASSUME NEW p \in Procs
        PROVE  /\ proc[p].kind \in Kinds /\ proc[p].id \in Procs \cup {None}
               /\ proc[p].seen \subseteq {"marker", "db", "guard"} /\ proc[p].attempt \in 0 .. 2
               /\ At(p, "done") =>
                    proc[p].result \in Problems \cup {"ready", "uninitialized", "mismatch"}
    <3>1. proc[p] \in Call /\ Identified(p)
      BY DEF IInv, Typed, Knows
    <3>2. proc[p].kind \in Kinds /\ proc[p].id \in Procs \cup {None}
          /\ proc[p].seen \subseteq {"marker", "db", "guard"} /\ proc[p].attempt \in 0 .. 2
          /\ proc[p].result \in Answers \cup {"none"}
      BY <3>1 DEF Call
    <3>3. At(p, "done") => proc[p].result # "none"
      BY <3>1 DEF Identified
    <3> QED BY <3>2, <3>3 DEF Answers, Problems
  <2> QED BY <2>1, <2>2 DEF TypeOK
<1> QED BY <1>1, Invariance, PTL

\* Only the process that made the guard works under it.
THEOREM GuardIsOwned == Spec => []GuardOwned
<1>1. IInv => GuardOwned
  BY DEF IInv, Knows, Holding, Under, GuardOwned
<1> QED BY <1>1, Invariance, PTL

\* All that are told the store is ready are told the same identity.
THEOREM OneIdentity == Spec => []OneInstallation
<1>1. IInv => OneInstallation
  BY DEF IInv, Knows, Identified, HasId, OneInstallation
<1> QED BY <1>1, Invariance, PTL

\* A create opens the store it made.
THEOREM CreatesItsOwn == Spec => []CreateMakesItsOwn
<1>1. IInv => CreateMakesItsOwn
  BY DEF IInv, Knows, Identified, CreateMakesItsOwn
<1> QED BY <1>1, Invariance, PTL

\* No call takes what a live or a dead initializer left for damage.
THEOREM NoDamage == Spec => []NoDamageSeen
<1>1. IInv => NoDamageSeen
  <2> SUFFICES ASSUME IInv, NEW p \in Procs PROVE proc[p].result \notin Damage
    BY DEF NoDamageSeen, Damage
  <2>1. proc[p].result \in Answers \cup {"none"}
    BY DEF IInv, Typed, Call
  <2> QED BY <2>1 DEF Answers, Damage
<1> QED BY <1>1, Invariance, PTL

\* Only the owner of an unfinished marker finishes it, and no marker goes away.
LEMMA MarkerStep ==
  ASSUME IInv, [Next]_vars, marker # None
  PROVE  /\ marker' # None /\ marker'.id = marker.id
         /\ marker.id \in Dead => marker' = marker
<1>1. ASSUME NEW p \in Procs, WriteMarker(p) PROVE FALSE
  BY <1>1 DEF WriteMarker, IInv, Knows, Holding
<1>2. ASSUME NEW p \in Procs, WriteReady(p)
      PROVE  /\ marker' # None /\ marker'.id = marker.id
             /\ marker.id \in Dead => marker' = marker
  <2>1. marker = [id |-> p, state |-> "initializing"] /\ proc[p].pc = "ready"
    BY <1>2 DEF WriteReady, IInv, Knows, Holding, At
  <2>2. marker' = [id |-> p, state |-> "ready"]
    BY <1>2 DEF WriteReady
  <2>3. [id |-> p, state |-> "ready"] # None
    BY NoneAssumption
  <2>4. p \notin Dead
    BY <2>1 DEF Dead, At
  <2> QED BY <2>1, <2>2, <2>3, <2>4
<1>3. ASSUME marker' = marker
      PROVE  /\ marker' # None /\ marker'.id = marker.id
             /\ marker.id \in Dead => marker' = marker
  BY <1>3
<1> QED BY <1>1, <1>2, <1>3
  DEF Next, Step, Inspect, Start, Deadline, Crash, LookDir, LookMarker, LookDb, LookGuard,
    NoMarker, ReadMarker, Relook, Verify, LookOwned, Wait, EnsureDir, TakeGuard, CreateDb,
    WriteSchema, ReleaseGuard, OpenReady, disk, vars

\* An identity once written stays, and what a dead initializer left unfinished
\* nobody finishes.
THEOREM IdentityKept == Spec => IdentityStays
<1>1. IInv /\ [Next]_vars =>
        [marker # None => /\ marker' # None /\ marker'.id = marker.id
                          /\ marker.id \in Dead => marker' = marker]_vars
  BY MarkerStep
<1> QED BY <1>1, Invariance, PTL DEF Spec, IdentityStays
=============================================================================
