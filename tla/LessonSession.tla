--------------------------- MODULE LessonSession ---------------------------
(***************************************************************************)
(* One curated-lessons pane of the web console                             *)
(* (apps/web/src/lib/curated-session.ts) around the editor of module       *)
(* LessonEditor, the host that executes its requests                       *)
(* (packages/ops/src/handlers/lessons.ts) and the stores they reach.       *)
(*                                                                         *)
(* A request may be executed late, after the pane gave up on it, or never; *)
(* an answer may be lost; the store at the location may be moved away, and *)
(* another one put there; other clients change records; the page may be    *)
(* reloaded at any time.  A read that a newer one, a changed context or a  *)
(* new controller supersedes has no effect when it answers: the model      *)
(* forgets it when it is superseded.  What a prompt asks is answered at    *)
(* once: an action that needs consent is taken when it is given.           *)
(***************************************************************************)
EXTENDS LessonEditor, Sequences

CONSTANTS
  MaxCalls,   \* bound: sends of all requests
  Scenarios   \* how a run may begin, and its bounds: see Init

VARIABLES
  ed,        \* the controller's state
  obs,       \* its observation of the store: None or [inst]
  calls,     \* sends: [1..n -> attempt, open in the client?, at the host, answer]
  pinned,    \* installation this pane browses
  block,     \* None, or why it may not browse: [expected, current]
  held,      \* #pendingCloseExpected
  seen,      \* view.store: None or [inst]
  hello,     \* the handshake under way
  read,      \* the newest detail read under way
  lookup,    \* the newest receipt lookup under way
  route,     \* the record link being looked up
  here,      \* the installation at the location; None: no store
  made,      \* the installations created so far
  record,    \* per installation and key: the wordings by revision, purged?
  decided,   \* per installation and request: what the store decided
  asked,     \* per request: what was submitted; None when the id is unused
  told,      \* per request: the definite outcome the pane acted on
  left       \* what is left of the bounds: requests submitted, changes by other
             \* clients (rivals), times the store at the location is replaced
             \* (moves), records opened, page reloads, links followed; and the
             \* most reads under way at once and the last editor generation

pane == <<ed, obs, pinned, block, held, seen, hello, read, lookup, route>>
store == <<here, made, record, decided>>
vars == <<ed, obs, calls, pinned, block, held, seen, hello, read, lookup, route,
          here, made, record, decided, asked, told, left>>

-----------------------------------------------------------------------------
(* What the state is made of *)

Known == Installs \cup {None}
Targets == [bind : Installs \cup {Loc}, inst : Known, key : Keys]
Versions == [revision : Nat, text : Texts \cup {Blank}]
Mutations == [kind : {"capture", "edit", "important", "purge"}, text : Texts \cup {None}, revision : Nat]
Pendings == [id : Requests, target : Targets, generation : Nat, mutation : Mutations \cup {None}]
Navigations == [type : {"capture", "lesson", "close"}, target : Targets \cup {None}]
Observations == [inst : Known]
Attempts == [id : Requests, target : Targets, generation : Nat, pre : Known, origin : Known,
             afterUnknown : BOOLEAN]
Codes == {"INSTALLATION_MISMATCH", "PURGED", "CAPTURE_EXISTS", "CURATION_CONFLICT", "STORAGE_BUSY"}
Answers == [state : {"refused"}, code : Codes]
             \cup [state : {"committed", "purged"}, revision : Nat, inst : Installs]
Sends == [a : Attempts, open : BOOLEAN, host : {"waiting", "done"}, answer : Answers \cup {None}]
Views == [revision : Nat, text : Texts, purged : BOOLEAN]
Hellos == [inst : Known, answered : BOOLEAN, offered : Known, detail : BOOLEAN]
Reads == [generation : Nat, target : Targets, bind : Installs \cup {Loc}, answered : BOOLEAN,
          inst : Known, view : Views \cup {None}]
Lookups == [id : Requests, generation : Nat, target : Targets, bind : Installs \cup {Loc},
            answered : BOOLEAN, inst : Known, state : {"unknown", "committed", "purged"}, revision : Nat]
Blocks == [expected : Known, current : Known]
Routes == [key : Keys, bind : Installs]
Records == [log : Seq(Texts), purged : BOOLEAN]
Decisions == [state : {"none", "committed", "purged"}, revision : Nat]
Submissions == [key : Keys, change : Mutations, origin : Known]
Limits == [requests : Nat, rivals : Nat, moves : Nat, opens : Nat, reloads : Nat, links : Nat,
           generation : Nat, inFlight : Nat]

Absent == [log |-> <<>>, purged |-> FALSE]
Unused == [state |-> "none", revision |-> 0]

\* None is no value of the types it stands for the absence of, and a full list
\* of purged records has an entry.
ASSUME SessionAssumption ==
  /\ {MaxUnresolved, MaxTombstones} \subseteq Nat
  /\ Loc \notin Installs \cup {None}
  /\ None \notin Installs /\ None \notin Keys /\ None \notin Texts \cup {Blank}
  /\ None \notin {"capture", "existing", "refused", "committed", "purged"}
  /\ None \notin Targets \cup Versions \cup Mutations \cup Pendings \cup Navigations
  /\ None \notin Observations \cup Answers \cup Views \cup Hellos \cup Reads \cup Lookups
  /\ None \notin Routes \cup Submissions \cup Blocks \cup [id : Requests, target : Targets]
  /\ \A s \in Scenarios :
       /\ s.installs \subseteq Installs /\ s.left \in Limits
       /\ s.full \in BOOLEAN /\ (s.full => MaxTombstones > 0)

Spend(what) == left[what] > 0 /\ left' = [left EXCEPT ![what] = @ - 1]

Hello(offered, detail) == [inst |-> None, answered |-> FALSE, offered |-> offered, detail |-> detail]

\* A record that was purged before the run, and is none of its Keys.
PurgedBefore == Target(Loc, None)

\* The pane has mounted and its first handshake is under way. At the location
\* there is one of the scenario's installations, or no store yet when it has
\* none; the pane's list of purged records is empty or full.
Init ==
  \E s \in Scenarios :
    /\ ed = [Disconnected(initialLessonEditor) EXCEPT
              !.tombstones = IF s.full THEN {PurgedBefore} ELSE {}]
    /\ obs = None /\ calls = <<>>
    /\ pinned = None /\ block = None /\ held = None /\ seen = None
    /\ hello = Hello(None, FALSE) /\ read = None /\ lookup = None /\ route = None
    /\ made = s.installs
    /\ IF made = {} THEN here = None ELSE here \in made
    /\ \E k \in Keys, text \in [made -> Texts] :
         record = [i \in Installs |-> [q \in Keys |->
                     IF i \in made /\ q = k THEN [log |-> <<text[i]>>, purged |-> FALSE]
                     ELSE Absent]]
    /\ decided = [i \in Installs |-> [r \in Requests |-> Unused]]
    /\ asked = [r \in Requests |-> None]
    /\ told = [r \in Requests |-> None]
    /\ left = s.left

-----------------------------------------------------------------------------
(* The pane's context *)

Tracked(s) == {u.id : u \in s.unresolved} \cup (IF s.pending = None THEN {} ELSE {s.pending.id})
IsOpen(n) == calls[n].open
sending == \E n \in DOMAIN calls : IsOpen(n) /\ ed.pending # None /\ calls[n].a.id = ed.pending.id
needsPrompt == isLessonEditorDirty(ed) \/ (ed.gate = "mismatch" /\ ed.pending # None)

\* A request whose id the editor drops was settled: by what it was told, or
\* because its record is purged.
Settle(s, outcome) ==
  told' = [r \in Requests |->
    IF r \notin Tracked(ed) \ Tracked(s) THEN told[r]
    ELSE IF ed.pending # None /\ r = ed.pending.id /\ s.phase = "purged" THEN "purged"
    ELSE outcome]

\* A new context: what was asked before it is dropped when it answers.
NewContext == read' = None /\ lookup' = None /\ route' = None
SameContext == UNCHANGED <<read, lookup, route>>

Binding ==
  IF block # None THEN None
  ELSE IF pinned # None THEN pinned
  ELSE IF seen = [inst |-> None] THEN Loc ELSE None

\* #recordReadBinding
ReadBinding(s, t) ==
  IF installationOf(t) # None THEN installationOf(t)
  ELSE IF s.expected # None THEN s.expected ELSE t.bind

\* loadDetail: a read of the editor's record, from the state s it leaves.
Fetch(s) ==
  IF s.target = None \/ s.phase = "purged" THEN None
  ELSE [generation |-> s.generation, target |-> s.target, bind |-> ReadBinding(s, s.target),
        answered |-> FALSE, inst |-> None, view |-> None]
Detail(s) == IF block # None THEN None ELSE Fetch(s)

\* connect: every open attempt is reported unknown before the epoch changes.
ReportUnknown(s) ==
  LET open == {n \in DOMAIN calls : IsOpen(n)} IN
  IF \E n \in open : ForPending(s, calls[n].a.id, calls[n].a.generation, calls[n].a.target)
  THEN markUnknown(s) ELSE s
Connected(s) == Disconnected(ReportUnknown(s))
Hung == [n \in DOMAIN calls |-> [calls[n] EXCEPT !.open = FALSE]]

\* #blockFor: what the pane holds against the store reported now.
BlockFor(current, pin) ==
  LET expected == IF ed.target # None THEN ed.expected ELSE held
      unproven == ed.pending # None /\ installationOf(ed.pending.target) = None
  IN IF expected # None THEN IF current # expected THEN [expected |-> expected, current |-> current] ELSE None
     ELSE IF unproven /\ current # None THEN [expected |-> None, current |-> current]
     ELSE IF pin # None /\ current # pin THEN [expected |-> pin, current |-> current]
     ELSE None

\* #revokeForIdentity: the host refused the installation this pane holds.
RevokeForIdentity ==
  /\ ed' = Connected(ed) /\ calls' = Hung /\ obs' = None /\ seen' = None
  /\ block' = [expected |-> IF pinned # None THEN pinned
                            ELSE IF ed.expected # None THEN ed.expected ELSE held,
               current |-> None]
  /\ hello' = None /\ NewContext
  /\ UNCHANGED <<pinned, held, store, asked, told, left>>

-----------------------------------------------------------------------------
(* The handshake: what store is at the location now *)

HandshakeAnswered ==
  /\ hello # None /\ ~hello.answered
  /\ hello' = [hello EXCEPT !.answered = TRUE, !.inst = here]
  /\ UNCHANGED <<ed, obs, calls, pinned, block, held, seen, store, asked, told, left>>
  /\ SameContext

\* The store was replaced between the status and the read of the projects.
HandshakeMismatch ==
  /\ hello # None /\ ~hello.answered
  /\ made \ {here} # {}
  /\ RevokeForIdentity

HandshakeDone ==
  LET current == hello.inst
      expected == IF ed.target # None THEN ed.expected ELSE held
      accepting == hello.offered # None /\ ed.target = None /\ current = hello.offered
      pin == IF accepting THEN hello.offered ELSE pinned
      blocked == BlockFor(current, pin)
      revoked == IF blocked # None THEN Connected(ed) ELSE ed
      next == observeStore(revoked, [inst |-> current])
      same == /\ seen = [inst |-> current] /\ pinned' = pinned /\ block' = block
              /\ next.gate = ed.gate /\ next.generation = ed.generation
      refreshed == hello.detail /\ blocked = None
                   /\ (next.mode = "existing" \/ next.pending # None)
  IN
  /\ hello # None /\ hello.answered
  /\ ed' = next /\ obs' = [inst |-> current] /\ seen' = [inst |-> current]
  /\ Settle(next, None)
  /\ calls' = IF blocked # None THEN Hung ELSE calls
  /\ block' = blocked
  /\ pinned' = IF blocked # None THEN pin
               ELSE IF pin = None THEN IF expected # None THEN expected ELSE current
               ELSE IF expected # None THEN expected ELSE pin
  /\ held' = IF blocked = None THEN None ELSE held
  /\ hello' = None
  /\ read' = IF refreshed THEN Fetch(next) ELSE IF same /\ blocked = None THEN read ELSE None
  /\ IF same /\ blocked = None THEN UNCHANGED <<lookup, route>> ELSE lookup' = None /\ route' = None
  /\ UNCHANGED <<store, asked, left>>

\* refresh
Refresh ==
  /\ ~sending /\ hello = None
  /\ hello' = Hello(None, TRUE)
  /\ UNCHANGED <<ed, obs, calls, pinned, block, held, seen, store, asked, told, left>>
  /\ SameContext

-----------------------------------------------------------------------------
(* Setting the open record aside *)

\* Mutant: the new controller starts empty.
ClosedByAnew(discarding) ==
  LET closing == Navigated(ed, Close, obs) IN
  IF ed.target = None THEN ed
  ELSE IF ed.gate = "mismatch"
  THEN IF ~discarding /\ isLessonEditorDirty(ed) THEN ed
       ELSE navigate(Disconnected(initialLessonEditor), Close)
  ELSE IF discarding /\ closing.target # None THEN Discarded(closing, obs) ELSE closing

\* #closeTarget: after a mismatch a new controller takes the ids over.
ClosedBy(discarding) ==
  LET snapshot == snapshotLessonEditor(ed)
      candidate == hydrate(Disconnected(initialLessonEditor), snapshot)
      closing == Navigated(ed, Close, obs)
  IN IF ed.target = None THEN ed
     ELSE IF ed.gate = "mismatch"
     THEN IF (~discarding /\ isLessonEditorDirty(ed)) \/ ~Hydratable(snapshot) THEN ed
          ELSE requestNavigation(candidate, Close)
     ELSE IF discarding /\ closing.target # None THEN Discarded(closing, obs) ELSE closing

\* The controller's open attempts end with it.
CallsAfterClose == IF ed.gate = "mismatch" THEN Hung ELSE calls
HeldAfterClose ==
  IF ed.target # None /\ seen = None
  THEN IF ed.expected # None THEN ed.expected ELSE installationOf(ed.target)
  ELSE held

\* closeEditor, guardLeave: after the prompt when there is wording to lose.
CloseEditor ==
  LET next == ClosedBy(needsPrompt) IN
  /\ ed.target # None
  /\ ed' = next
  /\ IF next.target = None
     THEN /\ calls' = CallsAfterClose
          /\ held' = HeldAfterClose
          /\ hello' = IF seen = None \/ ed.gate = "mismatch" THEN Hello(None, FALSE) ELSE hello
          /\ NewContext
     ELSE UNCHANGED <<calls, held, hello>> /\ SameContext
  /\ UNCHANGED <<obs, pinned, block, seen, store, asked, told, left>>

\* browseCurrentInstead: leave the held identity for the store reported now.
BrowseCurrentInstead ==
  LET next == ClosedBy(needsPrompt) IN
  /\ block # None /\ block.current # None
  /\ next.target = None
  /\ ed' = next /\ calls' = IF ed.target = None THEN calls ELSE CallsAfterClose
  /\ held' = None
  /\ hello' = Hello(block.current, FALSE)
  /\ NewContext
  /\ UNCHANGED <<obs, pinned, block, seen, store, asked, told, left>>

\* #open: the record is read as soon as the controller shows it.
Opening(nav, base) ==
  LET next == Navigated(base, nav, obs) IN
  /\ ed' = next
  /\ IF next.target # None /\ next.target.key = nav.target.key
     THEN read' = (IF nav.type = "lesson" THEN Detail(next) ELSE None) /\ lookup' = None /\ route' = None
     ELSE SameContext
  /\ UNCHANGED <<obs, pinned, block, held, seen, hello, store, asked, told>>

\* The record the editor is in when a change that was asked for is made.
Released == IF needsPrompt THEN ClosedBy(TRUE) ELSE ed

Listed(k) == Binding \in made /\ record[Binding][k].log # <<>>
Taken(k) == \/ \E i \in Installs : record[i][k].log # <<>>
            \/ \E r \in Requests : asked[r] # None /\ asked[r].key = k
            \/ ed.target # None /\ ed.target.key = k

\* openLesson, openExisting
OpenLesson(k) ==
  /\ Listed(k) /\ Spend("opens")
  /\ needsPrompt => Released.target = None
  /\ calls' = IF needsPrompt THEN CallsAfterClose ELSE calls
  /\ Opening([type |-> "lesson", target |-> Target(Binding, k)], Released)

\* startCapture: the record id is new.
StartCapture(k) ==
  /\ Binding # None /\ ~Taken(k) /\ Spend("opens")
  /\ needsPrompt => Released.target = None
  /\ calls' = IF needsPrompt THEN CallsAfterClose ELSE calls
  /\ Opening([type |-> "capture", target |-> Target(Binding, k)], Released)

\* openRoute: a link to a record of the pinned installation is followed.
FollowLink(k) ==
  /\ pinned # None /\ block = None
  /\ Spend("links")
  /\ needsPrompt => Released.target = None
  /\ ed' = Released /\ calls' = IF needsPrompt THEN CallsAfterClose ELSE calls
  /\ read' = None /\ lookup' = None /\ route' = [key |-> k, bind |-> pinned]
  /\ hello' = None
  /\ UNCHANGED <<obs, pinned, block, held, seen, store, asked, told>>

\* ... located, and opened whatever was typed since.
LinkLocated ==
  /\ route # None /\ here = route.bind
  /\ record[here][route.key].log # <<>>
  /\ Binding # None
  /\ calls' = calls /\ left' = left
  /\ LET next == Navigated(ed, [type |-> "lesson", target |-> Target(Binding, route.key)], obs) IN
     /\ ed' = next
     /\ read' = IF next.target # None /\ next.target.key = route.key THEN Detail(next) ELSE read
     /\ lookup' = IF next.target # None /\ next.target.key = route.key THEN None ELSE lookup
     /\ route' = None
     /\ UNCHANGED <<obs, pinned, block, held, seen, hello, store, asked, told>>

LinkRefused ==
  /\ route # None /\ here # route.bind
  /\ RevokeForIdentity

-----------------------------------------------------------------------------
(* Reads of the open record *)

View(i, k) ==
  IF i = None THEN None
  ELSE IF record[i][k].log = <<>> THEN None
  ELSE [revision |-> Len(record[i][k].log), text |-> record[i][k].log[Len(record[i][k].log)],
        purged |-> record[i][k].purged]

DetailAnswered ==
  /\ read # None /\ ~read.answered
  /\ read.bind \in {Loc, here}
  /\ read' = [read EXCEPT !.answered = TRUE, !.inst = here, !.view = View(here, read.target.key)]
  /\ UNCHANGED <<ed, obs, calls, pinned, block, held, seen, hello, lookup, route, store, asked, told, left>>

DetailRefused ==
  /\ read # None /\ ~read.answered
  /\ read.bind \notin {Loc, here}
  /\ RevokeForIdentity

\* A location that has got a store since is not shown from ("STORE_CHANGED").
DetailDone ==
  /\ read # None /\ read.answered
  /\ read' = None
  /\ ed' = IF read.bind = Loc /\ pinned = None /\ read.inst # None THEN ed ELSE Answered(ed, read, obs)
  /\ Settle(ed', None)
  /\ UNCHANGED <<obs, calls, pinned, block, held, seen, hello, lookup, route, store, asked, left>>

\* A read that fails says nothing; the handshake, too.
ReadFails ==
  /\ \/ hello' = None /\ SameContext
     \/ read' = None /\ UNCHANGED <<hello, lookup, route>>
     \/ lookup' = None /\ UNCHANGED <<hello, read, route>>
     \/ route' = None /\ UNCHANGED <<hello, read, lookup>>
  /\ <<hello, read, lookup, route>>' # <<hello, read, lookup, route>>
  /\ UNCHANGED <<ed, obs, calls, pinned, block, held, seen, store, asked, told, left>>

-----------------------------------------------------------------------------
(* Writes *)

\* #send: the attempt is recorded and the request is on its way.
Sent(s) ==
  IF /\ CanPrepare(s, obs) /\ Len(calls) < MaxCalls
     /\ ~\E n \in DOMAIN calls : IsOpen(n) /\ calls[n].a.id = s.pending.id
  THEN calls' = Append(calls, [a |-> beginAttempt(s), open |-> TRUE, host |-> "waiting",
                               answer |-> None])
  ELSE calls' = calls

Submit(r, intent) ==
  /\ block = None /\ asked[r] = None
  /\ Writable(ed, obs) /\ CanSubmit(ed, r, intent)
  /\ Len(calls) < MaxCalls /\ Spend("requests")
  /\ ed' = submit(ed, r, intent)
  /\ asked' = [asked EXCEPT ![r] =
       [key |-> ed.target.key, change |-> buildChange(ed, intent), origin |-> ed.expected]]
  /\ Sent(ed')
  /\ UNCHANGED <<obs, pinned, block, held, seen, hello, store, told>> /\ SameContext

Retry ==
  /\ ed.pending # None /\ CanPrepare(ed, obs) /\ ~sending
  /\ Len(calls) < MaxCalls
  /\ Sent(ed)
  /\ UNCHANGED <<pane, store, asked, told, left>>

\* #afterOutcome: a conflict and a commit are followed by a read of the record.
AfterOutcome(s, r) ==
  /\ hello' = IF r # None /\ s.pending = None /\ s.phase # "purged" /\ (seen = None \/ seen = [inst |-> None])
              THEN Hello(None, TRUE) ELSE hello
  /\ read' = IF s.phase = "conflict" \/ (r # None /\ s.pending = None /\ hello' = hello)
             THEN Detail(s) ELSE read
  /\ UNCHANGED <<lookup, route>>

Finish(n, next, r) ==
  /\ ed' = next
  /\ calls' = [calls EXCEPT ![n].open = FALSE, ![n].answer = None]
  /\ AfterOutcome(next, r)
  /\ UNCHANGED <<obs, pinned, block, held, seen, store, asked, left>>

\* The response names the executing store and its receipt.
Succeeded(n) ==
  /\ IsOpen(n) /\ calls[n].answer # None /\ calls[n].answer.state # "refused"
  /\ LET r == calls[n].answer
         next == finishSuccess(ed, calls[n].a, r, r.inst, obs)
     IN Finish(n, next, IF r.state = "committed" THEN r ELSE None) /\ Settle(next, r.state)

Refusal(n) ==
  /\ IsOpen(n) /\ calls[n].answer # None /\ calls[n].answer.state = "refused"
  /\ LET next == attemptOutcome(ed, calls[n].a, calls[n].answer.code)
     IN Finish(n, next, None) /\ Settle(next, "refused")

\* The timeout fires, the connection breaks, or the host cannot prove the outcome.
GivenUp(n) ==
  /\ IsOpen(n)
  /\ LET next == attemptOutcome(ed, calls[n].a, "unknown")
     IN Finish(n, next, None) /\ Settle(next, None)

\* checkOutcome: ask the request's store what became of it.
CheckOutcome ==
  LET p == ed.pending IN
  /\ p # None /\ lookup = None
  /\ lookup' = [id |-> p.id, generation |-> p.generation, target |-> p.target,
                bind |-> IF installationOf(p.target) # None THEN installationOf(p.target) ELSE p.target.bind,
                answered |-> FALSE, inst |-> None, state |-> "unknown", revision |-> 0]
  /\ UNCHANGED <<ed, obs, calls, pinned, block, held, seen, hello, read, route, store, asked, told, left>>

OutcomeAnswered ==
  /\ lookup # None /\ ~lookup.answered
  /\ lookup.bind \in {Loc, here}
  /\ lookup' = IF here = None THEN [lookup EXCEPT !.answered = TRUE]
               ELSE LET d == decided[here][lookup.id] IN
                    [lookup EXCEPT !.answered = TRUE, !.inst = here, !.revision = d.revision,
                                   !.state = IF d.state = "none" THEN "unknown" ELSE d.state]
  /\ UNCHANGED <<ed, obs, calls, pinned, block, held, seen, hello, read, route, store, asked, told, left>>

OutcomeRefused ==
  /\ lookup # None /\ ~lookup.answered
  /\ lookup.bind \notin {Loc, here}
  /\ RevokeForIdentity

OutcomeDone ==
  LET next == Receipted(ed, lookup, lookup, lookup.inst, obs) IN
  /\ lookup # None /\ lookup.answered
  /\ lookup' = None
  /\ IF ed.pending # None /\ ed.pending.id = lookup.id
     THEN /\ ed' = next /\ Settle(next, lookup.state)
          /\ hello' = IF lookup.state # "unknown" /\ (next.pending = None \/ block # None)
                      THEN Hello(None, lookup.state = "committed") ELSE hello
     ELSE UNCHANGED <<ed, told, hello>>
  /\ UNCHANGED <<obs, calls, pinned, block, held, seen, read, route, store, asked, left>>

-----------------------------------------------------------------------------
(* Drafting *)

EditText(t) ==
  /\ ed.draft # None /\ t # ed.draft
  /\ Writable(ed, obs)
  /\ ed' = editText(ed, t)
  /\ UNCHANGED <<obs, calls, pinned, block, held, seen, hello, store, asked, told, left>> /\ SameContext

\* cancelEdit: an uncommitted capture is closed instead.
CancelEdit ==
  /\ ~(ed.mode = "capture" /\ ed.pending = None)
  /\ ed' = Discarded(ed, obs)
  /\ UNCHANGED <<obs, calls, pinned, block, held, seen, hello, store, asked, told, left>> /\ SameContext

Rebase ==
  /\ Writable(ed, obs) /\ CanRebase(ed)
  /\ ed' = rebase(ed)
  /\ UNCHANGED <<obs, calls, pinned, block, held, seen, hello, store, asked, told, left>> /\ SameContext

\* mount, after the page is reloaded: only the snapshot survives.
Reload ==
  LET snapshot == snapshotLessonEditor(ed)
      fresh == Disconnected(initialLessonEditor)
      next == IF Hydratable(snapshot) THEN hydrate(fresh, snapshot) ELSE fresh
  IN
  /\ Spend("reloads")
  /\ ed' = next /\ obs' = None
  /\ calls' = Hung
  /\ pinned' = None /\ block' = None /\ held' = None /\ seen' = None
  /\ hello' = Hello(None, TRUE) /\ NewContext
  /\ UNCHANGED <<store, asked, told>>

-----------------------------------------------------------------------------
(* The host and its stores *)

\* What the store answers to request r with the change m to record k.
Decision(i, r, k, m) ==
  LET rec == record[i][k]
      rev == Len(rec.log)
  IN CASE decided[i][r].state # "none" -> decided[i][r]
       [] decided[i][r].state = "none" /\ rec.purged ->
            IF m.kind = "purge" THEN [state |-> "purged", revision |-> rev]
            ELSE [state |-> "refused", code |-> "PURGED"]
       [] decided[i][r].state = "none" /\ ~rec.purged /\ rev # m.revision ->
            [state |-> "refused",
             code |-> IF m.kind = "capture" THEN "CAPTURE_EXISTS" ELSE "CURATION_CONFLICT"]
       [] OTHER -> [state |-> IF m.kind = "purge" THEN "purged" ELSE "committed",
                    revision |-> IF m.kind = "edit" /\ m.text = rec.log[rev] THEN rev ELSE rev + 1]

\* The decision is written; a purge withdraws every receipt of the record.
Write(i, r, k, m, d) ==
  LET rec == record[i][k]
      text == IF m.kind \in {"capture", "edit"} THEN m.text ELSE rec.log[Len(rec.log)]
      purges == d.state = "purged"
  IN /\ record' = [record EXCEPT ![i][k] =
          [log |-> IF d.revision > Len(rec.log) THEN Append(rec.log, text) ELSE rec.log,
           purged |-> purges]]
     /\ decided' = [decided EXCEPT ![i] = [q \in Requests |->
          IF q = r THEN d
          ELSE IF purges /\ decided[i][q].state # "none" /\ asked[q].key = k
               THEN [decided[i][q] EXCEPT !.state = "purged"] ELSE decided[i][q]]]

Answer(n, x) ==
  calls' = [calls EXCEPT ![n].host = "done",
                         ![n].answer = IF IsOpen(n) THEN x ELSE None]

\* executeCurationMutation on the store at the location, created there when
\* the request says there is none; a busy store refuses before it writes.
Execute(n) ==
  LET a == calls[n].a
      m == asked[a.id].change
      k == asked[a.id].key
  IN
  /\ calls[n].host = "waiting"
  /\ \/ /\ a.pre # here
        /\ Answer(n, [state |-> "refused", code |-> "INSTALLATION_MISMATCH"])
        /\ UNCHANGED store
     \/ /\ a.pre = here /\ here # None
        /\ LET d == Decision(here, a.id, k, m) IN
           IF d.state = "refused" THEN Answer(n, d) /\ UNCHANGED store
           ELSE /\ Answer(n, [state |-> d.state, revision |-> d.revision, inst |-> here])
                /\ Write(here, a.id, k, m, d) /\ UNCHANGED <<here, made>>
     \/ /\ a.pre = None /\ here = None
        /\ \E i \in Installs \ made :
             LET d == Decision(i, a.id, k, m) IN
             /\ here' = i /\ made' = made \cup {i}
             /\ Answer(n, [state |-> d.state, revision |-> d.revision, inst |-> i])
             /\ Write(i, a.id, k, m, d)
     \/ /\ Answer(n, [state |-> "refused", code |-> "STORAGE_BUSY"])
        /\ UNCHANGED store
  /\ UNCHANGED <<pane, asked, told, left>>

\* Another client saves over a record, purges it, or creates the store.
Rival ==
  /\ Spend("rivals")
  /\ \/ \E k \in Keys : /\ here # None
                        /\ record[here][k].log # <<>> /\ ~record[here][k].purged
                        /\ \/ \E t \in Texts : record' = [record EXCEPT ![here][k].log = Append(@, t)] /\ decided' = decided
                           \/ /\ record' = [record EXCEPT ![here][k] = [log |-> Append(@.log, @.log[Len(@.log)]), purged |-> TRUE]]
                              /\ decided' = [decided EXCEPT ![here] = [q \in Requests |->
                                   IF decided[here][q].state # "none" /\ asked[q].key = k
                                   THEN [decided[here][q] EXCEPT !.state = "purged"] ELSE decided[here][q]]]
                        /\ UNCHANGED <<here, made>>
     \/ /\ here = None
        /\ \E i \in Installs \ made : here' = i /\ made' = made \cup {i}
        /\ UNCHANGED <<record, decided>>
  /\ UNCHANGED <<pane, calls, asked, told>>

\* The directory at the location is moved away, or another one is put there.
Move ==
  /\ Spend("moves")
  /\ \E i \in (made \cup {None}) \ {here} : here' = i
  /\ UNCHANGED <<pane, calls, made, record, decided, asked, told>>

-----------------------------------------------------------------------------
InFlight ==
  Cardinality({x \in {"hello", "read", "lookup", "route"} :
    [hello |-> hello, read |-> read, lookup |-> lookup, route |-> route][x] # None})

Next ==
  /\ \/ HandshakeAnswered \/ HandshakeMismatch \/ HandshakeDone \/ Refresh
     \/ CloseEditor \/ BrowseCurrentInstead
     \/ \E k \in Keys : OpenLesson(k) \/ StartCapture(k) \/ FollowLink(k)
     \/ LinkLocated \/ LinkRefused
     \/ DetailAnswered \/ DetailRefused \/ DetailDone \/ ReadFails
     \/ \E r \in Requests, intent \in {"save", "important", "purge"} : Submit(r, intent)
     \/ Retry
     \/ \E n \in DOMAIN calls : Succeeded(n) \/ Refusal(n) \/ GivenUp(n) \/ Execute(n)
     \/ CheckOutcome \/ OutcomeAnswered \/ OutcomeRefused \/ OutcomeDone
     \/ \E t \in Texts : EditText(t)
     \/ CancelEdit \/ Rebase \/ Reload \/ Rival \/ Move
  /\ ed'.generation <= left.generation
  /\ InFlight' <= left.inFlight

-----------------------------------------------------------------------------
\* A lesson editor's state.
Editors ==
  [generation : Nat, gate : {"unverified", "reading", "ready", "mismatch"},
   needsFreshDetail : BOOLEAN, expected : Known, address : Known \cup {Loc},
   target : Targets \cup {None}, mode : {"capture", "existing", None},
   loaded : Versions \cup {None}, base : Versions \cup {None}, draft : Texts \cup {Blank, None},
   pending : Pendings \cup {None}, unresolved : SUBSET [id : Requests, target : Targets],
   tombstones : SUBSET (Targets \cup {PurgedBefore}), tombstonesSaturated : BOOLEAN,
   blocked : Navigations \cup {None},
   phase : {"idle", "editing", "saving", "saved", "conflict", "unknown", "purged", "error"}]

\* Every variable has the type the code gives it; the store at the location
\* is one that was created.
TypeOK ==
  /\ ed \in Editors /\ obs \in Observations \cup {None}
  /\ calls \in Seq(Sends)
  /\ pinned \in Known /\ block \in Blocks \cup {None} /\ held \in Known
  /\ seen \in Observations \cup {None} /\ hello \in Hellos \cup {None}
  /\ read \in Reads \cup {None} /\ lookup \in Lookups \cup {None} /\ route \in Routes \cup {None}
  /\ made \subseteq Installs /\ here \in made \cup {None}
  /\ record \in [Installs -> [Keys -> Records]]
  /\ decided \in [Installs -> [Requests -> Decisions]]
  /\ asked \in [Requests -> Submissions \cup {None}]
  /\ told \in [Requests -> {"refused", "committed", "purged", None}]
  /\ left \in Limits

\* A save the pane reported as refused was decided by no store, and none
\* will: an answer that came after an unknown one proves nothing about the first.
NoFalseRefusal ==
  \A r \in Requests, i \in Installs : told[r] = "refused" => decided[i][r] = Unused

\* Every request that was submitted is in the editor, in its list of unchecked
\* saves, or was settled by a definite answer: no reload, reconnect, quarantine
\* or navigation forgets one.
NoRequestForgotten ==
  \A r \in Requests : asked[r] # None /\ told[r] = None => r \in Tracked(ed)

\* A request changes at most one store, and only the one it was composed for.
OneStore ==
  \A r \in Requests, i, j \in Installs :
    decided[i][r] # Unused =>
      /\ decided[j][r] # Unused => i = j
      /\ asked[r].origin \in {None, i}

\* The version a draft is compared with and submitted against is one its store
\* had: the revision and the wording belong together.
BaseWasStored ==
  ed.base # None /\ ed.base.revision > 0 /\ ed.expected # None =>
    LET log == record[ed.expected][ed.target.key].log IN
    /\ ed.base.revision <= Len(log)
    /\ log[ed.base.revision] = ed.base.text

\* Nothing of a record this tab was told is purged is shown again, not even
\* when the list of purged records is full.
ToldPurged(t, i) ==
  \E r \in Requests :
    /\ told[r] = "purged"
    /\ asked[r].key = t.key
    /\ asked[r].origin = i \/ decided[i][r].state = "purged"
PurgedStaysHidden ==
  LET known == \/ isTombstoned(ed, ed.target)
               \/ ed.expected # None /\ ToldPurged(ed.target, ed.expected)
  IN ed.target # None /\ known => Shown(ed) = {}

\* The pane can always read back what it keeps in the tab: a snapshot it
\* rejects would take every unchecked save and purge with it.
SnapshotReadable == Hydratable(snapshotLessonEditor(ed))

\* Wording that is not saved goes only when the person discards, edits or
\* leaves it, reloads the page, or its record turns out to be purged.
WordingKept ==
  [][isLessonEditorDirty(ed) /\ ed'.phase # "purged" =>
       \/ ed'.draft = ed.draft
       \/ \E t \in Texts : EditText(t)
       \/ CancelEdit \/ Reload \/ CloseEditor \/ BrowseCurrentInstead
       \/ \E k \in Keys : OpenLesson(k) \/ StartCapture(k) \/ FollowLink(k)]_vars

Spec == Init /\ [][Next]_vars
=============================================================================
