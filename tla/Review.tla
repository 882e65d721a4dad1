------------------------------- MODULE Review -------------------------------
(* The review of a world's staged artifacts next to the curriculum ticks that *)
(* stage them: preview, accept, reject, delete, re-home, retire, register,    *)
(* revise and refine. Whoever writes holds the worker lock (`op`); a person's *)
(* screen, the drafting half of a revision, a person's own git commands and   *)
(* the death of a process are under no lock.                                  *)
EXTENDS TargetRepo

CONSTANTS AutoMerges,   \* the values promotion.auto_merge may have
          Beginnings    \* what a run may begin with: see Init

\* How much may still happen, and to which patterns.
Budget == [patterns : SUBSET Patterns, commits : Nat, reflections : Nat, crashes : Nat,
           outside : Nat]

ASSUME ReviewAssumption ==
  /\ Patterns # {} /\ None \notin Types \cup Patterns
  /\ AutoMerges \subseteq BOOLEAN
  /\ Beginnings \subseteq [promoted : SUBSET Patterns, budget : Budget]

VARIABLES op,        \* the operation under the lock, and its step; `seen` in an
                     \* accept is auxiliary: the screen it was asked from
          screen,    \* the proposal the reviewer looks at
          count,     \* the reflections on disk of each pattern
          rehomed,   \* the patterns with a `rehomed` proposal event
          budget,    \* what may still happen
          refused,   \* auxiliary: the reflections on disk at a human's last no
                     \* to the pattern that no later accept overrules
          retiring,  \* auxiliary: ... when its retirement was last staged
          astray     \* auxiliary: the patterns that were once drafted from a row
                     \* which was not the default branch's

aux  == <<refused, retiring, astray>>
vars == <<repo, op, screen, count, rehomed, budget, aux>>

Idle   == [kind |-> "idle"]
Blank  == [pattern |-> None]
IsIdle == op = Idle

\* The bounds of an instance: a commit, a reflection, a death, an interference.
Room(n) == Len(commits) + n <= budget.commits
Spend(what) == budget[what] > 0 /\ budget' = [budget EXCEPT ![what] = @ - 1]

NoFiles == [t \in Types |-> NoText]

\* A world begins empty or, after an import, with promoted artifacts.
Init ==
  \E b \in Beginnings :
    /\ commits = << [parents |-> << >>, ancestors |-> {1}, extra |-> 0,
                     subject |-> "loop",
                     ledger |-> [p \in Patterns |->
                       IF p \in b.promoted
                       THEN StagedRow(NoRow, NoRow, "skill", 1, TRUE, 1) ELSE NoRow],
                     files |-> [p \in Patterns |->
                       IF p \in b.promoted THEN [NoFiles EXCEPT !["skill"] = 1] ELSE NoFiles]] >>
    /\ main = 1
    /\ branch = [p \in Patterns |-> 0]
    /\ held = {}
    /\ op = Idle
    /\ screen = Blank
    /\ count = [p \in Patterns |-> IF p \in b.promoted THEN 1 ELSE 0]
    /\ rehomed = {}
    /\ budget = b.budget
    /\ checkout = 0
    /\ refused = [p \in Patterns |-> 0]
    /\ retiring = [p \in Patterns |-> 0]
    /\ astray = {}

------------------------------------------------------------------------------
(* Reading a proposal.                                                        *)

Body(p, c) == Files(c)[p][EntryType(Ledger(c)[p])]

\* Accept refuses what the preview shows as blocked.
Blocked(p, base, tip) ==
  \/ IsAncestor(tip, base)
  \/ Body(p, tip) = Stub
  \/ Foreign(p, base, tip)

\* A person opens what the review queue lists. The digest binds the branch and
\* the base the person looked at.
Preview(p) ==
  /\ Exists(p) /\ ~Merged(p)
  /\ screen' = [pattern |-> p, base |-> main, tip |-> branch[p], revising |-> FALSE]
  /\ screen' # screen
  /\ UNCHANGED <<repo, op, count, rehomed, budget, aux>>

\* Mutant: a digest that leaves the branch out.
UnmovedBase(p) == Exists(p) /\ screen.base = main

Unmoved(p) == screen.base = main /\ screen.tip = branch[p]

------------------------------------------------------------------------------
(* Accept: check, commit the row on the reviewed branch, merge, delete it.     *)

AcceptBegin(p) ==
  /\ IsIdle /\ Room(1)
  /\ checkout = 0
  /\ screen.pattern = p
  /\ ~screen.revising
  /\ Unmoved(p)
  /\ ~Blocked(p, main, branch[p])
  /\ ~Live(p).inline
  /\ op' = [kind |-> "accept", step |-> "prepare", pattern |-> p, base |-> main,
            tip |-> branch[p], made |-> 0, seen |-> screen]
  /\ screen' = Blank
  /\ UNCHANGED <<repo, count, rehomed, budget, aux>>

\* Mutant: the ledger of the branch instead, its stale rows included.
AcceptedLedgerOfBranch(p, base, tip) ==
  [Ledger(tip) EXCEPT ![p] = AcceptedRow(@, Ledger(base)[p], Now)]

\* The ledger of the base with one row changed.
AcceptedLedger(p, base, tip) ==
  [Ledger(base) EXCEPT ![p] = AcceptedRow(Ledger(tip)[p], @, Now)]

\* The worktree is the first thing that holds the branch: a head that is not
\* the reviewed one is refused there, and so is a conflict.
Preparable(p, tip) == p \notin held /\ branch[p] = tip

AcceptPrepare ==
  /\ op.kind = "accept" /\ op.step = "prepare"
  /\ LET p == op.pattern
         head == branch[p]
     IN  /\ Preparable(p, op.tip)
         /\ ~Conflicts(p, op.base, head)
         /\ Committed(IF IsAncestor(op.base, head) THEN <<head>> ELSE <<head, op.base>>,
                      AcceptedLedger(p, op.base, op.tip),
                      MergedFiles(p, op.base, head), commits[op.base].extra, "accept")
         /\ branch' = [branch EXCEPT ![p] = Now]
         /\ op' = [op EXCEPT !.step = "merge", !.made = Now]
  /\ UNCHANGED <<main, held, checkout, screen, count, rehomed, budget, aux>>

\* A human's yes to a draft, or to a retirement as of the `mark` it was staged
\* with, and the policy's yes: what was refused before counts no more.
Decides(p, mark) ==
  refused' = [refused EXCEPT ![p] = mark] /\ retiring' = [retiring EXCEPT ![p] = mark]

\* The fast-forward of the prepared commit itself, never of the branch name.
AcceptMerge ==
  /\ op.kind = "accept" /\ op.step = "merge"
  /\ IsAncestor(main, op.made)
  /\ main' = op.made
  /\ op' = [kind |-> "drop", pattern |-> op.pattern]
  /\ Decides(op.pattern, IF Ledger(op.made)[op.pattern].status = "retired"
                         THEN retiring[op.pattern] ELSE 0)
  /\ UNCHANGED <<commits, branch, held, checkout, screen, count, rehomed, budget, astray>>

\* A refusal, after the checks or of the merge: the prepared commit stays on
\* the branch. A checkout that is dirty refuses any time.
AcceptRefused ==
  /\ op.kind = "accept"
  /\ op' = Idle
  /\ UNCHANGED <<repo, screen, count, rehomed, budget, aux>>

\* The last step of accept, reject and delete. It may fail, or never come: what
\* was recorded stands, and the branch stays in the queue.
DropBranch ==
  /\ op.kind = "drop"
  /\ branch' = Dropped(op.pattern)
  /\ op' = Idle
  /\ UNCHANGED <<commits, main, held, checkout, screen, count, rehomed, budget, aux>>

------------------------------------------------------------------------------
(* Operations that are one commit: on the default branch, or on the pattern's. *)

\* A scratch branch that is fast-forwarded in, with the default branch checked
\* out; the artifacts stay as they are.
OnDefault(p, row) ==
  /\ checkout = 0
  /\ Committed(<<main>>, [Ledger(main) EXCEPT ![p] = row], Files(main),
               commits[main].extra, "loop")
  /\ main' = Now

\* On top of the branch, which begins at the default branch when there is none.
Start(p) == IF Exists(p) THEN branch[p] ELSE main

OnBranch(p, row, files) ==
  /\ p \notin held
  /\ Committed(<<Start(p)>>, [Ledger(Start(p)) EXCEPT ![p] = row],
               [Files(Start(p)) EXCEPT ![p] = files], commits[Start(p)].extra, "loop")
  /\ branch' = [branch EXCEPT ![p] = Now]

\* A no counts from the commit that records it.
SaysNo(p) == refused' = [refused EXCEPT ![p] = count[p]]

Reject(p) ==
  /\ IsIdle /\ Room(1)
  /\ Exists(p)
  /\ OnDefault(p, RejectedRow(Live(p), Staged(p), count[p]))
  /\ op' = [kind |-> "drop", pattern |-> p]
  /\ SaysNo(p)
  /\ UNCHANGED <<branch, held, checkout, screen, count, rehomed, budget, retiring, astray>>

Remove(p) ==
  /\ IsIdle /\ Room(1)
  /\ ~IsLiveLoop(Live(p))
  /\ Exists(p) \/ (Known(Live(p)) /\ Live(p).status # "deleted")
  /\ OnDefault(p, TombstoneRow(Live(p), Staged(p), count[p]))
  /\ op' = IF Exists(p) THEN [kind |-> "drop", pattern |-> p] ELSE Idle
  /\ SaysNo(p)
  /\ UNCHANGED <<branch, held, checkout, screen, count, rehomed, budget, retiring, astray>>

\* An artifact somebody keeps outside the target repository.
Register(p, type) ==
  /\ IsIdle /\ Room(1)
  /\ ~Exists(p)
  /\ ~IsLiveLoop(Live(p))
  /\ OnDefault(p, RegisteredRow(Live(p), type, count[p], Now))
  /\ UNCHANGED <<branch, held, checkout, op, screen, count, rehomed, budget, aux>>

Rehome(p, type) ==
  LET row == Ledger(Start(p))[p]
  IN  /\ IsIdle /\ Room(1)
      /\ ~Seen(p).inline /\ Seen(p).status # "deleted"
      /\ Known(row) /\ ~row.inline
      /\ EntryType(row) # type
      /\ OnBranch(p, RehomedRow(row, type),
                  [Files(Start(p))[p] EXCEPT ![EntryType(row)] = NoText, ![type] = Stub])
      /\ rehomed' = rehomed \cup {p}
      /\ Decides(p, 0)
      /\ UNCHANGED <<main, held, checkout, op, screen, count, budget, astray>>

\* Also what a re-home to no type at all does.
Retire(p) ==
  LET row == Ledger(Start(p))[p]
  IN  /\ IsIdle /\ Room(1)
      /\ ~Seen(p).inline
      /\ Known(row) /\ ~row.inline /\ row.status \notin {"deleted", "retired"}
      /\ OnBranch(p, RetiredRow(row, count[p]),
                  [Files(Start(p))[p] EXCEPT ![EntryType(row)] = NoText])
      /\ Decides(p, count[p])
      /\ UNCHANGED <<main, held, checkout, op, screen, count, rehomed, budget, astray>>

------------------------------------------------------------------------------
(* Revise: a draft under no lock, then the write under it.                     *)

ReviseAsk(p) ==
  /\ screen.pattern = p
  /\ ~screen.revising
  /\ Unmoved(p)
  /\ Staged(p).status # "retired"
  /\ screen' = [screen EXCEPT !.revising = TRUE]
  /\ UNCHANGED <<repo, op, count, rehomed, budget, aux>>

\* The draft says something new, or what the default branch says already.
ReviseCommit(p) ==
  LET type == EntryType(Staged(p))
      was  == Files(branch[p])[p][type]
  IN  /\ IsIdle /\ Room(1)
      /\ screen.pattern = p /\ screen.revising
      /\ Unmoved(p)
      /\ \E text \in {Now, Files(main)[p][type]} \ {was} :
           /\ IsText(text)
           /\ OnBranch(p, Staged(p), [Files(branch[p])[p] EXCEPT ![type] = text])
      /\ screen' = [pattern |-> p, base |-> main, tip |-> Now, revising |-> FALSE]
      /\ UNCHANGED <<main, held, checkout, op, count, rehomed, budget, aux>>

\* The proposal changed while the drafter was working.
ReviseRefused ==
  /\ screen.pattern # None
  /\ screen.revising
  /\ ~Unmoved(screen.pattern)
  /\ screen' = Blank
  /\ UNCHANGED <<repo, op, count, rehomed, budget, aux>>

------------------------------------------------------------------------------
(* A curriculum tick, one pattern at a time.                                    *)

\* The branch still holds only the stub of a re-home.
StubStaged(p) ==
  /\ Exists(p) /\ ~Merged(p)
  /\ Staged(p).status = "staged"
  /\ Staged(p).served_by # None
  /\ Files(branch[p])[p][Staged(p).served_by] = Stub

Planned(p) ==
  {PlanAction(Seen(p), count[p], StubStaged(p), card, policy) :
     card \in Cards, policy \in RedraftPolicies(Seen(p))}

\* A retirement owns the branch, a staged refine waits, an inline row is done.
Waits(p, action) ==
  \/ Seen(p).inline
  \/ Staged(p).status = "retired"
  \/ action = "refine" /\ Staged(p).status = "staged"

HumanSetType(p) ==
  \/ Staged(p).human \/ Seen(p).human
  \/ Migrating(Staged(p), Seen(p))
  \/ p \in rehomed

\* The type of the draft: what serves the pattern; for a rule with new evidence
\* that no human decided, also a skill; the router's choice when nothing does.
Routes(p, action) ==
  LET forced == ServedBy(Staged(p), Seen(p))
  IN  IF forced = None THEN Types
      ELSE {forced} \cup (IF forced = "rule" /\ action = "promote" /\ count[p] > 0
                             /\ ~HumanSetType(p)
                          THEN {"skill"} ELSE {})

Rerouted(p, type) ==
  LET forced == ServedBy(Staged(p), Seen(p)) IN forced # None /\ forced # type

\* What is drafted from another branch's row may not fit the default branch.
Strayed(p) == IF Seen(p) = Live(p) THEN astray ELSE astray \cup {p}

\* The gates passed and a draft is being written: the long part of a tick.
DraftBegins(p, action, type, auto) ==
  /\ type \in Routes(p, action)
  /\ auto => ~Rerouted(p, type)
  /\ op' = [kind |-> "tick", step |-> "reset", pattern |-> p, type |-> type,
            auto |-> auto, action |-> action, prior |-> Seen(p), staged |-> Staged(p),
            count |-> PlannedCount(Seen(p), count[p])]

TickBegin(p) ==
  /\ IsIdle /\ Room(1)
  /\ \E action \in Planned(p) \cap {"promote", "refine"} :
       /\ ~Waits(p, action)
       /\ \E type \in Types, auto \in AutoMerges : DraftBegins(p, action, type, auto)
  /\ astray' = Strayed(p)
  /\ UNCHANGED <<repo, screen, count, rehomed, budget, refused, retiring>>

\* A human asks for a redraft of a live artifact. A pending proposal is opened
\* instead; what an automatic merge left behind is dropped.
RefineBegin(p) ==
  LET staged == IF p \in held THEN Staged(p) ELSE NoRow
  IN  /\ IsIdle /\ Room(1)
      /\ Exists(p) => Merged(p)
      /\ IsLiveLoop(Seen(p))
      /\ Body(p, CheckedOut) # NoText
      /\ p \notin held \/ ~Waits(p, "refine")
      /\ branch' = Dropped(p)
      /\ op' = [kind |-> "tick", step |-> "reset", pattern |-> p,
                type |-> ServedBy(staged, Seen(p)), auto |-> FALSE, action |-> "refine",
                prior |-> Seen(p), staged |-> staged, count |-> Seen(p).promoted_at_count]
      /\ astray' = Strayed(p)
      /\ UNCHANGED <<commits, main, held, checkout, screen, count, rehomed, budget, refused, retiring>>

\* A redraft starts again from the default branch; a migration lands on top.
StageReset ==
  /\ op.kind = "tick" /\ op.step = "reset"
  /\ LET p == op.pattern
     IN  IF Exists(p) /\ ~Migrating(op.staged, op.prior)
         THEN p \notin held /\ branch' = [branch EXCEPT ![p] = main]
         ELSE UNCHANGED branch
  /\ op' = [op EXCEPT !.step = "commit"]
  /\ UNCHANGED <<commits, main, held, checkout, screen, count, rehomed, budget, aux>>

\* Mutant: a draft of another type leaves the artifact it replaces.
OldTypeForgotten == op.type

\* The type whose artifact the starting tree still carries.
OldType ==
  LET row == IF Migrating(op.staged, op.prior) THEN op.staged ELSE op.prior
  IN  IF Known(row) THEN EntryType(row) ELSE op.type

StageCommit ==
  /\ op.kind = "tick" /\ op.step = "commit"
  /\ LET p == op.pattern
         kept == [Files(Start(p))[p] EXCEPT ![OldType] = NoText]
     IN  OnBranch(p, StagedRow(op.staged, op.prior, op.type, op.count, op.auto, Now),
                  [kept EXCEPT ![op.type] = Now])
  /\ op' = IF op.auto THEN [op EXCEPT !.step = "merge"] ELSE Idle
  /\ UNCHANGED <<main, held, checkout, screen, count, rehomed, budget, aux>>

\* The branch reference stays where it is.
AutoMerge ==
  /\ op.kind = "tick" /\ op.step = "merge"
  /\ checkout = 0
  /\ IsAncestor(main, branch[op.pattern])
  /\ main' = branch[op.pattern]
  /\ op' = Idle
  /\ Decides(op.pattern, 0)
  /\ UNCHANGED <<commits, branch, held, checkout, screen, count, rehomed, budget, astray>>

\* A draft, a gate, a worktree or a merge fails: that ends this pattern's turn.
TickGivesUp ==
  /\ op.kind = "tick"
  /\ op' = Idle
  /\ UNCHANGED <<repo, screen, count, rehomed, budget, aux>>

------------------------------------------------------------------------------
(* What is under no lock.                                                      *)

\* The critic writes reflections inside a worker pass, between operations.
Reflect(p) ==
  /\ IsIdle
  /\ Spend("reflections")
  /\ count' = [count EXCEPT ![p] = @ + 1]
  /\ UNCHANGED <<repo, op, screen, rehomed, aux>>

\* A process dies between two steps. Inside a scratch tree it leaves the
\* worktree, and the branch it made for it.
Dies ==
  /\ Spend("crashes")
  /\ \/ ~IsIdle /\ op' = Idle /\ UNCHANGED repo
     \/ /\ IsIdle
        /\ \E p \in budget.patterns :
             /\ held' = held \cup {p}
             /\ branch' = [branch EXCEPT ![p] = Start(p)]
        /\ UNCHANGED <<commits, main, checkout, op>>
  /\ UNCHANGED <<screen, count, rehomed, aux>>

\* A worktree goes: a person closes it, or the temporary files are cleaned.
Released(p) ==
  /\ p \in held
  /\ held' = held \ {p}
  /\ UNCHANGED <<commits, main, branch, checkout, op, screen, count, rehomed, budget, aux>>

\* A person's own commands: unrelated work on the default branch, a correction
\* of a live artifact there, a commit on a staged branch, a worktree of it.
Interferes ==
  /\ Spend("outside")
  /\ \/ /\ Room(1)
        /\ Committed(<<main>>, Ledger(main), Files(main), Now, "person")
        /\ main' = Now
        /\ UNCHANGED <<branch, held>>
     \/ \E p \in budget.patterns :
          /\ Room(1) /\ IsLiveLoop(Live(p))
          /\ Committed(<<main>>, Ledger(main),
                       [Files(main) EXCEPT ![p][EntryType(Live(p))] = Now],
                       commits[main].extra, "person")
          /\ main' = Now
          /\ UNCHANGED <<branch, held>>
     \/ \E p \in budget.patterns :
          /\ Room(1) /\ Exists(p)
          /\ Committed(<<branch[p]>>, Ledger(branch[p]), Files(branch[p]), Now, "person")
          /\ branch' = [branch EXCEPT ![p] = Now]
          /\ UNCHANGED <<main, held>>
     \/ \E p \in budget.patterns :
          /\ Exists(p) /\ p \notin held
          /\ held' = held \cup {p}
          /\ UNCHANGED <<commits, main, branch>>
  /\ UNCHANGED <<checkout, op, screen, count, rehomed, aux>>

\* A person looks at another commit in the target's own checkout, and holds the
\* branch if it is one that is checked out. A tick takes minutes; the few git
\* commands of an accept are not interrupted.
LooksElsewhere ==
  /\ op.kind # "accept"
  /\ Spend("outside")
  /\ \E c \in DOMAIN commits \ {main} :
       /\ checkout' = c
       /\ \/ UNCHANGED held
          \/ \E p \in budget.patterns : branch[p] = c /\ held' = held \cup {p}
  /\ UNCHANGED <<commits, main, branch, op, screen, count, rehomed, aux>>

ComesBack ==
  /\ checkout # 0
  /\ checkout' = 0
  /\ UNCHANGED <<commits, main, branch, held, op, screen, count, rehomed, budget, aux>>

Next ==
  \/ \E p \in budget.patterns :
       \/ Preview(p) \/ AcceptBegin(p) \/ Reject(p) \/ Remove(p) \/ Retire(p)
       \/ \E type \in Types : Register(p, type) \/ Rehome(p, type)
       \/ ReviseAsk(p) \/ ReviseCommit(p)
       \/ TickBegin(p) \/ RefineBegin(p)
       \/ Reflect(p) \/ Released(p)
  \/ AcceptPrepare \/ AcceptMerge \/ AcceptRefused \/ DropBranch
  \/ ReviseRefused
  \/ StageReset \/ StageCommit \/ AutoMerge \/ TickGivesUp
  \/ Dies \/ Interferes \/ LooksElsewhere \/ ComesBack

Spec == Init /\ [][Next]_vars

------------------------------------------------------------------------------
(* Properties.                                                                 *)

\* The types of the state.
TypeOK ==
  /\ main \in DOMAIN commits
  /\ branch \in [Patterns -> 0 .. Len(commits)]
  /\ held \subseteq Patterns /\ rehomed \subseteq Patterns /\ astray \subseteq Patterns
  /\ checkout \in 0 .. Len(commits)
  /\ count \in [Patterns -> Nat] /\ refused \in [Patterns -> Nat] /\ retiring \in [Patterns -> Nat]
  /\ op.kind \in {"idle", "accept", "drop", "tick"}
  /\ \A c \in DOMAIN commits : \A p \in Patterns :
       Ledger(c)[p].status \in Statuses /\ DOMAIN Files(c)[p] = Types

\* The default branch moves for one pattern at a time: whatever the branch that
\* is merged carries of other patterns, their rows and artifacts stay.
OnlyOwnPattern ==
  [][main' # main =>
       \E p \in Patterns : \A q \in Patterns \ {p} :
         /\ commits'[main'].ledger[q] = Ledger(main)[q]
         /\ commits'[main'].files[q] = Files(main)[q]]_vars

\* What an accept merges is what the person looked at: everything the reviewed
\* commit changes of the artifact, on top of the default branch as it was then.
MergedAsReviewed ==
  [][op.kind = "accept" /\ op'.kind = "drop" =>
       /\ main = op.seen.base
       /\ \A t \in Types : Sides(op.pattern, t, main, op.seen.tip).ours =>
            commits'[main'].files[op.pattern][t] = Files(op.seen.tip)[op.pattern][t]]_vars

\* A live row is served by the one file it names, and by a real text; a pattern
\* out of rotation is served by none. A pattern that was drafted from the row of
\* another branch, checked out at the time, may be served by the file of the type
\* it had there as well: plan.ts reads the working tree's ledger.
ServedByOneFile ==
  \A p \in Patterns \ astray : \A t \in Types :
    LET row == Live(p) text == Files(main)[p][t]
    IN  IF IsLiveLoop(row) /\ row.served_by = t THEN IsText(text) ELSE text = NoText

\* What a human refused, deleted or retired is proposed again only on Threshold
\* reflections more than there were then, whether or not the branch could be
\* deleted with it, by every tick that finds the default branch's row of the
\* pattern in the working tree. Only a later yes overrules the no: an accept or an
\* automatic merge of a draft, a re-home, and, of a retirement that survived its
\* refusal, an accept, which leaves the mark of the retirement itself.
NoTreadmill ==
  [][\A p \in Patterns :
       IsIdle /\ op'.kind = "tick" /\ op'.pattern = p /\ op'.action = "promote"
         /\ ~StubStaged(p) /\ Seen(p) = Live(p)
       => count[p] >= refused[p] + Threshold]_vars

\* docs/OPERATIONS.md says that a deleted pattern is staged again once
\* `promotion.threshold` new reflections arrive. The plan takes a deleted inline
\* row for a live one.
EvidenceBringsBack ==
  \A p \in Patterns :
    Seen(p).status = "deleted" /\ count[p] >= Watermark(Seen(p)) + Threshold
    => "promote" \in Planned(p)

\* A person's commit on the branch, or a person's correction of the artifact.
HandIn(p) ==
  \E c \in DOMAIN commits :
    /\ commits[c].subject = "person"
    /\ \/ c \in commits[branch[p]].ancestors \ commits[main].ancestors
       \/ Files(c)[p] # Files(commits[c].parents[1])[p]

\* A staged draft that no person touched can be accepted, whatever was accepted,
\* refused or staged next to it.
NeverBlockedByAnother ==
  \A p \in Patterns :
    Exists(p) /\ ~Merged(p) /\ Body(p, branch[p]) # Stub /\ ~HandIn(p)
    => ~Foreign(p, main, branch[p]) /\ ~Conflicts(p, main, branch[p])
=============================================================================
