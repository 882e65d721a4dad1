---------------------------- MODULE ReviewProofs ----------------------------
(* Theorems about the review of staged artifacts, for any patterns, any world *)
(* it begins with and any bounds: what is live is served by one file, a merge *)
(* changes one pattern, publishes what was reviewed and is never blocked by   *)
(* another pattern's work, and what a human refused stays refused. Whatever a *)
(* person has checked out meanwhile: the pattern that a tick then drafts from *)
(* a row of elsewhere (`astray`) is excepted from the first alone.            *)
EXTENDS Review, TLAPS

------------------------------------------------------------------------------
(* Rows.                                                                      *)

Fields ==
  [status : Statuses, artifact_type : Types, served_by : Types \cup {None},
   promoted_at_count : Nat, rejected_at_count : Nat, promoted_at : Nat,
   revised_at : Nat, revisions : Nat, inline : BOOLEAN, human : BOOLEAN]

\* Every row ever written: what is promoted has a type, and no row is blank.
Sound(row) ==
  /\ row.status = "promoted" => row.served_by # None
  /\ row.status = "none" => row = NoRow

Row == {row \in Fields : Sound(row)}

Texts == [Types -> Nat \cup {Stub}]

\* What a row of the default branch says of the artifacts there.
Served(row, files) ==
  /\ row.status # "staged"
  /\ row.status = "promoted" <=> row.served_by # None
  /\ \A t \in Types : IF row.served_by = t /\ ~row.inline THEN IsText(files[t])
                      ELSE files[t] = NoText

\* The row of a proposal.
Proposed(row) ==
  /\ ~row.inline
  /\ \/ row.status \in {"staged", "promoted"} /\ row.served_by # None
     \/ row.status = "retired" /\ row.served_by = None

\* What it says of the artifacts on its branch: a stub counts.
Drafted(row, files) ==
  /\ Proposed(row)
  /\ \A t \in Types : files[t] # NoText <=> row.served_by = t

\* What no decision but a merge of the pattern's branch changes in a live row.
Kept(row, was) ==
  /\ row.inline = was.inline
  /\ IsLiveLoop(row) <=> IsLiveLoop(was)
  /\ IsLiveLoop(was) => row.served_by = was.served_by

\* A pattern that nobody knows.
LEMMA NoRowIs == NoRow \in Row /\ ~Known(NoRow) /\ ~NoRow.inline /\ NoRow.served_by = None
                 /\ Watermark(NoRow) = 0
BY DEF NoRow, Row, Fields, Sound, Statuses, Types, Known, Watermark, Larger

\* A row that changes in the fields that are named here is a row.
LEMMA RowIs ==
  ASSUME NEW row \in Fields, row.status # "none", row.status = "promoted" => row.served_by # None
  PROVE  row \in Row
BY DEF Row, Sound

\* The type of a row is one of the types.
LEMMA EntryTypes == \A row \in Row : EntryType(row) \in Types
BY DEF Row, Fields, EntryType

\* Marks are numbers.
LEMMA Marked == \A row \in Row : Watermark(row) \in Nat
BY DEF Row, Fields, Watermark, Larger

\* A pattern that is not in the ledger has a blank row.
LEMMA UnknownIs == \A row \in Row : ~Known(row) => row = NoRow
BY DEF Row, Sound, Known

\* A live row that is served by its file is a loop's own.
LEMMA LiveServed ==
  ASSUME NEW row \in Row, NEW files \in Texts, Served(row, files), NEW t \in Types
  PROVE  /\ IsLiveLoop(row) /\ row.served_by = t => IsText(files[t])
         /\ ~(IsLiveLoop(row) /\ row.served_by = t) => files[t] = NoText
         /\ IsLiveLoop(row) => row.served_by \in Types
BY ReviewAssumption DEF Served, IsLiveLoop, Row, Fields

\* A rejection moves the mark of the live row.
LEMMA Rejected ==
  ASSUME NEW prior \in Row, NEW entry \in Row, NEW n \in Nat,
         NEW row, row = RejectedRow(prior, entry, n)
  PROVE  /\ row \in Row /\ Kept(row, prior)
         /\ \A files : Served(prior, files) => Served(row, files)
         /\ n <= Watermark(row) /\ Watermark(prior) <= Watermark(row)
<1>1. CASE Known(prior)
  <2>1. row = [prior EXCEPT !.rejected_at_count = Larger(prior.rejected_at_count, n)]
    BY <1>1 DEF RejectedRow
  <2>2. Larger(prior.rejected_at_count, n) \in Nat
    BY DEF Larger, Row, Fields
  <2>3. row \in Fields /\ row.status = prior.status /\ row.served_by = prior.served_by
        /\ row.inline = prior.inline /\ row.promoted_at_count = prior.promoted_at_count
        /\ row.rejected_at_count = Larger(prior.rejected_at_count, n)
    BY <2>1, <2>2 DEF Row, Fields
  <2>4. n <= Watermark(row) /\ Watermark(prior) <= Watermark(row)
    BY <2>3 DEF Watermark, Larger, Row, Fields
  <2>5. row \in Row
    BY <1>1, <2>3, RowIs DEF Row, Sound, Known
  <2>6. QED
    BY <1>1, <2>3, <2>4, <2>5 DEF Served, Kept, IsLiveLoop
<1>2. CASE ~Known(prior)
  <2>1. prior = NoRow
    BY <1>2, UnknownIs
  <2>2. row = [NoRow EXCEPT !.status = "rejected", !.rejected_at_count = n,
                            !.artifact_type = EntryType(entry)]
    BY <1>2 DEF RejectedRow
  <2>3. row \in Fields /\ row.status = "rejected" /\ row.served_by = None /\ row.inline = FALSE
        /\ row.promoted_at_count = 0 /\ row.rejected_at_count = n
    BY <2>2, NoRowIs, EntryTypes DEF NoRow, Row, Fields, Statuses, Types
  <2>4. n <= Watermark(row) /\ Watermark(prior) <= Watermark(row)
    BY <2>1, <2>3, NoRowIs DEF Watermark, Larger
  <2>5. row \in Row
    BY <2>3, RowIs
  <2>6. prior.status = "none" /\ prior.served_by = None /\ prior.inline = FALSE
    BY <2>1 DEF NoRow
  <2>7. Kept(row, prior)
    BY <2>3, <2>6 DEF Kept, IsLiveLoop
  <2>8. \A files : Served(prior, files) => Served(row, files)
    BY <2>3, <2>6 DEF Served
  <2>9. QED
    BY <2>4, <2>5, <2>7, <2>8
<1>3. QED
  BY <1>1, <1>2

\* A tombstone is of nothing that is live, and keeps the marks.
LEMMA Buried ==
  ASSUME NEW prior \in Row, NEW entry \in Row, NEW n \in Nat, ~IsLiveLoop(prior),
         NEW row, row = TombstoneRow(prior, entry, n)
  PROVE  /\ row \in Row /\ Kept(row, prior)
         /\ \A files \in Texts : Served(prior, files) => Served(row, files)
         /\ n <= Watermark(row) /\ Watermark(prior) <= Watermark(row)
<1> DEFINE m == Larger(Larger(prior.rejected_at_count, entry.promoted_at_count), n)
           a == IF Known(prior) THEN prior.artifact_type ELSE EntryType(entry)
<1>1. m \in Nat /\ n <= m /\ prior.rejected_at_count <= m /\ a \in Types
  BY EntryTypes DEF Larger, Row, Fields
<1>2. row = [prior EXCEPT !.status = "deleted", !.served_by = None, !.human = FALSE,
                          !.artifact_type = a, !.rejected_at_count = m]
  BY DEF TombstoneRow
<1> HIDE DEF m, a
<1>3. row \in Fields /\ row.status = "deleted" /\ row.served_by = None /\ row.inline = prior.inline
      /\ row.promoted_at_count = prior.promoted_at_count /\ row.rejected_at_count = m
  BY <1>1, <1>2 DEF Row, Fields, Statuses
<1>4. n <= Watermark(row) /\ Watermark(prior) <= Watermark(row)
  BY <1>1, <1>3 DEF Watermark, Larger, Row, Fields
<1>5. row \in Row
  BY <1>3, RowIs
<1>6. \A files \in Texts : Served(prior, files) => \A t \in Types : files[t] = NoText
  BY LiveServed
<1>7. \A files \in Texts : Served(prior, files) => Served(row, files)
  BY <1>3, <1>6, ReviewAssumption DEF Served
<1>8. Kept(row, prior)
  BY <1>3 DEF Kept, IsLiveLoop
<1>9. QED
  BY <1>4, <1>5, <1>7, <1>8

\* A registered artifact is kept elsewhere.
LEMMA Registered ==
  ASSUME NEW prior \in Row, NEW n \in Nat, NEW now \in Nat, NEW type \in Types,
         ~IsLiveLoop(prior), NEW row, row = RegisteredRow(prior, type, n, now)
  PROVE  /\ row \in Row /\ Watermark(prior) <= Watermark(row)
         /\ \A files \in Texts : Served(prior, files) => Served(row, files)
<1> DEFINE again == prior.inline /\ prior.status # "deleted"
           m == Larger(prior.promoted_at_count, n)
           d == IF again /\ prior.promoted_at # 0 THEN prior.promoted_at ELSE now
           v == IF again THEN prior.revisions + 1 ELSE 0
<1>1. m \in Nat /\ prior.promoted_at_count <= m /\ d \in Nat /\ v \in Nat
  BY DEF Larger, Row, Fields
<1>2. row = [prior EXCEPT !.status = "promoted", !.artifact_type = type, !.served_by = type,
               !.promoted_at_count = m, !.promoted_at = d, !.revised_at = now, !.revisions = v,
               !.inline = TRUE, !.human = FALSE]
  BY DEF RegisteredRow
<1> HIDE DEF m, d, v
<1>3. row \in Fields /\ row.status = "promoted" /\ row.served_by = type /\ row.inline
      /\ row.rejected_at_count = prior.rejected_at_count /\ row.promoted_at_count = m
  BY <1>1, <1>2 DEF Row, Fields, Statuses
<1>4. Watermark(prior) <= Watermark(row)
  BY <1>1, <1>3 DEF Watermark, Larger, Row, Fields
<1>5. row \in Row
  BY <1>3, RowIs, ReviewAssumption
<1>6. \A files \in Texts : Served(prior, files) => \A t \in Types : files[t] = NoText
  BY LiveServed
<1>7. \A files \in Texts : Served(prior, files) => Served(row, files)
  BY <1>3, <1>6, ReviewAssumption DEF Served
<1>8. QED
  BY <1>4, <1>5, <1>7

\* What an accept makes of a proposal.
AcceptedFrom(row, entry) ==
  /\ row \in Row /\ Proposed(row) /\ row.served_by = entry.served_by
  /\ row.inline = entry.inline /\ Watermark(row) = Watermark(entry)
  /\ entry.status = "retired" => row.status = "retired"
  /\ entry.status # "retired" => row.status = "promoted"

\* An accept of a proposal makes a draft live, or takes the artifact away.
LEMMA AcceptedRowIs ==
  ASSUME NEW entry \in Row, NEW live \in Row, NEW now \in Nat, Proposed(entry)
  PROVE  AcceptedFrom(AcceptedRow(entry, live, now), entry)
<1> PICK row : row = AcceptedRow(entry, live, now)
  OBVIOUS
<1>1. Known(entry)
  BY DEF Proposed, Known
<1>2. CASE entry.status = "retired"
  <2>1. row = [entry EXCEPT !.served_by = None]
    BY <1>1, <1>2 DEF AcceptedRow
  <2>2. /\ row \in Fields /\ row.status = "retired" /\ row.served_by = None
        /\ row.inline = entry.inline /\ row.promoted_at_count = entry.promoted_at_count
        /\ row.rejected_at_count = entry.rejected_at_count
    BY <1>2, <2>1 DEF Row, Fields
  <2>3. row \in Row
    BY <2>2, RowIs
  <2>4. QED
    BY <1>2, <2>2, <2>3 DEF Watermark, Proposed, AcceptedFrom
<1>3. CASE entry.status # "retired"
  <2> DEFINE was == live.status = "promoted"
             since == IF was /\ live.promoted_at # 0 THEN live.promoted_at ELSE now
             at == IF was THEN now ELSE since
             n == IF was THEN live.revisions + 1 ELSE 0
  <2>1. since \in Nat /\ at \in Nat /\ n \in Nat
    BY DEF Row, Fields
  <2>2. row = [entry EXCEPT !.status = "promoted", !.promoted_at = since, !.revised_at = at,
                            !.revisions = n]
    BY <1>1, <1>3 DEF AcceptedRow
  <2> HIDE DEF since, at, n
  <2>3. /\ row \in Fields /\ row.status = "promoted" /\ row.served_by = entry.served_by
        /\ row.inline = entry.inline /\ row.promoted_at_count = entry.promoted_at_count
        /\ row.rejected_at_count = entry.rejected_at_count
    BY <2>1, <2>2 DEF Row, Fields, Statuses
  <2>4. row.served_by # None
    BY <1>3, <2>3 DEF Proposed
  <2>5. row \in Row
    BY <2>3, <2>4, RowIs
  <2>6. QED
    BY <1>3, <2>3, <2>4, <2>5 DEF Watermark, Proposed, AcceptedFrom
<1>4. QED
  BY <1>2, <1>3

\* The row of a fresh draft names its type.
LEMMA StagedRowIs ==
  ASSUME NEW staged \in Row, NEW prior \in Row, NEW type \in Types, NEW n \in Nat,
         NEW auto \in BOOLEAN, NEW now \in Nat, NEW row,
         row = StagedRow(staged, prior, type, n, auto, now)
  PROVE  /\ row \in Row /\ Proposed(row) /\ row.served_by = type
         /\ row.status = IF auto THEN "promoted" ELSE "staged"
<1> DEFINE was == auto /\ prior.status = "promoted"
           since == IF ~auto THEN prior.promoted_at
                    ELSE IF was /\ prior.promoted_at # 0 THEN prior.promoted_at ELSE now
           at == IF ~auto THEN prior.revised_at ELSE IF was THEN now ELSE since
           v == IF ~auto THEN prior.revisions ELSE IF was THEN prior.revisions + 1 ELSE 0
           m == Larger(n, prior.promoted_at_count)
<1>1. since \in Nat /\ at \in Nat /\ v \in Nat /\ m \in Nat
  BY DEF Row, Fields, Larger
<1>2. row = [status |-> IF auto THEN "promoted" ELSE "staged", artifact_type |-> type,
             served_by |-> type, promoted_at_count |-> m,
             rejected_at_count |-> prior.rejected_at_count, promoted_at |-> since,
             revised_at |-> at, revisions |-> v, inline |-> FALSE,
             human |-> staged.human \/ prior.human]
  BY DEF StagedRow
<1> HIDE DEF since, at, v, m
<1>3. PICK human \in BOOLEAN, status \in Statuses \ {"none"} :
        human = (staged.human \/ prior.human) /\ status = IF auto THEN "promoted" ELSE "staged"
  BY DEF Statuses
<1>4. row = [status |-> status, artifact_type |-> type, served_by |-> type,
             promoted_at_count |-> m, rejected_at_count |-> prior.rejected_at_count,
             promoted_at |-> since, revised_at |-> at, revisions |-> v, inline |-> FALSE,
             human |-> human]
  BY <1>2, <1>3
<1>5. row \in Fields /\ ~row.inline /\ row.served_by = type /\ row.status = status
  BY <1>1, <1>4 DEF Row, Fields
<1>6. row.served_by # None
  BY <1>5, ReviewAssumption
<1>7. row \in Row
  BY <1>5, <1>6, RowIs
<1>8. QED
  BY <1>3, <1>5, <1>6, <1>7 DEF Proposed

\* A re-home stages the new type.
LEMMA RehomedRowIs ==
  ASSUME NEW row \in Row, NEW type \in Types
  PROVE  LET new == RehomedRow(row, type)
         IN  /\ new \in Row /\ new.inline = row.inline /\ new.served_by = type
             /\ new.status = "staged"
<1> DEFINE new == RehomedRow(row, type)
<1>1. new \in Fields /\ new.inline = row.inline /\ new.served_by = type /\ new.status = "staged"
  BY DEF RehomedRow, Row, Fields, Statuses
<1> HIDE DEF new
<1>2. new \in Row
  BY <1>1, RowIs
<1>3. QED
  BY <1>1, <1>2 DEF new

\* A retirement is served by nothing, and marks what it refused.
LEMMA RetiredRowIs ==
  ASSUME NEW row \in Row, NEW n \in Nat
  PROVE  LET new == RetiredRow(row, n)
         IN  /\ new \in Row /\ new.inline = row.inline /\ new.served_by = None
             /\ new.status = "retired" /\ n <= Watermark(new)
<1>1. Larger(row.rejected_at_count, n) \in Nat /\ n <= Larger(row.rejected_at_count, n)
  BY DEF Larger, Row, Fields
<1> DEFINE m == Larger(row.rejected_at_count, n)
           new == [row EXCEPT !.status = "retired", !.served_by = None, !.rejected_at_count = m]
<1> HIDE DEF m
<1>2. new \in Fields /\ new.inline = row.inline /\ new.served_by = None /\ new.status = "retired"
      /\ new.rejected_at_count = m /\ new.promoted_at_count = row.promoted_at_count
  BY <1>1 DEF Row, Fields, Statuses, m
<1>3. n <= Watermark(new)
  BY <1>1, <1>2 DEF Watermark, Larger, Row, Fields, m
<1>4. new \in Row
  BY <1>2, RowIs
<1>5. QED
  BY <1>2, <1>3, <1>4 DEF RetiredRow, m

------------------------------------------------------------------------------
(* Types.                                                                     *)

Commit ==
  [parents : Seq(Nat), ancestors : SUBSET Nat, extra : Nat, subject : {"loop", "accept", "person"},
   ledger : [Patterns -> Row], files : [Patterns -> Texts]]

RepoTyped ==
  /\ commits \in Seq(Commit)
  /\ main \in DOMAIN commits
  /\ branch \in [Patterns -> 0 .. Len(commits)]
  /\ held \subseteq Patterns
  /\ checkout \in 0 .. Len(commits)

Screen == [pattern : Patterns, base : Nat, tip : Nat, revising : BOOLEAN]

AcceptOp ==
  [kind : {"accept"}, step : {"prepare", "merge"}, pattern : Patterns, base : Nat, tip : Nat,
   made : Nat, seen : Screen]

DropOp == [kind : {"drop"}, pattern : Patterns]

TickOp ==
  [kind : {"tick"}, step : {"reset", "commit", "merge"}, pattern : Patterns, type : Types,
   auto : BOOLEAN, action : {"promote", "refine"}, prior : Row, staged : Row, count : Nat]

Typed ==
  /\ RepoTyped
  /\ op \in {Idle} \cup AcceptOp \cup DropOp \cup TickOp
  /\ screen \in Screen \cup {Blank}
  /\ count \in [Patterns -> Nat] /\ refused \in [Patterns -> Nat] /\ retiring \in [Patterns -> Nat]
  /\ rehomed \subseteq Patterns /\ astray \subseteq Patterns
  /\ budget \in Budget

Anc(h, c) == h[c].ancestors

\* The history `g` is `h` and one commit more, on top of these ancestors.
Made(h, g, ancestors, ledger, files, extra, subject) ==
  LET n == Len(h) + 1
  IN  /\ Len(g) = n
      /\ \A c \in DOMAIN h : g[c] = h[c]
      /\ g[n].ancestors = {n} \cup ancestors
      /\ g[n].ledger = ledger /\ g[n].files = files
      /\ g[n].extra = extra /\ g[n].subject = subject

\* The number of the next commit is new.
LEMMA NowIsNew ==
  ASSUME RepoTyped
  PROVE  /\ Len(commits) \in Nat /\ DOMAIN commits = 1 .. Len(commits)
         /\ Now \in Nat /\ Now > 0 /\ Now \notin DOMAIN commits
         /\ \A c \in DOMAIN commits : c \in Nat /\ 0 < c /\ c < Now
BY DEF RepoTyped, Now

\* A commit has a ledger and the artifacts of every pattern.
LEMMA CommitIs ==
  ASSUME RepoTyped, NEW c \in DOMAIN commits
  PROVE  /\ commits[c] \in Commit
         /\ Ledger(c) \in [Patterns -> Row] /\ Files(c) \in [Patterns -> Texts]
         /\ \A p \in Patterns : Ledger(c)[p] \in Row /\ Files(c)[p] \in Texts
         /\ commits[c].extra \in Nat
<1>1. commits[c] \in Commit
  BY DEF RepoTyped
<1>2. /\ Ledger(c) \in [Patterns -> Row] /\ Files(c) \in [Patterns -> Texts]
      /\ commits[c].extra \in Nat
  BY <1>1 DEF Commit, Ledger, Files
<1>3. QED
  BY <1>1, <1>2

\* A commit on top of one other.
LEMMA CommitOnOne ==
  ASSUME RepoTyped, NEW x \in DOMAIN commits, NEW ledger \in [Patterns -> Row],
         NEW files \in [Patterns -> Texts], NEW extra \in Nat,
         NEW subject \in {"loop", "accept", "person"},
         Committed(<<x>>, ledger, files, extra, subject)
  PROVE  /\ commits' \in Seq(Commit)
         /\ Made(commits, commits', Anc(commits, x), ledger, files, extra, subject)
         /\ commits'[Now].parents[1] = x
<1> DEFINE new == [parents |-> <<x>>, ancestors |-> {Now} \cup Anc(commits, x),
                   ledger |-> ledger, files |-> files, extra |-> extra, subject |-> subject]
<1>1. UNION {commits[<<x>>[i]].ancestors : i \in DOMAIN <<x>>} = Anc(commits, x)
  BY DEF Anc
<1>2. commits' = Append(commits, new)
  BY <1>1 DEF Committed
<1>3. new \in Commit /\ new.parents[1] = x
  <2>1. <<x>> \in Seq(Nat) /\ Now \in Nat
    BY NowIsNew
  <2>2. Anc(commits, x) \in SUBSET Nat
    BY CommitIs DEF Anc, Commit
  <2>3. QED
    BY <2>1, <2>2 DEF Commit
<1>4. QED
  BY <1>2, <1>3, NowIsNew DEF Made, RepoTyped, Now

\* ... or of two.
LEMMA CommitOnTwo ==
  ASSUME RepoTyped, NEW x \in DOMAIN commits, NEW y \in DOMAIN commits,
         NEW ledger \in [Patterns -> Row], NEW files \in [Patterns -> Texts], NEW extra \in Nat,
         NEW subject \in {"loop", "accept", "person"},
         Committed(<<x, y>>, ledger, files, extra, subject)
  PROVE  /\ commits' \in Seq(Commit)
         /\ Made(commits, commits', Anc(commits, x) \cup Anc(commits, y), ledger, files, extra,
                 subject)
<1> DEFINE new == [parents |-> <<x, y>>,
                   ancestors |-> {Now} \cup (Anc(commits, x) \cup Anc(commits, y)),
                   ledger |-> ledger, files |-> files, extra |-> extra, subject |-> subject]
<1>1. UNION {commits[<<x, y>>[i]].ancestors : i \in DOMAIN <<x, y>>}
        = Anc(commits, x) \cup Anc(commits, y)
  BY DEF Anc
<1>2. commits' = Append(commits, new)
  BY <1>1 DEF Committed
<1>3. new \in Commit
  <2>1. <<x, y>> \in Seq(Nat) /\ Now \in Nat
    BY NowIsNew
  <2>2. Anc(commits, x) \cup Anc(commits, y) \in SUBSET Nat
    BY CommitIs DEF Anc, Commit
  <2>3. QED
    BY <2>1, <2>2 DEF Commit
<1>4. QED
  BY <1>2, <1>3, NowIsNew DEF Made, RepoTyped, Now

\* A commit more, and references to commits: still a repository.
LEMMA RepoGrows ==
  ASSUME RepoTyped, NEW ancestors, NEW ledger, NEW files, NEW extra, NEW subject,
         commits' \in Seq(Commit),
         Made(commits, commits', ancestors, ledger, files, extra, subject),
         main' \in {main, Now}, held' \subseteq Patterns, checkout' = checkout,
         branch' = branch \/ \E p \in Patterns : branch' = [branch EXCEPT ![p] = Now]
  PROVE  RepoTyped'
<1>1. Len(commits') = Now /\ DOMAIN commits' = 1 .. Now
  BY NowIsNew DEF Made, Now
<1>2. QED
  BY <1>1, NowIsNew DEF RepoTyped

\* The commits that an operation of one commit makes are well typed.
LEMMA OnDefaultIs ==
  ASSUME RepoTyped, NEW p \in Patterns, NEW row \in Row, OnDefault(p, row)
  PROVE  /\ commits' \in Seq(Commit) /\ main' = Now
         /\ Made(commits, commits', Anc(commits, main), [Ledger(main) EXCEPT ![p] = row],
                 Files(main), commits[main].extra, "loop")
<1>1. main \in DOMAIN commits
  BY DEF RepoTyped
<1>2. [Ledger(main) EXCEPT ![p] = row] \in [Patterns -> Row]
  BY <1>1, CommitIs
<1>3. QED
  BY <1>1, <1>2, CommitIs, CommitOnOne DEF OnDefault

\* Where a branch is, or would begin, is a commit.
LEMMA StartIs ==
  ASSUME RepoTyped, NEW p \in Patterns
  PROVE  /\ Start(p) \in DOMAIN commits
         /\ Exists(p) => branch[p] \in DOMAIN commits
         /\ ~Exists(p) => branch[p] = 0
BY NowIsNew DEF RepoTyped, Start, Exists

\* An operation's commit on a branch is well typed.
LEMMA OnBranchIs ==
  ASSUME RepoTyped, NEW p \in Patterns, NEW row \in Row, NEW text \in Texts,
         OnBranch(p, row, text)
  PROVE  /\ commits' \in Seq(Commit) /\ branch' = [branch EXCEPT ![p] = Now]
         /\ Made(commits, commits', Anc(commits, Start(p)), [Ledger(Start(p)) EXCEPT ![p] = row],
                 [Files(Start(p)) EXCEPT ![p] = text], commits[Start(p)].extra, "loop")
<1>1. Start(p) \in DOMAIN commits
  BY StartIs
<1>2. PICK s : s = Start(p)
  OBVIOUS
<1>3. /\ [Ledger(s) EXCEPT ![p] = row] \in [Patterns -> Row]
      /\ [Files(s) EXCEPT ![p] = text] \in [Patterns -> Texts]
  BY <1>1, <1>2, CommitIs
<1>4. QED
  BY <1>1, <1>2, <1>3, CommitIs, CommitOnOne DEF OnBranch

------------------------------------------------------------------------------
(* Histories.                                                                 *)

\* The ancestors of a commit are older commits, itself and theirs.
DAG(h) ==
  \A c \in DOMAIN h :
    /\ c \in Anc(h, c) /\ Anc(h, c) \subseteq 1 .. c
    /\ \A d \in Anc(h, c) : Anc(h, d) \subseteq Anc(h, c)
    /\ h[c].extra <= c
    /\ h[c].subject = "person" => h[c].parents[1] \in 1 .. c - 1

\* What makes a block a person's doing: a commit of theirs on the branch that
\* is not in `x`, or one that changes the artifact.
PersonOn(h, b, x) == \E c \in Anc(h, b) \ Anc(h, x) : h[c].subject = "person"

Corrected(h, p) ==
  \E c \in DOMAIN h :
    h[c].subject = "person" /\ h[c].files[p] # h[h[c].parents[1]].files[p]

\* What the branch of `p` has at `b` fits the row and the artifacts at `m`.
Fits(h, p, b, m) ==
  /\ h[b].ledger[p].inline = h[m].ledger[p].inline
  /\ Served(h[m].ledger[p], h[m].files[p])
  /\ \A t \in Types : h[b].files[p][t] # NoText => t = EntryType(h[b].ledger[p])
  /\ \/ b = m
     \/ h[b].extra # h[m].extra
     \/ Drafted(h[b].ledger[p], h[b].files[p])

\* The branch of `p` at `b` left the line of `x` at `m`, and brings from there
\* nothing but the pattern's own. It fits what was there unless the pattern went
\* astray, which the patterns in `a` did.
Fork(h, p, x, b, m, a) ==
  /\ m \in Anc(h, x) /\ m \in Anc(h, b) /\ Anc(h, x) \cap Anc(h, b) \subseteq Anc(h, m)
  /\ \A q \in Patterns \ {p} : h[b].ledger[q] = h[m].ledger[q] /\ h[b].files[q] = h[m].files[q]
  /\ h[b].extra = h[m].extra \/ PersonOn(h, b, x)
  /\ h[x].files[p] = h[m].files[p] \/ Corrected(h, p)
  /\ Kept(h[x].ledger[p], h[m].ledger[p])
  /\ \/ b = m
     \/ h[b].extra # h[m].extra
     \/ Proposed(h[b].ledger[p])
  /\ p \in a \/ Fits(h, p, b, m)

\* A longer history holds the commits of the shorter one.
Grown(h, g) == Len(g) >= Len(h) /\ \A c \in DOMAIN h : g[c] = h[c]

\* A commit more makes a history longer.
LEMMA MadeGrows ==
  ASSUME NEW h \in Seq(Commit), NEW g \in Seq(Commit), NEW ancestors, NEW ledger, NEW files,
         NEW extra, NEW subject, Made(h, g, ancestors, ledger, files, extra, subject)
  PROVE  Grown(h, g) /\ DOMAIN g = DOMAIN h \cup {Len(h) + 1} /\ DOMAIN h = 1 .. Len(h)
         /\ Len(h) + 1 \notin DOMAIN h /\ Len(h) \in Nat
BY DEF Grown, Made

\* A commit on top of a set of commits that is closed under ancestors.
LEMMA DagGrows ==
  ASSUME NEW h \in Seq(Commit), NEW g \in Seq(Commit), DAG(h), NEW ancestors,
         NEW ledger, NEW files, NEW extra, NEW subject,
         Made(h, g, ancestors, ledger, files, extra, subject),
         ancestors \subseteq DOMAIN h, \A d \in ancestors : Anc(h, d) \subseteq ancestors,
         extra <= Len(h) + 1,
         subject = "person" => g[Len(h) + 1].parents[1] \in DOMAIN h
  PROVE  DAG(g)
<1> DEFINE n == Len(h) + 1
<1>1. DOMAIN g = DOMAIN h \cup {n} /\ DOMAIN h = 1 .. Len(h) /\ Len(h) \in Nat /\ n \notin DOMAIN h
  BY DEF Made
<1>2. Anc(g, n) = {n} \cup ancestors /\ \A c \in DOMAIN h : g[c] = h[c] /\ Anc(g, c) = Anc(h, c)
  BY DEF Made, Anc
<1>3. ASSUME NEW c \in DOMAIN h
      PROVE  /\ c \in Anc(g, c) /\ Anc(g, c) \subseteq 1 .. c
             /\ \A d \in Anc(g, c) : Anc(g, d) \subseteq Anc(g, c)
             /\ g[c].extra <= c
             /\ g[c].subject = "person" => g[c].parents[1] \in 1 .. c - 1
  <2>1. c \in Anc(h, c) /\ Anc(h, c) \subseteq 1 .. c
        /\ (\A d \in Anc(h, c) : Anc(h, d) \subseteq Anc(h, c)) /\ h[c].extra <= c
        /\ (h[c].subject = "person" => h[c].parents[1] \in 1 .. c - 1)
    BY DEF DAG
  <2>2. Anc(h, c) \subseteq DOMAIN h
    BY <1>1, <2>1
  <2>3. QED
    BY <1>2, <2>1, <2>2
<1>4. /\ n \in Anc(g, n) /\ Anc(g, n) \subseteq 1 .. n
      /\ \A d \in Anc(g, n) : Anc(g, d) \subseteq Anc(g, n)
      /\ g[n].extra <= n
      /\ g[n].subject = "person" => g[n].parents[1] \in 1 .. n - 1
  BY <1>1, <1>2 DEF Made
<1> HIDE DEF n
<1>5. QED
  BY <1>1, <1>3, <1>4 DEF DAG

\* The ancestors of a commit are commits, and stay what they are.
LEMMA AncestorsStay ==
  ASSUME NEW h \in Seq(Commit), NEW g \in Seq(Commit), DAG(h), Grown(h, g), NEW c \in DOMAIN h
  PROVE  Anc(h, c) \subseteq DOMAIN h /\ Anc(g, c) = Anc(h, c) /\ c \in Anc(h, c)
         /\ (\A d \in Anc(h, c) : Anc(h, d) \subseteq Anc(h, c)) /\ c \in DOMAIN g
BY DEF DAG, Grown, Anc

\* What persons did on a branch stays on it.
LEMMA PersonStays ==
  ASSUME NEW h \in Seq(Commit), NEW g \in Seq(Commit), DAG(h), Grown(h, g),
         NEW b \in DOMAIN h, NEW x \in DOMAIN h
  PROVE  PersonOn(g, b, x) <=> PersonOn(h, b, x)
BY AncestorsStay DEF PersonOn, Grown

\* A person's correction stays in the history.
LEMMA CorrectedStays ==
  ASSUME NEW h \in Seq(Commit), NEW g \in Seq(Commit), DAG(h), Grown(h, g), NEW p, Corrected(h, p)
  PROVE  Corrected(g, p)
<1>1. PICK c \in DOMAIN h :
        h[c].subject = "person" /\ h[c].files[p] # h[h[c].parents[1]].files[p]
  BY DEF Corrected
<1>2. h[c].parents[1] \in DOMAIN h
  BY <1>1 DEF DAG
<1>3. c \in DOMAIN g /\ g[c] = h[c] /\ g[h[c].parents[1]] = h[h[c].parents[1]]
  BY <1>2 DEF Grown
<1>4. QED
  BY <1>1, <1>3 DEF Corrected

\* Two lines that parted are parted the same way in a longer history.
LEMMA ForkStays ==
  ASSUME NEW h \in Seq(Commit), NEW g \in Seq(Commit), DAG(h), Grown(h, g), NEW p \in Patterns,
         NEW x \in DOMAIN h, NEW b \in DOMAIN h, NEW m \in DOMAIN h, NEW a, Fork(h, p, x, b, m, a)
  PROVE  Fork(g, p, x, b, m, a)
<1>1. g[x] = h[x] /\ g[b] = h[b] /\ g[m] = h[m]
  BY DEF Grown
<1>2. Anc(g, x) = Anc(h, x) /\ Anc(g, b) = Anc(h, b) /\ Anc(g, m) = Anc(h, m)
  BY AncestorsStay
<1>3. (PersonOn(h, b, x) => PersonOn(g, b, x)) /\ (Corrected(h, p) => Corrected(g, p))
  BY PersonStays, CorrectedStays
<1>4. Fits(h, p, b, m) => Fits(g, p, b, m)
  BY <1>1 DEF Fits
<1>5. QED
  BY <1>1, <1>2, <1>3, <1>4 DEF Fork

\* ... and for whoever goes astray.
LEMMA ForkAstray ==
  ASSUME NEW h, NEW p, NEW x, NEW b, NEW m, NEW a, Fork(h, p, x, b, m, a), NEW c, a \subseteq c
  PROVE  Fork(h, p, x, b, m, c)
BY DEF Fork

\* What is served is kept, and a step further.
LEMMA KeptOn ==
  ASSUME NEW row, NEW was, NEW first, Kept(row, was), Kept(was, first)
  PROVE  Kept(row, first)
BY DEF Kept

\* The line of `x` goes on: a commit that keeps what is live of the pattern.
LEMMA ForkFromMain ==
  ASSUME NEW h \in Seq(Commit), NEW g \in Seq(Commit), DAG(h), NEW p \in Patterns,
         NEW x \in DOMAIN h, NEW b \in DOMAIN h, NEW m \in DOMAIN h, NEW a, Fork(h, p, x, b, m, a),
         NEW ledger, NEW files, NEW extra, NEW subject,
         Made(h, g, Anc(h, x), ledger, files, extra, subject),
         Kept(ledger[p], h[x].ledger[p]),
         files[p] = h[x].files[p] \/ Corrected(g, p)
  PROVE  Fork(g, p, Len(h) + 1, b, m, a)
<1> DEFINE n == Len(h) + 1
<1>1. Grown(h, g) /\ n \notin DOMAIN h
  BY MadeGrows
<1>2. Fork(g, p, x, b, m, a)
  BY <1>1, ForkStays
<1>3. g[x] = h[x] /\ Anc(g, x) = Anc(h, x) /\ Anc(g, n) = {n} \cup Anc(g, x) /\ n \notin Anc(g, b)
  <2>1. Anc(g, x) = Anc(h, x) /\ Anc(g, b) = Anc(h, b) /\ Anc(h, b) \subseteq DOMAIN h
    BY <1>1, AncestorsStay
  <2>2. g[x] = h[x] /\ Anc(g, n) = {n} \cup Anc(h, x)
    BY DEF Made, Anc
  <2>3. QED
    BY <1>1, <2>1, <2>2
<1>4. g[n].ledger = ledger /\ g[n].files = files
  BY DEF Made
<1> HIDE DEF n
<1>5. Kept(g[n].ledger[p], g[m].ledger[p])
  BY <1>2, <1>3, <1>4, KeptOn DEF Fork
<1>6. g[n].files[p] = g[m].files[p] \/ Corrected(g, p)
  BY <1>2, <1>3, <1>4 DEF Fork
<1>7. PersonOn(g, b, x) => PersonOn(g, b, n)
  BY <1>3 DEF PersonOn
<1>8. m \in Anc(g, n) /\ Anc(g, n) \cap Anc(g, b) \subseteq Anc(g, m)
  BY <1>2, <1>3 DEF Fork
<1>9. Fork(g, p, n, b, m, a)
  BY <1>2, <1>5, <1>6, <1>7, <1>8 DEF Fork
<1>10. QED
  BY <1>9 DEF n

\* The branch goes on: with the pattern's own row and text, or a person's work.
LEMMA ForkFromBranch ==
  ASSUME NEW h \in Seq(Commit), NEW g \in Seq(Commit), DAG(h), NEW p \in Patterns,
         NEW x \in DOMAIN h, NEW b \in DOMAIN h, NEW m \in DOMAIN h, NEW a, Fork(h, p, x, b, m, a),
         NEW ledger, NEW files, NEW extra, NEW subject,
         Made(h, g, Anc(h, b), ledger, files, extra, subject),
         \A q \in Patterns \ {p} : ledger[q] = h[b].ledger[q] /\ files[q] = h[b].files[q],
         \/ extra = h[b].extra /\ (Proposed(ledger[p]) \/ extra # h[m].extra)
         \/ extra = Len(h) + 1 /\ subject = "person",
         \/ p \in a
         \/ /\ ledger[p].inline = h[b].ledger[p].inline
            /\ \A t \in Types : files[p][t] # NoText => t = EntryType(ledger[p])
            /\ \/ Drafted(ledger[p], files[p])
               \/ extra # h[m].extra
               \/ extra = Len(h) + 1
  PROVE  Fork(g, p, x, Len(h) + 1, m, a)
<1> DEFINE n == Len(h) + 1
<1>1. Grown(h, g) /\ n \notin DOMAIN h /\ DOMAIN h = 1 .. Len(h) /\ Len(h) \in Nat
  BY MadeGrows
<1>2. Fork(g, p, x, b, m, a)
  BY <1>1, ForkStays
<1>3. /\ g[b] = h[b] /\ g[m] = h[m] /\ Anc(g, n) = {n} \cup Anc(g, b) /\ n \notin Anc(g, x)
      /\ h[m].extra <= m /\ h[m].extra # n
  <2>1. Anc(g, b) = Anc(h, b) /\ Anc(g, x) = Anc(h, x) /\ Anc(h, x) \subseteq DOMAIN h
    BY <1>1, AncestorsStay
  <2>2. g[b] = h[b] /\ g[m] = h[m] /\ Anc(g, n) = {n} \cup Anc(h, b)
    BY DEF Made, Anc
  <2>3. h[m].extra <= m
    BY DEF DAG
  <2>4. h[m] \in Commit
    OBVIOUS
  <2>5. h[m].extra \in Nat
    BY <2>4 DEF Commit
  <2>6. h[m].extra # n
    BY <1>1, <2>3, <2>5
  <2>7. QED
    BY <1>1, <2>1, <2>2, <2>3, <2>6
<1>4. g[n].ledger = ledger /\ g[n].files = files /\ g[n].extra = extra /\ g[n].subject = subject
  BY DEF Made
<1> HIDE DEF n
<1>5. PersonOn(g, b, x) => PersonOn(g, n, x)
  BY <1>3 DEF PersonOn
<1>6. subject = "person" => PersonOn(g, n, x)
  BY <1>3, <1>4 DEF PersonOn
<1>7. m \in Anc(g, n) /\ Anc(g, x) \cap Anc(g, n) \subseteq Anc(g, m)
  BY <1>2, <1>3 DEF Fork
<1>8. g[n].extra = g[m].extra \/ PersonOn(g, n, x)
  BY <1>2, <1>3, <1>4, <1>5, <1>6 DEF Fork, n
<1>9. \/ n = m
      \/ g[n].extra # g[m].extra
      \/ Proposed(g[n].ledger[p])
  BY <1>3, <1>4 DEF n
<1>10. \A q \in Patterns \ {p} :
         g[n].ledger[q] = g[m].ledger[q] /\ g[n].files[q] = g[m].files[q]
  BY <1>2, <1>3, <1>4 DEF Fork
<1>11. p \in a \/ Fits(g, p, n, m)
  <2>1. SUFFICES ASSUME p \notin a PROVE Fits(g, p, n, m)
    OBVIOUS
  <2>2. Fits(g, p, b, m)
    BY <1>2, <2>1 DEF Fork
  <2>3. QED
    BY <1>3, <1>4, <2>1, <2>2 DEF Fits
<1>12. Fork(g, p, x, n, m, a)
  BY <1>2, <1>7, <1>8, <1>9, <1>10, <1>11 DEF Fork
<1>13. QED
  BY <1>12 DEF n

\* A branch at a commit that the line itself is at.
LEMMA ForkHere ==
  ASSUME NEW h \in Seq(Commit), DAG(h), NEW p \in Patterns, NEW x \in DOMAIN h, NEW a,
         p \in a \/ Served(h[x].ledger[p], h[x].files[p]), h[x].ledger[p] \in Row
  PROVE  Fork(h, p, x, x, x, a)
<1>1. x \in Anc(h, x)
  BY DEF DAG
<1>2. Served(h[x].ledger[p], h[x].files[p]) => Fits(h, p, x, x)
  BY ReviewAssumption DEF Served, EntryType, Fits
<1>3. QED
  BY <1>1, <1>2 DEF Fork, Kept

\* The line takes over another pattern's branch: up to a commit `y` of it.
LEMMA ForkFromMerge ==
  ASSUME NEW h \in Seq(Commit), DAG(h), NEW p \in Patterns, NEW x \in DOMAIN h,
         NEW y \in DOMAIN h, NEW b \in DOMAIN h, NEW m \in DOMAIN h, NEW a, Fork(h, p, x, b, m, a),
         Anc(h, x) \subseteq Anc(h, y), Anc(h, y) \cap Anc(h, b) \subseteq Anc(h, x),
         h[y].ledger[p] = h[x].ledger[p], h[y].files[p] = h[x].files[p]
  PROVE  Fork(h, p, y, b, m, a)
<1>1. PersonOn(h, b, x) => PersonOn(h, b, y)
  BY DEF PersonOn
<1>2. m \in Anc(h, y) /\ Anc(h, y) \cap Anc(h, b) \subseteq Anc(h, m)
  BY DEF Fork
<1>3. QED
  BY <1>1, <1>2 DEF Fork

\* The commit of a fork is where git says that the two lines parted.
LEMMA MergeBaseIs ==
  ASSUME RepoTyped, DAG(commits), NEW x \in DOMAIN commits, NEW b \in DOMAIN commits,
         NEW m \in DOMAIN commits, m \in Anc(commits, x), m \in Anc(commits, b),
         Anc(commits, x) \cap Anc(commits, b) \subseteq Anc(commits, m)
  PROVE  MergeBase(x, b) = m
<1> DEFINE common == commits[x].ancestors \cap commits[b].ancestors
           Base(c) == \A d \in common : IsAncestor(d, c)
<1>1. m \in common /\ Base(m)
  BY DEF Anc, IsAncestor
<1>2. ASSUME NEW c \in common, Base(c)
      PROVE  c = m
  <2>1. m \in Anc(commits, c) /\ c \in Anc(commits, m)
    BY <1>1, <1>2 DEF IsAncestor, Anc
  <2>2. c \in DOMAIN commits
    BY AncestorsStay, NowIsNew DEF RepoTyped, Anc, DAG
  <2>3. Anc(commits, c) \subseteq 1 .. c /\ Anc(commits, m) \subseteq 1 .. m
        /\ c \in Nat /\ m \in Nat
    BY <2>2, NowIsNew DEF DAG
  <2>4. QED
    BY <2>1, <2>3
<1>3. MergeBase(x, b) = CHOOSE c \in common : Base(c)
  BY DEF MergeBase
<1>4. QED
  BY <1>1, <1>2, <1>3

------------------------------------------------------------------------------
(* The repository: what every branch brings, and what the default branch has. *)

Forks ==
  \A p \in Patterns :
    Exists(p) => \E m \in DOMAIN commits : Fork(commits, p, main, branch[p], m, astray)

\* Two branches share nothing but what the default branch has.
Apart ==
  \A p, q \in Patterns :
    p # q /\ Exists(p) /\ Exists(q)
    => Anc(commits, branch[p]) \cap Anc(commits, branch[q]) \subseteq Anc(commits, main)

MainServed == \A p \in Patterns : p \in astray \/ Served(Live(p), Files(main)[p])

Git == DAG(commits) /\ Forks /\ Apart /\ MainServed

\* Nothing moves, but somebody may go astray.
LEMMA RepoStays ==
  ASSUME Git, UNCHANGED <<commits, main, branch>>, astray \subseteq astray'
  PROVE  Git'
<1>1. Forks'
  <2>1. SUFFICES ASSUME NEW p \in Patterns, Exists(p)
                 PROVE  \E m \in DOMAIN commits : Fork(commits, p, main, branch[p], m, astray')
    BY DEF Forks, Exists
  <2>2. PICK m \in DOMAIN commits : Fork(commits, p, main, branch[p], m, astray)
    BY <2>1 DEF Git, Forks
  <2>3. QED
    BY <2>2, ForkAstray
<1>2. QED
  BY <1>1 DEF Git, Apart, MainServed, Live, Ledger, Files, Exists

\* A commit on the default branch.
LEMMA MainGoesOn ==
  ASSUME RepoTyped, Git, NEW ledger, NEW files, NEW extra, NEW subject, commits' \in Seq(Commit),
         Made(commits, commits', Anc(commits, main), ledger, files, extra, subject),
         main' = Now, branch' = branch, astray' = astray,
         extra <= Now, subject = "person" => commits'[Now].parents[1] = main,
         \A q \in Patterns : /\ q \in astray \/ Served(ledger[q], files[q])
                             /\ Exists(q) => Kept(ledger[q], Live(q))
                             /\ \/ files[q] = Files(main)[q]
                                \/ subject = "person"
  PROVE  Git'
<1> PICK x, h, g, b, a : x = main /\ h = commits /\ g = commits' /\ b = branch /\ a = astray
  OBVIOUS
<1> DEFINE n == Len(h) + 1
<1>1. /\ h \in Seq(Commit) /\ g \in Seq(Commit) /\ x \in DOMAIN h /\ n = Now /\ DAG(h)
      /\ Made(h, g, Anc(h, x), ledger, files, extra, subject)
  BY DEF Git, RepoTyped, Now
<1>2. Grown(h, g) /\ DOMAIN g = DOMAIN h \cup {n} /\ n \notin DOMAIN h
  BY <1>1, MadeGrows
<1>3. DAG(g)
  BY <1>1, DagGrows, AncestorsStay, <1>2
<1>4. Anc(g, n) = {n} \cup Anc(h, x) /\ Anc(g, x) = Anc(h, x) /\ g[n].files = files
      /\ g[n].ledger = ledger /\ g[x] = h[x] /\ g[n].subject = subject
  BY <1>1, <1>2, AncestorsStay DEF Made, Anc
<1>5. ASSUME NEW q \in Patterns, b[q] # 0
      PROVE  \E m \in DOMAIN g : Fork(g, q, n, b[q], m, a)
  <2>1. b[q] \in DOMAIN h
    BY <1>5, StartIs DEF Exists
  <2>2. PICK m \in DOMAIN h : Fork(h, q, x, b[q], m, a)
    BY <1>5 DEF Git, Forks, Exists
  <2>3. Kept(ledger[q], h[x].ledger[q])
    BY <1>5 DEF Exists, Live, Ledger
  <2>4. CASE files[q] = h[x].files[q]
    <3>1. Fork(g, q, n, b[q], m, a)
      BY <1>1, <2>1, <2>2, <2>3, <2>4, ForkFromMain
    <3>2. QED
      BY <1>2, <3>1
  <2>5. CASE subject = "person" /\ files[q] # h[x].files[q]
    <3>1. g[n].parents[1] = x
      BY <1>1, <2>5
    <3>2. Corrected(g, q)
      BY <1>2, <1>4, <2>5, <3>1 DEF Corrected
    <3>3. Fork(g, q, n, b[q], m, a)
      BY <1>1, <2>1, <2>2, <2>3, <3>2, ForkFromMain
    <3>4. QED
      BY <1>2, <3>3
  <2>6. QED
    BY <2>4, <2>5 DEF Files
<1>6. ASSUME NEW p \in Patterns, NEW q \in Patterns, p # q, b[p] # 0, b[q] # 0
      PROVE  Anc(g, b[p]) \cap Anc(g, b[q]) \subseteq Anc(g, n)
  <2>1. b[p] \in DOMAIN h /\ b[q] \in DOMAIN h
    BY <1>6, StartIs DEF Exists
  <2>2. Anc(g, b[p]) = Anc(h, b[p]) /\ Anc(g, b[q]) = Anc(h, b[q])
    BY <1>1, <1>2, <2>1, AncestorsStay
  <2>3. Anc(h, b[p]) \cap Anc(h, b[q]) \subseteq Anc(h, x)
    BY <1>6 DEF Git, Apart, Exists
  <2>4. QED
    BY <1>4, <2>2, <2>3
<1> HIDE DEF n
<1>7. DAG(commits)'
  BY <1>3
<1>8. Forks'
  BY <1>1, <1>5 DEF Forks, Exists
<1>9. Apart'
  BY <1>1, <1>6 DEF Apart, Exists
<1>10. MainServed'
  BY <1>1, <1>4 DEF MainServed, Live, Ledger, Files
<1>11. QED
  BY <1>7, <1>8, <1>9, <1>10 DEF Git

\* The branch of `p` moves to a commit, or goes.
Moved(p, c) == branch' = [branch EXCEPT ![p] = c]

\* The branch of `p` moves to a new commit.
LEMMA BranchMoves ==
  ASSUME RepoTyped, Git, NEW p \in Patterns, NEW ancestors, NEW ledger, NEW files, NEW extra,
         NEW subject, commits' \in Seq(Commit), DAG(commits'),
         Made(commits, commits', ancestors, ledger, files, extra, subject),
         main' = main, astray' = astray, Moved(p, Now),
         NEW m \in DOMAIN commits, Fork(commits', p, main, Now, m, astray),
         \A q \in Patterns \ {p} :
           Exists(q) => ancestors \cap Anc(commits, branch[q]) \subseteq Anc(commits, main)
  PROVE  Git'
<1> PICK x, h, g, b, a : x = main /\ h = commits /\ g = commits' /\ b = branch /\ a = astray
  OBVIOUS
<1> DEFINE n == Len(h) + 1
<1>1. /\ h \in Seq(Commit) /\ g \in Seq(Commit) /\ x \in DOMAIN h /\ n = Now /\ DAG(h)
      /\ Made(h, g, ancestors, ledger, files, extra, subject) /\ DAG(g) /\ Fork(g, p, x, n, m, a)
  BY DEF Git, RepoTyped, Now
<1>2. Grown(h, g) /\ DOMAIN g = DOMAIN h \cup {n} /\ n \notin DOMAIN h
  BY <1>1, MadeGrows
<1>3. Anc(g, n) = {n} \cup ancestors /\ Anc(g, x) = Anc(h, x) /\ g[x] = h[x]
  BY <1>1, <1>2, AncestorsStay DEF Made, Anc
<1>4. \A q \in Patterns : b[q] # 0 => b[q] \in DOMAIN h /\ Anc(g, b[q]) = Anc(h, b[q])
                                       /\ n \notin Anc(g, b[q])
  <2>1. \A q \in Patterns : b[q] # 0 => b[q] \in DOMAIN h
    BY StartIs DEF Exists
  <2>2. QED
    BY <1>1, <1>2, <2>1, AncestorsStay
<1>5. ASSUME NEW q \in Patterns \ {p}, b[q] # 0
      PROVE  /\ \E k \in DOMAIN g : Fork(g, q, x, b[q], k, a)
             /\ Anc(g, n) \cap Anc(g, b[q]) \subseteq Anc(g, x)
  <2>1. PICK k \in DOMAIN h : Fork(h, q, x, b[q], k, a)
    BY <1>5 DEF Git, Forks, Exists
  <2>2. Fork(g, q, x, b[q], k, a)
    BY <1>1, <1>2, <1>4, <1>5, <2>1, ForkStays
  <2>3. Anc(g, n) \cap Anc(g, b[q]) \subseteq Anc(g, x)
    BY <1>3, <1>4, <1>5 DEF Exists
  <2>4. QED
    BY <1>2, <2>1, <2>2, <2>3
<1>6. ASSUME NEW q \in Patterns \ {p}, NEW r \in Patterns \ {p}, q # r, b[q] # 0, b[r] # 0
      PROVE  Anc(g, b[q]) \cap Anc(g, b[r]) \subseteq Anc(g, x)
  BY <1>3, <1>4, <1>6 DEF Git, Apart, Exists
<1> HIDE DEF n
<1>7. \A q \in Patterns : branch'[q] = IF q = p THEN n ELSE b[q]
  BY <1>1 DEF RepoTyped, Moved
<1>8. Forks'
  BY <1>1, <1>2, <1>5, <1>7 DEF Forks, Exists
<1>9. Apart'
  <2>1. SUFFICES ASSUME NEW q \in Patterns, NEW r \in Patterns, q # r,
                        branch'[q] # 0, branch'[r] # 0
                 PROVE  Anc(g, branch'[q]) \cap Anc(g, branch'[r]) \subseteq Anc(g, x)
    BY DEF Apart, Exists
  <2>2. CASE q = p
    BY <1>5, <1>7, <2>1, <2>2
  <2>3. CASE r = p
    BY <1>5, <1>7, <2>1, <2>3
  <2>4. CASE q # p /\ r # p
    BY <1>6, <1>7, <2>1, <2>4
  <2>5. QED
    BY <2>2, <2>3, <2>4
<1>10. MainServed'
  BY <1>3 DEF Git, MainServed, Live, Ledger, Files
<1>11. QED
  BY <1>1, <1>8, <1>9, <1>10 DEF Git

\* Where a branch is, or would begin, there is a fork.
LEMMA StartForks ==
  ASSUME RepoTyped, Git, NEW p \in Patterns
  PROVE  \E m \in DOMAIN commits : Fork(commits, p, main, Start(p), m, astray)
<1>1. CASE Exists(p)
  BY <1>1 DEF Git, Forks, Start
<1>2. CASE ~Exists(p)
  <2>1. PICK x, h, a : x = main /\ h = commits /\ a = astray
    OBVIOUS
  <2>2. /\ h \in Seq(Commit) /\ DAG(h) /\ x \in DOMAIN h
        /\ p \in a \/ Served(h[x].ledger[p], h[x].files[p])
        /\ h[x].ledger[p] \in Row
    BY <2>1, CommitIs DEF RepoTyped, Git, MainServed, Live, Ledger, Files
  <2>3. Fork(h, p, x, x, x, a)
    BY <2>2, ForkHere
  <2>4. QED
    BY <1>2, <2>1, <2>2, <2>3 DEF Start
<1>3. QED
  BY <1>1, <1>2

\* A commit on a branch, or on the default branch for a branch that is not there.
LEMMA BranchGoesOn ==
  ASSUME RepoTyped, Git, NEW p \in Patterns, NEW ledger, NEW files, NEW extra, NEW subject,
         commits' \in Seq(Commit),
         Made(commits, commits', Anc(commits, Start(p)), ledger, files, extra, subject),
         main' = main, astray' = astray, Moved(p, Now),
         subject = "person" => commits'[Now].parents[1] = Start(p),
         \A q \in Patterns \ {p} :
           ledger[q] = Ledger(Start(p))[q] /\ files[q] = Files(Start(p))[q],
         NEW m \in DOMAIN commits, Fork(commits, p, main, Start(p), m, astray),
         \/ /\ extra = commits[Start(p)].extra
            /\ Proposed(ledger[p]) \/ extra # commits[m].extra
         \/ extra = Now /\ subject = "person",
         \/ p \in astray
         \/ /\ ledger[p].inline = Ledger(Start(p))[p].inline
            /\ \A t \in Types : files[p][t] # NoText => t = EntryType(ledger[p])
            /\ Drafted(ledger[p], files[p]) \/ extra # commits[m].extra \/ extra = Now
  PROVE  Git'
<1> PICK x, h, g, s, a :
      x = main /\ h = commits /\ g = commits' /\ s = Start(p) /\ a = astray
  OBVIOUS
<1> DEFINE n == Len(h) + 1
<1>1. /\ h \in Seq(Commit) /\ g \in Seq(Commit) /\ x \in DOMAIN h /\ n = Now /\ DAG(h)
      /\ Made(h, g, Anc(h, s), ledger, files, extra, subject) /\ s \in DOMAIN h
  BY StartIs DEF Git, RepoTyped, Now
<1>2. Grown(h, g) /\ DOMAIN g = DOMAIN h \cup {n} /\ n \notin DOMAIN h
  BY <1>1, MadeGrows
<1>3. n \in Nat
  BY <1>1
<1>4. DAG(g)
  <2>1. extra <= n
    <3>1. h[s].extra <= s /\ s <= n
      BY <1>1, NowIsNew DEF DAG
    <3>2. h[s].extra \in Nat
      BY <1>1, CommitIs
    <3>3. QED
      BY <1>1, <1>3, <3>1, <3>2, NowIsNew
  <2>2. QED
    BY <1>1, <1>2, <2>1, DagGrows, AncestorsStay
<1>5. Fork(g, p, x, n, m, a)
  <2>1. m \in DOMAIN h /\ Fork(h, p, x, s, m, a)
    OBVIOUS
  <2>2. \A q \in Patterns \ {p} : ledger[q] = h[s].ledger[q] /\ files[q] = h[s].files[q]
    BY <1>1 DEF Ledger, Files
  <2>3. \/ extra = h[s].extra /\ (Proposed(ledger[p]) \/ extra # h[m].extra)
        \/ extra = n /\ subject = "person"
    BY <1>1
  <2>4. \/ p \in a
        \/ /\ ledger[p].inline = h[s].ledger[p].inline
           /\ \A t \in Types : files[p][t] # NoText => t = EntryType(ledger[p])
           /\ Drafted(ledger[p], files[p]) \/ extra # h[m].extra \/ extra = n
    BY <1>1 DEF Ledger
  <2>5. QED
    BY <1>1, <2>1, <2>2, <2>3, <2>4, ForkFromBranch
<1>6. \A q \in Patterns \ {p} :
        Exists(q) => Anc(h, s) \cap Anc(h, branch[q]) \subseteq Anc(h, x)
  BY DEF Start, Git, Apart
<1> HIDE DEF n
<1>7. QED
  BY <1>1, <1>4, <1>5, <1>6, BranchMoves

\* The default branch takes over what a pattern's branch has, up to `y`.
LEMMA MainMerges ==
  ASSUME RepoTyped, Git, NEW p \in Patterns, NEW y \in DOMAIN commits, Exists(p),
         commits' = commits, branch' = branch, main' = y, astray' = astray,
         y \in Anc(commits, branch[p]), main \in Anc(commits, y),
         \A q \in Patterns \ {p} : Ledger(y)[q] = Live(q) /\ Files(y)[q] = Files(main)[q],
         p \in astray \/ Served(Ledger(y)[p], Files(y)[p]),
         NEW k \in DOMAIN commits, Fork(commits, p, y, branch[p], k, astray)
  PROVE  Git'
<1> PICK x, h, b, a : x = main /\ h = commits /\ b = branch /\ a = astray
  OBVIOUS
<1>1. /\ x \in DOMAIN h /\ y \in DOMAIN h /\ h \in Seq(Commit) /\ DAG(h)
      /\ Anc(h, x) \subseteq Anc(h, y) /\ Anc(h, y) \subseteq Anc(h, b[p])
  BY StartIs DEF RepoTyped, Git, DAG
<1>2. ASSUME NEW q \in Patterns \ {p}, b[q] # 0
      PROVE  /\ Anc(h, y) \cap Anc(h, b[q]) \subseteq Anc(h, x)
             /\ \E m \in DOMAIN h : Fork(h, q, y, b[q], m, a)
  <2>1. Anc(h, y) \cap Anc(h, b[q]) \subseteq Anc(h, x)
    BY <1>1, <1>2 DEF Git, Apart, Exists
  <2>2. PICK m \in DOMAIN h : Fork(h, q, x, b[q], m, a)
    BY <1>2 DEF Git, Forks, Exists
  <2>3. b[q] \in DOMAIN h
    BY <1>2, StartIs DEF Exists
  <2>4. h[y].ledger[q] = h[x].ledger[q] /\ h[y].files[q] = h[x].files[q]
    BY DEF Live, Ledger, Files
  <2>5. Fork(h, q, y, b[q], m, a)
    BY <1>1, <2>1, <2>2, <2>3, <2>4, ForkFromMerge
  <2>6. QED
    BY <2>1, <2>5
<1>3. Forks'
  BY <1>2 DEF Forks, Exists
<1>4. Apart'
  BY <1>1 DEF Apart, Exists, Git
<1>5. MainServed'
  BY <1>1 DEF MainServed, Live, Ledger, Files, Git
<1>6. QED
  BY <1>3, <1>4, <1>5 DEF Git

\* A branch goes, or is set to the default branch.
LEMMA BranchGoes ==
  ASSUME RepoTyped, Git, NEW p \in Patterns, commits' = commits, main' = main, astray \subseteq astray',
         \/ branch' = branch
         \/ branch' = [branch EXCEPT ![p] = 0]
         \/ branch' = [branch EXCEPT ![p] = main]
  PROVE  Git'
<1> PICK x, h, b, a : x = main /\ h = commits /\ b = branch /\ a = astray
  OBVIOUS
<1>1. x \in DOMAIN h /\ h \in Seq(Commit) /\ DAG(h) /\ \A q \in Patterns : h[x].ledger[q] \in Row
  BY CommitIs DEF RepoTyped, Git, Ledger
<1>2. \A q \in Patterns : branch'[q] = b[q] \/ branch'[q] = 0 \/ branch'[q] = x
  BY DEF RepoTyped
<1>3. \A q \in Patterns : q \in a \/ Served(h[x].ledger[q], h[x].files[q])
  BY DEF Git, MainServed, Live, Ledger, Files
<1>4. \A q \in Patterns : Fork(h, q, x, x, x, a)
  BY <1>1, <1>3, ForkHere
<1>5. Forks'
  <2>1. SUFFICES ASSUME NEW q \in Patterns, branch'[q] # 0
                 PROVE  \E m \in DOMAIN h : Fork(h, q, x, branch'[q], m, astray')
    BY DEF Forks, Exists
  <2>2. PICK m \in DOMAIN h : Fork(h, q, x, branch'[q], m, a)
    BY <1>1, <1>2, <1>4, <2>1 DEF Forks, Exists, Git
  <2>3. QED
    BY <2>2, ForkAstray
<1>6. Apart'
  BY <1>1, <1>2 DEF Apart, Exists, Git
<1>7. MainServed'
  BY DEF MainServed, Live, Ledger, Files, Git
<1>8. QED
  BY <1>5, <1>6, <1>7 DEF Git

------------------------------------------------------------------------------
(* The inductive invariant: the repository, and what an operation under way   *)
(* still knows of it.                                                         *)

\* An accept has checked the branch at `tip` against `base`; the default branch
\* may have moved to `x` since, by a person's commits alone.
Reviewed(h, p, base, tip, m, x, a) ==
  /\ base \in DOMAIN h /\ tip \in DOMAIN h /\ m \in DOMAIN h
  /\ Anc(h, base) \subseteq Anc(h, x)
  /\ Anc(h, x) \cap Anc(h, tip) \subseteq Anc(h, base)
  /\ x = base \/ x \notin Anc(h, tip) \cup Anc(h, base)
  /\ h[x].ledger = h[base].ledger
  /\ h[x].files[p] = h[base].files[p] \/ Corrected(h, p)
  /\ p \in a \/ Served(h[base].ledger[p], h[base].files[p])
  /\ ~h[base].ledger[p].inline
  /\ tip \notin Anc(h, base)
  /\ h[tip].files[p][EntryType(h[tip].ledger[p])] # Stub
  /\ h[tip].extra = h[m].extra
  /\ Fork(h, p, base, tip, m, a)

\* A commit `new` on the base `old` that takes over, of one artifact, what the
\* commit `tip` changed of it since `left`.
TakesOver(new, old, tip, left, p, made) ==
  /\ new.ledger = [old.ledger EXCEPT ![p] = AcceptedRow(tip.ledger[p], @, made)]
  /\ new.files =
       [old.files EXCEPT ![p] = [t \in Types |->
          IF tip.files[p][t] # left.files[p][t] THEN tip.files[p][t] ELSE @[t]]]

\* The prepared commit brings the base into the reviewed branch, now at `b`.
Joined(h, p, base, tip, m, x, made, b, a) ==
  /\ made \in DOMAIN h /\ b \in DOMAIN h
  /\ Anc(h, made) = {made} \cup Anc(h, tip) \cup Anc(h, base)
  /\ made \notin Anc(h, x)
  /\ TakesOver(h[made], h[base], h[tip], h[m], p, made)
  /\ p \in a \/ Served(h[made].ledger[p], h[made].files[p])
  /\ Fork(h, p, made, b, made, a)
  /\ h[b].ledger[p] = h[made].ledger[p]

AcceptInv ==
  op.kind = "accept" =>
    /\ op.seen.base = op.base /\ op.seen.tip = op.tip
    /\ \E m \in DOMAIN commits :
         /\ Reviewed(commits, op.pattern, op.base, op.tip, m, main, astray)
         /\ op.step = "merge" => Joined(commits, op.pattern, op.base, op.tip, m, main, op.made,
                                        branch[op.pattern], astray)

\* What a tick that planned from the default branch's rows still knows of them.
PlannedFrom(p) ==
  /\ ~Live(p).inline /\ op.prior = Live(p)
  /\ op.step = "reset" => op.staged = Staged(p)
  /\ op.step = "commit" =>
       LET row == Ledger(Start(p))[p]
       IN  /\ row = IF Migrating(op.staged, op.prior) THEN op.staged ELSE op.prior
           /\ Known(row) \/ \A t \in Types : Files(Start(p))[p][t] = NoText
  /\ op.step = "merge" => Served(Staged(p), Files(branch[p])[p])

\* A tick plans nothing that was refused, and merges what it staged.
TickInv ==
  op.kind = "tick" =>
    /\ refused[op.pattern] <= Watermark(Live(op.pattern))
    /\ op.step = "merge" => Exists(op.pattern)
    /\ op.pattern \in astray \/ PlannedFrom(op.pattern)

\* What was refused is in the ledger before the branch goes.
DropInv ==
  op.kind = "drop" => refused[op.pattern] <= Watermark(Live(op.pattern))

\* What a person looks at is not merged, and what is revised is no retirement.
ScreenInv ==
  screen # Blank =>
    /\ screen.base \in DOMAIN commits /\ screen.tip \in DOMAIN commits
    /\ screen.tip \notin Anc(commits, screen.base)
    /\ screen.revising => Ledger(screen.tip)[screen.pattern].status # "retired"

\* The default branch remembers what was refused, unless that is a retirement
\* which waits to be merged. The retirement remembers it then.
Remembers(p) ==
  \/ refused[p] <= Watermark(Live(p))
  \/ Staged(p).status = "retired" /\ ~Merged(p)

RetirementRemembers(p) ==
  Staged(p).status = "retired" => retiring[p] <= Watermark(Staged(p))

Mark(p) ==
  /\ retiring[p] <= refused[p] /\ refused[p] <= count[p]
  /\ Remembers(p)
  /\ RetirementRemembers(p)

Marks == \A p \in Patterns : Mark(p)

Inv == Typed /\ Git /\ AcceptInv /\ TickInv /\ DropInv /\ ScreenInv /\ Marks

\* An operation that is over owes nothing.
LEMMA OverIsFine ==
  ASSUME op' = Idle
  PROVE  AcceptInv' /\ TickInv' /\ DropInv'
BY DEF Idle, AcceptInv, TickInv, DropInv

\* The kinds of an operation.
LEMMA OpIs ==
  ASSUME Typed
  PROVE  /\ op.kind = "accept" => op \in AcceptOp
         /\ op.kind = "drop" => op \in DropOp
         /\ op.kind = "tick" => op \in TickOp
         /\ IsIdle <=> op.kind = "idle"
         /\ op.kind \in {"idle", "accept", "drop", "tick"}
BY DEF Typed, AcceptOp, DropOp, TickOp, Idle, IsIdle

\* Rows are rows.
LEMMA RowsAre ==
  ASSUME Typed, NEW p \in Patterns
  PROVE  /\ Live(p) \in Row /\ Staged(p) \in Row /\ Watermark(Live(p)) \in Nat
         /\ Watermark(Staged(p)) \in Nat /\ Seen(p) \in Row
         /\ count[p] \in Nat /\ refused[p] \in Nat /\ retiring[p] \in Nat
         /\ Exists(p) => Staged(p) = Ledger(branch[p])[p]
         /\ ~Exists(p) => Staged(p) = NoRow
<1>1. RepoTyped /\ count[p] \in Nat /\ refused[p] \in Nat /\ retiring[p] \in Nat
  BY DEF Typed
<1>2. Live(p) \in Row
  BY <1>1, CommitIs DEF RepoTyped, Live
<1>3. Staged(p) \in Row
  BY <1>1, CommitIs, StartIs, NoRowIs DEF Staged, Exists
<1>4. Seen(p) \in Row
  BY <1>1, CommitIs, NowIsNew DEF RepoTyped, Seen, CheckedOut
<1>5. QED
  BY <1>1, <1>2, <1>3, <1>4, Marked DEF Staged, Exists

\* The rows of commits that stay, after a commit more.
LEMMA RowsNext ==
  ASSUME RepoTyped, NEW ancestors, NEW ledger, NEW files, NEW extra, NEW subject,
         Made(commits, commits', ancestors, ledger, files, extra, subject), NEW q \in Patterns
  PROVE  /\ main' = main => Live(q)' = Live(q) /\ Files(main)'[q] = Files(main)[q]
         /\ main' = Now => Live(q)' = ledger[q] /\ Files(main)'[q] = files[q]
         /\ branch'[q] = branch[q] => Staged(q)' = Staged(q)
         /\ branch'[q] = Now => Staged(q)' = ledger[q] /\ Exists(q)'
<1>1. main \in DOMAIN commits /\ (branch[q] # 0 => branch[q] \in DOMAIN commits) /\ Now # 0
  BY NowIsNew, StartIs DEF RepoTyped, Exists
<1>2. commits'[Now].ledger = ledger /\ commits'[Now].files = files
      /\ \A c \in DOMAIN commits : commits'[c] = commits[c]
  BY DEF Made, Now
<1>3. QED
  BY <1>1, <1>2 DEF Live, Staged, Ledger, Files, Exists

\* A commit more merges nothing that was not merged, itself least of all.
LEMMA MergedNext ==
  ASSUME RepoTyped, DAG(commits), NEW ancestors, NEW ledger, NEW files, NEW extra, NEW subject,
         commits' \in Seq(Commit),
         Made(commits, commits', ancestors, ledger, files, extra, subject), NEW q \in Patterns
  PROVE  /\ branch'[q] = branch[q] /\ main' = main /\ Merged(q)' => Merged(q)
         /\ branch'[q] = branch[q] /\ main' = Now /\ ancestors = Anc(commits, main) /\ Merged(q)'
              => Merged(q)
         /\ branch'[q] = Now /\ main' = main => ~Merged(q)'
<1> PICK h, g, x, y : h = commits /\ g = commits' /\ x = main /\ y = branch[q]
  OBVIOUS
<1>1. /\ h \in Seq(Commit) /\ g \in Seq(Commit) /\ DAG(h) /\ x \in DOMAIN h
      /\ y # 0 => y \in DOMAIN h
      /\ Now = Len(h) + 1 /\ Now \notin DOMAIN h
  BY StartIs, NowIsNew DEF RepoTyped, Exists, Now
<1>2. Grown(h, g)
  BY <1>1, MadeGrows
<1>3. Anc(g, x) = Anc(h, x) /\ Anc(h, x) \subseteq DOMAIN h
  BY <1>1, <1>2, AncestorsStay
<1>4. Anc(g, Now) = {Now} \cup ancestors
  BY <1>1 DEF Made, Anc
<1>5. QED
  BY <1>1, <1>3, <1>4 DEF Merged, Exists, IsAncestor, Anc

\* An empty world, and an imported one, have the invariant.
LEMMA InitInv == Init => Inv
<1> SUFFICES ASSUME Init PROVE Inv
  OBVIOUS
<1>1. PICK b \in Beginnings :
        /\ commits = << [parents |-> << >>, ancestors |-> {1}, extra |-> 0, subject |-> "loop",
                         ledger |-> [p \in Patterns |->
                           IF p \in b.promoted
                           THEN StagedRow(NoRow, NoRow, "skill", 1, TRUE, 1) ELSE NoRow],
                         files |-> [p \in Patterns |->
                           IF p \in b.promoted THEN [NoFiles EXCEPT !["skill"] = 1]
                           ELSE NoFiles]] >>
        /\ count = [p \in Patterns |-> IF p \in b.promoted THEN 1 ELSE 0]
        /\ budget = b.budget
  BY DEF Init
<1>2. /\ main = 1 /\ branch = [p \in Patterns |-> 0] /\ held = {} /\ op = Idle /\ screen = Blank
      /\ rehomed = {} /\ refused = [p \in Patterns |-> 0] /\ retiring = [p \in Patterns |-> 0]
      /\ checkout = 0 /\ astray = {}
  BY DEF Init
<1> DEFINE row(p) == IF p \in b.promoted THEN StagedRow(NoRow, NoRow, "skill", 1, TRUE, 1)
                     ELSE NoRow
           text(p) == IF p \in b.promoted THEN [NoFiles EXCEPT !["skill"] = 1] ELSE NoFiles
<1>3. \A p \in Patterns : row(p) \in Row /\ text(p) \in Texts /\ Served(row(p), text(p))
  <2>1. NoRow \in Row /\ NoFiles \in Texts /\ [NoFiles EXCEPT !["skill"] = 1] \in Texts
        /\ "skill" \in Types /\ Served(NoRow, NoFiles)
    BY NoRowIs, ReviewAssumption
    DEF NoFiles, Texts, NoText, Types, Served, NoRow
  <2>2. PICK r : r = StagedRow(NoRow, NoRow, "skill", 1, TRUE, 1)
    OBVIOUS
  <2>3. r \in Row /\ ~r.inline /\ r.served_by = "skill" /\ r.status = "promoted"
    <3>1. PICK auto \in BOOLEAN : auto = TRUE
      OBVIOUS
    <3>2. PICK one, no, type : one \in Nat /\ one = 1 /\ no = NoRow /\ type = "skill"
      OBVIOUS
    <3>3. no \in Row /\ type \in Types /\ r = StagedRow(no, no, type, one, auto, one)
      BY <2>1, <2>2, <3>1, <3>2
    <3>4. r \in Row /\ ~r.inline /\ r.served_by = type
          /\ r.status = IF auto THEN "promoted" ELSE "staged"
      BY <3>2, <3>3, StagedRowIs DEF Proposed
    <3>5. QED
      BY <3>1, <3>2, <3>4
  <2>4. Served(r, [NoFiles EXCEPT !["skill"] = 1])
    BY <2>3, ReviewAssumption DEF Served, NoFiles, IsText, Types, NoText
  <2>5. QED
    BY <2>1, <2>2, <2>3, <2>4
<1>4. /\ commits[1] = [parents |-> << >>, ancestors |-> {1}, extra |-> 0, subject |-> "loop",
                       ledger |-> [p \in Patterns |-> row(p)],
                       files |-> [p \in Patterns |-> text(p)]]
      /\ DOMAIN commits = {1} /\ Len(commits) = 1
  BY <1>1
<1> HIDE DEF row, text
<1>5. commits[1].ledger \in [Patterns -> Row] /\ commits[1].files \in [Patterns -> Texts]
      /\ \A p \in Patterns : commits[1].ledger[p] = row(p) /\ commits[1].files[p] = text(p)
  BY <1>3, <1>4
<1>6. commits[1] \in Commit
  <2>1. << >> \in Seq(Nat)
    OBVIOUS
  <2>2. QED
    BY <1>4, <1>5, <2>1 DEF Commit
<1>7. RepoTyped
  BY <1>1, <1>2, <1>4, <1>6 DEF RepoTyped
<1>8. Typed
  BY <1>1, <1>2, <1>7, ReviewAssumption DEF Typed, Budget
<1>9. Git
  BY <1>2, <1>3, <1>4, <1>5
  DEF Git, DAG, Anc, Forks, Apart, MainServed, Exists, Live, Ledger, Files
<1>10. Marks
  <2>1. \A p \in Patterns : Watermark(Live(p)) \in Nat /\ Staged(p) = NoRow /\ count[p] \in Nat
    BY <1>2, <1>8, RowsAre DEF Exists
  <2>2. QED
    BY <1>2, <2>1 DEF Marks, Mark, Remembers, RetirementRemembers, NoRow
<1>11. QED
  BY <1>2, <1>8, <1>9, <1>10 DEF Inv, AcceptInv, TickInv, DropInv, ScreenInv, Idle

------------------------------------------------------------------------------
(* Steps that make no commit.                                                 *)

\* What was refused of a pattern stays remembered while its rows stay.
LEMMA MarkStays ==
  ASSUME Inv, NEW p \in Patterns, refused'[p] = refused[p], retiring'[p] = retiring[p],
         count'[p] \in Nat, count[p] <= count'[p], Live(p)' \in Row,
         Watermark(Live(p)) <= Watermark(Live(p)'),
         Staged(p)' = Staged(p), Merged(p)' => Merged(p)
  PROVE  Mark(p)'
<1>1. PICK old, new, staged, merged :
        old = Watermark(Live(p)) /\ new = Watermark(Live(p)') /\ staged = Staged(p)
        /\ merged = Merged(p)
  OBVIOUS
<1>2. old \in Nat /\ new \in Nat /\ count[p] \in Nat /\ refused[p] \in Nat /\ retiring[p] \in Nat
  BY <1>1, RowsAre, Marked DEF Inv
<1>3. Mark(p)
  BY DEF Inv, Marks
<1>4. Remembers(p)'
  BY <1>1, <1>2, <1>3 DEF Mark, Remembers
<1>5. RetirementRemembers(p)'
  BY <1>3 DEF Mark, RetirementRemembers
<1>6. QED
  BY <1>2, <1>3, <1>4, <1>5 DEF Mark

\* ... and when the default branch remembers it, whatever else the branch stages.
LEMMA MarkOnLive ==
  ASSUME Inv, NEW p \in Patterns, refused'[p] = refused[p], retiring'[p] = retiring[p],
         count'[p] = count[p], Live(p)' = Live(p), refused[p] <= Watermark(Live(p)),
         Staged(p)' = Live(p) \/ Staged(p)'.status # "retired"
  PROVE  Mark(p)'
<1>1. Mark(p) /\ Watermark(Live(p)) \in Nat /\ count[p] \in Nat /\ refused[p] \in Nat
      /\ retiring[p] \in Nat
  BY RowsAre DEF Inv, Marks
<1>2. retiring[p] <= Watermark(Live(p))
  BY <1>1 DEF Mark
<1>3. Remembers(p)' /\ RetirementRemembers(p)'
  BY <1>2 DEF Remembers, RetirementRemembers
<1>4. QED
  BY <1>1, <1>3 DEF Mark

\* A step that leaves the commits, the branches and the decisions alone.
LEMMA MarksStay ==
  ASSUME Inv, UNCHANGED <<commits, main, branch, refused, retiring>>, count' \in [Patterns -> Nat],
         \A p \in Patterns : count[p] <= count'[p]
  PROVE  Marks'
<1>1. \A p \in Patterns : Live(p)' = Live(p) /\ Staged(p)' = Staged(p) /\ Merged(p)' = Merged(p)
  BY DEF Live, Staged, Ledger, Merged, Exists, IsAncestor
<1>2. \A p \in Patterns : Live(p) \in Row /\ Watermark(Live(p)) <= Watermark(Live(p))
  BY RowsAre DEF Inv
<1>3. \A p \in Patterns : Mark(p)'
  BY <1>1, <1>2, MarkStays
<1>4. QED
  BY <1>3 DEF Marks

\* A step that leaves the repository, the operation and the evidence alone.
LEMMA OpsStay ==
  ASSUME Inv, UNCHANGED <<commits, main, branch, op, count, refused, retiring, astray>>
  PROVE  AcceptInv' /\ TickInv' /\ DropInv' /\ Marks' /\ Git'
<1>1. Git'
  BY RepoStays DEF Inv
<1>2. Marks'
  <2>1. count' \in [Patterns -> Nat] /\ \A p \in Patterns : count[p] <= count'[p]
    BY DEF Inv, Typed
  <2>2. QED
    BY <2>1, MarksStay
<1>3. AcceptInv' /\ DropInv'
  BY DEF Inv, AcceptInv, DropInv, Live, Ledger
<1>4. TickInv'
  BY DEF Inv, TickInv, PlannedFrom, Live, Ledger, Staged, Start, Exists, Files
<1>5. QED
  BY <1>1, <1>2, <1>3, <1>4

\* What a person looks at stays a proposal while the history grows.
LEMMA ScreenStays ==
  ASSUME Inv, screen' = screen, commits' = commits \/ Grown(commits, commits'),
         commits' \in Seq(Commit)
  PROVE  ScreenInv'
<1>1. SUFFICES ASSUME screen # Blank PROVE ScreenInv'
  BY DEF ScreenInv
<1>2. PICK h, g, x, y : h = commits /\ g = commits' /\ x = screen.base /\ y = screen.tip
  OBVIOUS
<1>3. /\ h \in Seq(Commit) /\ g \in Seq(Commit) /\ DAG(h) /\ x \in DOMAIN h /\ y \in DOMAIN h
      /\ y \notin Anc(h, x) /\ (screen.revising => h[y].ledger[screen.pattern].status # "retired")
  BY <1>1, <1>2 DEF Inv, Typed, RepoTyped, Git, ScreenInv, Ledger
<1>4. Grown(h, g)
  BY <1>2, <1>3 DEF Grown
<1>5. x \in DOMAIN g /\ y \in DOMAIN g /\ Anc(g, x) = Anc(h, x) /\ g[y] = h[y]
  BY <1>3, <1>4, AncestorsStay DEF Grown
<1>6. QED
  BY <1>2, <1>3, <1>5 DEF ScreenInv, Ledger

\* A proposal that is not merged is opened.
LEMMA PreviewKeeps ==
  ASSUME Inv, NEW p \in Patterns, Preview(p)
  PROVE  Inv'
<1>1. RepoTyped /\ main \in DOMAIN commits /\ branch[p] \in DOMAIN commits
  BY StartIs DEF Inv, Typed, RepoTyped, Preview
<1>2. screen' = [pattern |-> p, base |-> main, tip |-> branch[p], revising |-> FALSE]
  BY DEF Preview
<1>3. screen' \in Screen
  BY <1>1, <1>2, NowIsNew DEF Screen
<1>4. Typed'
  BY <1>3 DEF Inv, Typed, RepoTyped, Preview, repo, aux
<1>5. ScreenInv'
  BY <1>1, <1>2 DEF ScreenInv, Preview, repo, aux, Merged, IsAncestor, Anc
<1>6. QED
  BY <1>4, <1>5, OpsStay DEF Inv, Preview, repo, aux

\* A revision is asked for: never of a retirement.
LEMMA ReviseAskKeeps ==
  ASSUME Inv, NEW p \in Patterns, ReviseAsk(p)
  PROVE  Inv'
<1>1. screen \in Screen
  BY ReviewAssumption DEF Inv, Typed, ReviseAsk, Blank
<1>2. /\ screen' \in Screen /\ screen'.pattern = screen.pattern /\ screen'.base = screen.base
      /\ screen'.tip = screen.tip
  BY <1>1 DEF ReviseAsk, Screen
<1>3. Typed'
  BY <1>2 DEF Inv, Typed, RepoTyped, ReviseAsk, repo, aux
<1>4. screen # Blank
  BY ReviewAssumption DEF ReviseAsk, Blank
<1>5. ScreenInv'
  <2>1. screen.tip \in DOMAIN commits /\ screen.tip = branch[p] /\ screen.pattern = p
    BY <1>4 DEF Inv, ScreenInv, ReviseAsk, Unmoved
  <2>2. screen.tip # 0
    BY <2>1, NowIsNew DEF Inv, Typed
  <2>3. Ledger(screen.tip)[screen.pattern].status # "retired"
    BY <2>1, <2>2 DEF ReviseAsk, Staged
  <2>4. QED
    BY <1>2, <1>4, <2>1, <2>3 DEF Inv, ScreenInv, ReviseAsk, repo, aux, Ledger
<1>6. QED
  BY <1>3, <1>5, OpsStay DEF Inv, ReviseAsk, repo, aux

\* A revision whose proposal moved is refused.
LEMMA ReviseRefusedKeeps ==
  ASSUME Inv, ReviseRefused
  PROVE  Inv'
<1>1. Typed' /\ ScreenInv'
  BY DEF Inv, Typed, RepoTyped, ScreenInv, ReviseRefused, repo, aux
<1>2. QED
  BY <1>1, OpsStay DEF Inv, ReviseRefused, repo, aux

\* A worktree goes.
LEMMA ReleasedKeeps ==
  ASSUME Inv, NEW p \in Patterns, Released(p)
  PROVE  Inv'
<1>1. Typed' /\ commits' \in Seq(Commit)
  BY DEF Inv, Typed, RepoTyped, Released, aux
<1>2. ScreenInv'
  BY <1>1, ScreenStays DEF Released
<1>3. QED
  BY <1>1, <1>2, OpsStay DEF Inv, Released, aux

\* Nothing happens.
LEMMA StutterKeeps ==
  ASSUME Inv, UNCHANGED vars
  PROVE  Inv'
<1>1. Typed' /\ commits' \in Seq(Commit)
  BY DEF Inv, Typed, RepoTyped, vars, repo, aux
<1>2. ScreenInv'
  BY <1>1, ScreenStays DEF vars, repo
<1>3. QED
  BY <1>1, <1>2, OpsStay DEF Inv, vars, repo, aux

\* Reflections are written between operations.
LEMMA ReflectKeeps ==
  ASSUME Inv, NEW p \in Patterns, Reflect(p)
  PROVE  Inv'
<1>1. /\ UNCHANGED <<commits, main, branch, held, checkout, op, screen, rehomed, aux>>
      /\ IsIdle /\ count' = [count EXCEPT ![p] = @ + 1]
      /\ budget' = [budget EXCEPT !["reflections"] = @ - 1] /\ budget["reflections"] > 0
  BY DEF Reflect, Spend, repo
<1>2. \A q \in Patterns : count[q] \in Nat /\ refused[q] \in Nat /\ count'[q] \in Nat
                          /\ count'[q] >= count[q]
  BY <1>1 DEF Inv, Typed
<1>3. count' \in [Patterns -> Nat] /\ budget' \in Budget
  BY <1>1 DEF Inv, Typed, Budget
<1>4. Typed' /\ commits' \in Seq(Commit)
  BY <1>1, <1>3 DEF Inv, Typed, RepoTyped, aux
<1>5. ScreenInv'
  BY <1>1, <1>4, ScreenStays
<1>6. AcceptInv' /\ TickInv' /\ DropInv'
  BY <1>1, OverIsFine DEF IsIdle
<1>7. Marks'
  BY <1>1, <1>2, <1>3, MarksStay DEF aux
<1>8. Git'
  BY <1>1, RepoStays DEF Inv, aux
<1>9. QED
  BY <1>4, <1>5, <1>6, <1>7, <1>8 DEF Inv

\* An operation gives up.
LEMMA GivesUpKeeps ==
  ASSUME Inv, AcceptRefused \/ TickGivesUp
  PROVE  Inv'
<1>1. /\ UNCHANGED <<commits, main, branch, held, checkout, screen, count, rehomed, budget>>
      /\ UNCHANGED <<refused, retiring, astray>>
      /\ op' = Idle
  BY DEF AcceptRefused, TickGivesUp, repo, aux
<1>2. Typed' /\ commits' \in Seq(Commit)
  BY <1>1 DEF Inv, Typed, RepoTyped
<1>3. ScreenInv'
  BY <1>1, <1>2, ScreenStays
<1>4. Marks' /\ Git'
  BY <1>1, RepoStays, MarksStay DEF Inv, Typed
<1>5. QED
  BY <1>1, <1>2, <1>3, <1>4, OverIsFine DEF Inv

\* The checks of an accept establish what it may rely on.
LEMMA AcceptBeginKeeps ==
  ASSUME Inv, NEW p \in Patterns, AcceptBegin(p)
  PROVE  Inv'
<1> PICK h, x, y : h = commits /\ x = main /\ y = branch[p]
  OBVIOUS
<1>1. /\ UNCHANGED <<commits, main, branch, held, checkout, count, rehomed, budget>>
      /\ UNCHANGED <<refused, retiring, astray>>
      /\ screen' = Blank /\ screen.base = x /\ screen.tip = y /\ screen.pattern = p
      /\ op' = [kind |-> "accept", step |-> "prepare", pattern |-> p, base |-> x,
                tip |-> y, made |-> 0, seen |-> screen]
      /\ ~Blocked(p, x, y) /\ ~Live(p).inline
  BY DEF AcceptBegin, Unmoved, repo, aux
<1>2. screen \in Screen /\ screen # Blank
  BY <1>1, ReviewAssumption DEF Inv, Typed, Blank
<1>3. x \in DOMAIN h /\ y \in DOMAIN h /\ h \in Seq(Commit) /\ DAG(h) /\ y # 0 /\ RepoTyped
      /\ y \in Nat /\ x \in Nat
  BY <1>1, <1>2, NowIsNew DEF Inv, ScreenInv, Typed, RepoTyped, Git
<1>4. op' \in AcceptOp
  BY <1>1, <1>2, <1>3 DEF AcceptOp
<1>5. Typed'
  BY <1>1, <1>4 DEF Inv, Typed, RepoTyped
<1>6. PICK m \in DOMAIN h : Fork(h, p, x, y, m, astray)
  BY <1>3 DEF Inv, Git, Forks, Exists
<1>7. MergeBase(x, y) = m
  BY <1>3, <1>6, MergeBaseIs DEF Fork
<1>8. y \notin Anc(h, x) /\ h[y].files[p][EntryType(h[y].ledger[p])] # Stub
      /\ h[y].extra = h[m].extra
  BY <1>1, <1>7 DEF Blocked, IsAncestor, Anc, Body, Files, Ledger, Foreign
<1>9. (p \in astray \/ Served(h[x].ledger[p], h[x].files[p]))
      /\ ~h[x].ledger[p].inline
  BY <1>1 DEF Inv, Git, MainServed, Live, Ledger, Files
<1>10. Reviewed(h, p, x, y, m, x, astray)
  BY <1>3, <1>6, <1>8, <1>9 DEF Reviewed
<1>11. AcceptInv' /\ TickInv' /\ DropInv'
  BY <1>1, <1>10 DEF AcceptInv, TickInv, DropInv
<1>12. Marks' /\ Git' /\ ScreenInv'
  BY <1>1, RepoStays, MarksStay DEF Inv, Typed, ScreenInv
<1>13. QED
  BY <1>5, <1>11, <1>12 DEF Inv

\* A branch goes after the decision about it is in the ledger.
LEMMA DropBranchKeeps ==
  ASSUME Inv, DropBranch
  PROVE  Inv'
<1>1. /\ UNCHANGED <<commits, main, held, checkout, screen, count, rehomed, budget>> /\ op' = Idle
      /\ UNCHANGED <<refused, retiring, astray>>
      /\ op.kind = "drop"
  BY DEF DropBranch, aux
<1>2. PICK p \in Patterns : p = op.pattern
  BY <1>1, OpIs DEF Inv, DropOp
<1>3. branch' = branch \/ branch' = [branch EXCEPT ![p] = 0]
  BY <1>2 DEF DropBranch, Dropped
<1>4. RepoTyped'
  BY <1>1, <1>3, NowIsNew DEF Inv, Typed, RepoTyped
<1>5. Typed' /\ commits' \in Seq(Commit)
  BY <1>1, <1>4 DEF Inv, Typed, RepoTyped
<1>6. ScreenInv' /\ Git' /\ AcceptInv' /\ TickInv' /\ DropInv'
  BY <1>1, <1>3, <1>5, ScreenStays, BranchGoes, OverIsFine DEF Inv, Typed
<1>7. ASSUME NEW q \in Patterns PROVE Mark(q)'
  <2>1. Live(q)' = Live(q) /\ Live(q) \in Row
    BY <1>1, RowsAre DEF Inv, Live, Ledger
  <2>2. CASE branch'[q] = branch[q]
    <3>1. Staged(q)' = Staged(q) /\ Merged(q)' = Merged(q)
      BY <1>1, <2>2 DEF Staged, Ledger, Merged, Exists, IsAncestor
    <3>2. QED
      BY <1>1, <2>1, <3>1, MarkStays, RowsAre DEF Inv
  <2>3. CASE q = p /\ branch'[q] = 0
    <3>1. Staged(q)'.status # "retired"
      BY <2>3 DEF Staged, NoRow
    <3>2. refused[q] <= Watermark(Live(q))
      BY <1>1, <1>2, <2>3 DEF Inv, DropInv
    <3>3. QED
      BY <1>1, <2>1, <3>1, <3>2, MarkOnLive
  <2>4. QED
    BY <1>3, <2>2, <2>3 DEF Inv, Typed, RepoTyped
<1>8. QED
  BY <1>5, <1>6, <1>7 DEF Inv, Marks

\* What a planned action is: a draft, of new text or of another try.
LEMMA TickBeginKeeps ==
  ASSUME Inv, NEW p \in Patterns, TickBegin(p)
  PROVE  Inv'
<1>1. /\ UNCHANGED <<commits, main, branch, held, checkout, screen, count, rehomed, budget>>
      /\ UNCHANGED <<refused, retiring>> /\ astray' = Strayed(p)
  BY DEF TickBegin, repo
<1>2. PICK action \in {"promote", "refine"}, type \in Types, auto \in AutoMerges :
        /\ ~Waits(p, action)
        /\ op' = [kind |-> "tick", step |-> "reset", pattern |-> p, type |-> type, auto |-> auto,
                  action |-> action, prior |-> Seen(p), staged |-> Staged(p),
                  count |-> PlannedCount(Seen(p), count[p])]
  BY DEF TickBegin, DraftBegins
<1>3. Seen(p) \in Row /\ Staged(p) \in Row /\ PlannedCount(Seen(p), count[p]) \in Nat
  BY RowsAre DEF Inv, PlannedCount, Row, Fields
<1>4. op' \in TickOp
  BY <1>2, <1>3, ReviewAssumption DEF TickOp
<1>5. /\ astray \subseteq astray' /\ astray' \subseteq Patterns
      /\ p \notin astray' => Seen(p) = Live(p)
  BY <1>1 DEF Strayed, Inv, Typed
<1>6. Typed' /\ commits' \in Seq(Commit)
  BY <1>1, <1>4, <1>5 DEF Inv, Typed, RepoTyped
<1>7. ~Seen(p).inline /\ Staged(p).status # "retired"
  BY <1>2 DEF Waits
<1>8. refused[p] <= Watermark(Live(p))
  BY <1>7 DEF Inv, Marks, Mark, Remembers
<1>9. Live(p)' = Live(p) /\ Staged(p)' = Staged(p)
  BY <1>1 DEF Live, Staged, Ledger
<1>10. p \in astray' \/ PlannedFrom(p)'
  BY <1>2, <1>5, <1>7, <1>9 DEF PlannedFrom
<1>11. AcceptInv' /\ TickInv' /\ DropInv'
  BY <1>1, <1>2, <1>8, <1>9, <1>10 DEF AcceptInv, TickInv, DropInv
<1>12. Marks' /\ Git' /\ ScreenInv'
  BY <1>1, <1>5, <1>6, RepoStays, ScreenStays, MarksStay DEF Inv, Typed
<1>13. QED
  BY <1>6, <1>11, <1>12 DEF Inv

\* A human asks for a redraft: what an automatic merge left behind is dropped.
LEMMA RefineBeginKeeps ==
  ASSUME Inv, NEW p \in Patterns, RefineBegin(p)
  PROVE  Inv'
<1>1. PICK staged : staged = IF p \in held THEN Staged(p) ELSE NoRow
  OBVIOUS
<1>2. /\ UNCHANGED <<commits, main, held, checkout, screen, count, rehomed, budget>>
      /\ UNCHANGED <<refused, retiring>> /\ astray' = Strayed(p)
      /\ branch' = Dropped(p) /\ IsLiveLoop(Seen(p))
      /\ op' = [kind |-> "tick", step |-> "reset", pattern |-> p,
                type |-> ServedBy(staged, Seen(p)), auto |-> FALSE, action |-> "refine",
                prior |-> Seen(p), staged |-> staged, count |-> Seen(p).promoted_at_count]
      /\ Exists(p) => Merged(p)
  BY <1>1 DEF RefineBegin
<1>3. /\ Seen(p) \in Row /\ Staged(p) \in Row /\ NoRow \in Row /\ staged \in Row
      /\ Seen(p).promoted_at_count \in Nat
  BY <1>1, RowsAre, NoRowIs DEF Inv, Row, Fields
<1>4. ServedBy(staged, Seen(p)) \in Types
  BY <1>2, <1>3 DEF ServedBy, IsLiveLoop, Row, Fields, Sound
<1>5. op' \in TickOp
  BY <1>2, <1>3, <1>4 DEF TickOp
<1>6. branch' = branch \/ branch' = [branch EXCEPT ![p] = 0]
  BY <1>2 DEF Dropped
<1>7. /\ astray \subseteq astray' /\ astray' \subseteq Patterns
      /\ p \notin astray' => Seen(p) = Live(p)
  BY <1>2 DEF Strayed, Inv, Typed
<1>8. RepoTyped'
  <2>1. 0 \in 0 .. Len(commits) /\ RepoTyped
    BY NowIsNew DEF Inv, Typed
  <2>2. branch' \in [Patterns -> 0 .. Len(commits)]
    BY <1>6, <2>1 DEF RepoTyped
  <2>3. QED
    BY <1>2, <2>1, <2>2 DEF RepoTyped
<1>9. Typed' /\ commits' \in Seq(Commit)
  BY <1>2, <1>5, <1>7, <1>8 DEF Inv, Typed, RepoTyped
<1>10. ScreenInv' /\ Git'
  BY <1>2, <1>6, <1>7, <1>9, ScreenStays, BranchGoes DEF Inv, Typed
<1>11. \A q \in Patterns : Live(q)' = Live(q) /\ (branch'[q] = branch[q] => Staged(q)' = Staged(q))
                           /\ (branch'[q] = 0 => Staged(q)' = NoRow)
  BY <1>2 DEF Live, Staged, Ledger
<1>12. refused[p] <= Watermark(Live(p))
  <2>1. Staged(p).status # "retired" \/ Merged(p)
    BY <1>2, RowsAre DEF Inv, NoRow
  <2>2. QED
    BY <2>1 DEF Inv, Marks, Mark, Remembers
<1>13. branch'[p] = IF p \in held THEN branch[p] ELSE 0
  BY <1>2 DEF Dropped, Inv, Typed, RepoTyped
<1>14. staged = Staged(p)'
  BY <1>1, <1>11, <1>13
<1>15. p \in astray' \/ PlannedFrom(p)'
  BY <1>2, <1>7, <1>11, <1>14 DEF PlannedFrom, IsLiveLoop
<1>16. AcceptInv' /\ TickInv' /\ DropInv'
  BY <1>2, <1>11, <1>12, <1>15 DEF AcceptInv, TickInv, DropInv
<1>17. ASSUME NEW q \in Patterns PROVE Mark(q)'
  <2>1. Live(q) \in Row /\ count[q] \in Nat /\ Watermark(Live(q)) \in Nat
    BY RowsAre DEF Inv
  <2>2. CASE branch'[q] = branch[q]
    <3>1. Merged(q)' = Merged(q)
      BY <1>2, <2>2 DEF Merged, Exists, IsAncestor
    <3>2. QED
      BY <1>2, <1>11, <2>1, <2>2, <3>1, MarkStays
  <2>3. CASE q = p /\ branch'[q] = 0
    <3>1. Staged(q)'.status # "retired"
      BY <1>11, <2>3 DEF NoRow
    <3>2. QED
      BY <1>2, <1>11, <1>12, <2>3, <3>1, MarkOnLive
  <2>4. QED
    BY <1>6, <2>2, <2>3 DEF Inv, Typed, RepoTyped
<1>18. QED
  BY <1>9, <1>10, <1>16, <1>17 DEF Inv, Marks

\* The tree of a redraft: of the default branch, or of the migration staged.
LEMMA StageResetKeeps ==
  ASSUME Inv, StageReset
  PROVE  Inv'
<1>1. /\ UNCHANGED <<commits, main, held, checkout, screen, count, rehomed, budget>>
      /\ UNCHANGED <<refused, retiring, astray>>
      /\ op.kind = "tick" /\ op.step = "reset" /\ op' = [op EXCEPT !.step = "commit"]
  BY DEF StageReset, aux
<1>2. PICK p \in Patterns : p = op.pattern
  BY <1>1, OpIs DEF Inv, TickOp
<1>3. op \in TickOp /\ op' \in TickOp /\ op'.pattern = p /\ op'.prior = op.prior
      /\ op'.staged = op.staged /\ op'.step = "commit" /\ op'.kind = "tick"
  BY <1>1, <1>2, OpIs DEF Inv, TickOp
<1>4. IF Exists(p) /\ ~Migrating(op.staged, op.prior)
      THEN branch' = [branch EXCEPT ![p] = main] ELSE branch' = branch
  BY <1>2 DEF StageReset
<1>5. RepoTyped'
  <2>1. main \in 0 .. Len(commits) /\ RepoTyped
    BY NowIsNew DEF Inv, Typed, RepoTyped
  <2>2. branch' \in [Patterns -> 0 .. Len(commits)]
    BY <1>4, <2>1 DEF RepoTyped
  <2>3. QED
    BY <1>1, <2>1, <2>2 DEF RepoTyped
<1>6. Typed' /\ commits' \in Seq(Commit)
  BY <1>1, <1>3, <1>5 DEF Inv, Typed, RepoTyped
<1>7. ScreenInv' /\ Git'
  BY <1>1, <1>4, <1>6, ScreenStays, BranchGoes DEF Inv, Typed
<1>8. \A q \in Patterns : Live(q)' = Live(q) /\ (branch'[q] = branch[q] => Staged(q)' = Staged(q))
                          /\ (branch'[q] = main => Staged(q)' = Live(q))
  BY <1>1, NowIsNew DEF Live, Staged, Ledger, Inv, Typed, RepoTyped
<1>9. refused[p] <= Watermark(Live(p)) /\ (p \in astray \/ PlannedFrom(p))
  BY <1>1, <1>2 DEF Inv, TickInv
<1>10. ASSUME p \notin astray PROVE PlannedFrom(p)'
  <2>1. Served(Live(p), Files(main)[p])
    BY <1>10 DEF Inv, Git, MainServed
  <2>2. ~Live(p).inline /\ op.prior = Live(p) /\ op.staged = Staged(p)
    BY <1>1, <1>9, <1>10 DEF PlannedFrom
  <2>3. /\ Ledger(Start(p))'[p] = IF Migrating(op.staged, op.prior) THEN op.staged ELSE op.prior
        /\ Known(Ledger(Start(p))'[p]) \/ \A t \in Types : Files(Start(p))'[p][t] = NoText
    <3>1. CASE Exists(p) /\ Migrating(op.staged, op.prior)
      <4>1. Start(p)' = branch[p] /\ Known(op.staged)
        BY <1>4, <3>1 DEF Start, Exists, Migrating
      <4>2. QED
        BY <1>1, <2>2, <3>1, <4>1 DEF Staged, Exists, Ledger
    <3>2. CASE ~(Exists(p) /\ Migrating(op.staged, op.prior))
      <4>1. Start(p)' = main
        BY <1>1, <1>4, <3>2 DEF Start, Exists, Inv, Typed, RepoTyped
      <4>2. ~Migrating(op.staged, op.prior)
        BY <2>2, <3>2 DEF Staged, Exists, Migrating, Known, NoRow
      <4>3. ~Known(Live(p)) => \A t \in Types : Files(main)[p][t] = NoText
        <5>1. SUFFICES ASSUME ~Known(Live(p)) PROVE \A t \in Types : Files(main)[p][t] = NoText
          OBVIOUS
        <5>2. Live(p) = NoRow
          BY <5>1, UnknownIs, RowsAre DEF Inv
        <5>3. QED
          BY <2>1, <5>2, ReviewAssumption DEF Served, NoRow
      <4>4. QED
        BY <1>1, <2>2, <4>1, <4>2, <4>3 DEF Live, Ledger, Files
    <3>3. QED
      BY <3>1, <3>2
  <2>4. QED
    BY <1>1, <1>3, <1>8, <2>2, <2>3 DEF PlannedFrom
<1>11. AcceptInv' /\ TickInv' /\ DropInv'
  BY <1>1, <1>3, <1>8, <1>9, <1>10 DEF AcceptInv, TickInv, DropInv
<1>12. ASSUME NEW q \in Patterns PROVE Mark(q)'
  <2>1. Live(q) \in Row /\ count[q] \in Nat /\ Watermark(Live(q)) \in Nat
    BY RowsAre DEF Inv
  <2>2. CASE branch'[q] = branch[q]
    <3>1. Merged(q)' = Merged(q)
      BY <1>1, <2>2 DEF Merged, Exists, IsAncestor
    <3>2. QED
      BY <1>1, <1>8, <2>1, <2>2, <3>1, MarkStays
  <2>3. CASE q = p /\ branch'[q] = main
    BY <1>1, <1>8, <1>9, <2>3, MarkOnLive
  <2>4. QED
    BY <1>4, <2>2, <2>3 DEF Inv, Typed, RepoTyped
<1>13. QED
  BY <1>6, <1>7, <1>11, <1>12 DEF Inv, Marks

\* A process dies: in a scratch tree it leaves a worktree, and a branch.
LEMMA DiesKeeps ==
  ASSUME Inv, Dies
  PROVE  Inv'
<1>1. /\ UNCHANGED <<commits, main, checkout, screen, count, rehomed>> /\ op' = Idle
      /\ UNCHANGED <<refused, retiring, astray>>
      /\ budget' = [budget EXCEPT !["crashes"] = @ - 1] /\ budget["crashes"] > 0
      /\ budget \in Budget
  BY DEF Dies, Spend, repo, aux, IsIdle, Inv, Typed
<1>2. budget' \in Budget /\ budget.patterns \subseteq Patterns
  BY <1>1 DEF Budget
<1>3. PICK p \in Patterns : /\ held' = held \/ held' = held \cup {p}
                            /\ branch' = branch \/ branch' = [branch EXCEPT ![p] = Start(p)]
  BY <1>2, ReviewAssumption DEF Dies, repo
<1>4. Start(p) = IF Exists(p) THEN branch[p] ELSE main
  BY DEF Start
<1>5. branch' = branch \/ (branch' = [branch EXCEPT ![p] = main] /\ ~Exists(p))
  BY <1>3, <1>4 DEF Inv, Typed, RepoTyped
<1>6. RepoTyped'
  BY <1>1, <1>3, <1>5, NowIsNew DEF Inv, Typed, RepoTyped
<1>7. Typed' /\ commits' \in Seq(Commit)
  BY <1>1, <1>2, <1>6 DEF Inv, Typed, RepoTyped
<1>8. ScreenInv' /\ Git' /\ AcceptInv' /\ TickInv' /\ DropInv'
  BY <1>1, <1>5, <1>7, ScreenStays, BranchGoes, OverIsFine DEF Inv, Typed
<1>9. \A q \in Patterns : Live(q)' = Live(q) /\ (branch'[q] = branch[q] => Staged(q)' = Staged(q))
                          /\ (branch'[q] = main => Staged(q)' = Live(q))
  BY <1>1, NowIsNew DEF Live, Staged, Ledger, Inv, Typed, RepoTyped
<1>10. ASSUME NEW q \in Patterns PROVE Mark(q)'
  <2>1. Live(q) \in Row /\ count[q] \in Nat /\ Watermark(Live(q)) \in Nat
    BY RowsAre DEF Inv
  <2>2. CASE branch'[q] = branch[q]
    <3>1. Merged(q)' = Merged(q)
      BY <1>1, <2>2 DEF Merged, Exists, IsAncestor
    <3>2. QED
      BY <1>1, <1>9, <2>1, <2>2, <3>1, MarkStays
  <2>3. CASE ~Exists(q) /\ branch'[q] = main
    <3>1. Staged(q).status # "retired"
      BY <2>3, RowsAre DEF Inv, NoRow
    <3>2. refused[q] <= Watermark(Live(q))
      BY <3>1 DEF Inv, Marks, Mark, Remembers
    <3>3. QED
      BY <1>1, <1>9, <2>3, <3>2, MarkOnLive
  <2>4. QED
    BY <1>5, <2>2, <2>3 DEF Inv, Typed, RepoTyped
<1>11. QED
  BY <1>7, <1>8, <1>10 DEF Inv, Marks

\* A person looks at another commit.
LEMMA LooksElsewhereKeeps ==
  ASSUME Inv, LooksElsewhere
  PROVE  Inv'
<1>1. /\ UNCHANGED <<commits, main, branch, op, screen, count, rehomed, refused, retiring, astray>>
      /\ budget \in Budget /\ budget["outside"] > 0
      /\ budget' = [budget EXCEPT !["outside"] = @ - 1]
  BY DEF LooksElsewhere, Spend, aux, Inv, Typed
<1>2. budget' \in Budget /\ budget.patterns \subseteq Patterns
  BY <1>1 DEF Budget
<1>3. checkout' \in DOMAIN commits /\ held' \subseteq Patterns
  BY <1>2 DEF LooksElsewhere, Inv, Typed, RepoTyped
<1>4. checkout' \in 0 .. Len(commits)
  BY <1>3, NowIsNew DEF Inv, Typed
<1>5. Typed' /\ commits' \in Seq(Commit)
  BY <1>1, <1>2, <1>3, <1>4 DEF Inv, Typed, RepoTyped
<1>6. QED
  BY <1>1, <1>5, OpsStay, ScreenStays DEF Inv

\* ... and comes back to the default branch.
LEMMA ComesBackKeeps ==
  ASSUME Inv, ComesBack
  PROVE  Inv'
<1>1. /\ UNCHANGED <<commits, main, branch, held, op, screen, count, rehomed, budget>>
      /\ UNCHANGED <<refused, retiring, astray>> /\ checkout' = 0
  BY DEF ComesBack, aux
<1>2. 0 \in 0 .. Len(commits)
  BY NowIsNew DEF Inv, Typed
<1>3. Typed' /\ commits' \in Seq(Commit)
  BY <1>1, <1>2 DEF Inv, Typed, RepoTyped
<1>4. QED
  BY <1>1, <1>3, OpsStay, ScreenStays DEF Inv

------------------------------------------------------------------------------
(* Commits on the default branch.                                             *)

\* A commit of one pattern's row on the default branch.
LEMMA OnDefaultKeeps ==
  ASSUME Inv, NEW p \in Patterns, NEW row \in Row, OnDefault(p, row),
         UNCHANGED <<branch, held, checkout, screen, astray>>,
         p \in astray \/ Served(row, Files(main)[p]), Exists(p) => Kept(row, Live(p))
  PROVE  /\ RepoTyped' /\ Git' /\ ScreenInv'
         /\ \A q \in Patterns : Staged(q)' = Staged(q) /\ (Merged(q)' => Merged(q))
                                /\ Live(q)' = IF q = p THEN row ELSE Live(q)
<1> DEFINE ledger == [Ledger(main) EXCEPT ![p] = row]
<1>1. /\ commits' \in Seq(Commit) /\ main' = Now
      /\ Made(commits, commits', Anc(commits, main), ledger, Files(main), commits[main].extra,
              "loop")
  BY OnDefaultIs DEF Inv, Typed
<1>2. RepoTyped /\ Git /\ main \in DOMAIN commits
  BY DEF Inv, Typed, RepoTyped
<1>3. RepoTyped'
  BY <1>1, <1>2, RepoGrows DEF RepoTyped
<1>4. \A q \in Patterns : ledger[q] = IF q = p THEN row ELSE Live(q)
  BY <1>2, CommitIs DEF Live
<1> HIDE DEF ledger
<1>5. \A q \in Patterns : /\ q \in astray \/ Served(ledger[q], Files(main)[q])
                          /\ Exists(q) => Kept(ledger[q], Live(q))
  BY <1>2, <1>4 DEF Git, MainServed, Kept
<1>6. commits[main].extra <= Now
  <2>1. commits[main].extra <= main /\ commits[main].extra \in Nat /\ main <= Now
    BY <1>2, CommitIs, NowIsNew DEF Git, DAG
  <2>2. QED
    BY <1>2, <2>1, NowIsNew
<1>7. Git'
  BY <1>1, <1>2, <1>5, <1>6, MainGoesOn
<1>8. Grown(commits, commits')
  BY <1>1, <1>2, MadeGrows DEF RepoTyped
<1>9. ScreenInv'
  BY <1>1, <1>8, ScreenStays
<1>10. QED
  BY <1>1, <1>2, <1>3, <1>4, <1>7, <1>9, RowsNext, MergedNext DEF Git

\* A no that the default branch's row records is remembered.
LEMMA SaidNo ==
  ASSUME Inv, NEW p \in Patterns, NEW row \in Row, count[p] <= Watermark(row),
         Watermark(Live(p)) <= Watermark(row), SaysNo(p), UNCHANGED <<count, retiring>>,
         \A q \in Patterns : Staged(q)' = Staged(q) /\ (Merged(q)' => Merged(q))
                             /\ Live(q)' = IF q = p THEN row ELSE Live(q)
  PROVE  Marks'
<1>1. SUFFICES ASSUME NEW q \in Patterns PROVE Mark(q)'
  BY DEF Marks
<1>2. Mark(q) /\ count[q] \in Nat /\ Live(q) \in Row /\ refused[q] \in Nat /\ retiring[q] \in Nat
      /\ Watermark(Live(q)) \in Nat
  BY RowsAre DEF Inv, Marks
<1>3. CASE q # p
  <2>1. refused'[q] = refused[q]
    BY <1>3 DEF SaysNo, Inv, Typed
  <2>2. QED
    BY <1>2, <1>3, <2>1, MarkStays
<1>4. CASE q = p
  <2>1. refused'[q] = count[q] /\ Live(q)' = row
    BY <1>4 DEF SaysNo, Inv, Typed
  <2>2. Remembers(q)' /\ RetirementRemembers(q)'
    BY <1>2, <1>4, <2>1 DEF Mark, Remembers, RetirementRemembers
  <2>3. QED
    BY <1>2, <2>1, <2>2 DEF Mark
<1>5. QED
  BY <1>3, <1>4

\* A no, recorded before the branch goes.
LEMMA RejectKeeps ==
  ASSUME Inv, NEW p \in Patterns, Reject(p)
  PROVE  Inv'
<1> PICK row : row = RejectedRow(Live(p), Staged(p), count[p])
  OBVIOUS
<1>1. /\ OnDefault(p, row)
      /\ UNCHANGED <<branch, held, checkout, screen, count, rehomed, budget, retiring, astray>>
      /\ op' = [kind |-> "drop", pattern |-> p]
      /\ refused' = [refused EXCEPT ![p] = count[p]]
  BY DEF Reject, SaysNo
<1>2. Live(p) \in Row /\ Staged(p) \in Row /\ count[p] \in Nat
      /\ (p \in astray \/ Served(Live(p), Files(main)[p]))
  BY RowsAre DEF Inv, Git, MainServed
<1>3. row \in Row /\ (p \in astray \/ Served(row, Files(main)[p])) /\ Kept(row, Live(p))
      /\ count[p] <= Watermark(row) /\ Watermark(Live(p)) <= Watermark(row)
  BY <1>2, Rejected
<1>4. /\ RepoTyped' /\ Git' /\ ScreenInv'
      /\ \A q \in Patterns : Staged(q)' = Staged(q) /\ (Merged(q)' => Merged(q))
                             /\ Live(q)' = IF q = p THEN row ELSE Live(q)
  BY <1>1, <1>3, OnDefaultKeeps
<1>5. op' \in DropOp /\ refused' \in [Patterns -> Nat]
  BY <1>1, <1>2 DEF DropOp, Inv, Typed
<1>6. Typed'
  BY <1>1, <1>4, <1>5 DEF Inv, Typed
<1>7. refused'[p] = count[p]
  BY <1>1 DEF Inv, Typed
<1>8. AcceptInv' /\ TickInv' /\ DropInv'
  BY <1>1, <1>3, <1>4, <1>7 DEF AcceptInv, TickInv, DropInv
<1>9. Marks'
  BY <1>1, <1>3, <1>4, SaidNo DEF SaysNo
<1>10. QED
  BY <1>4, <1>6, <1>8, <1>9 DEF Inv

\* A deletion: a tombstone, before the branch goes.
LEMMA RemoveKeeps ==
  ASSUME Inv, NEW p \in Patterns, Remove(p)
  PROVE  Inv'
<1> PICK row : row = TombstoneRow(Live(p), Staged(p), count[p])
  OBVIOUS
<1>1. /\ OnDefault(p, row)
      /\ UNCHANGED <<branch, held, checkout, screen, count, rehomed, budget, retiring, astray>>
      /\ op' = IF Exists(p) THEN [kind |-> "drop", pattern |-> p] ELSE Idle
      /\ refused' = [refused EXCEPT ![p] = count[p]]
      /\ ~IsLiveLoop(Live(p))
  BY DEF Remove, SaysNo
<1>2. Live(p) \in Row /\ Staged(p) \in Row /\ count[p] \in Nat /\ Files(main)[p] \in Texts
      /\ (p \in astray \/ Served(Live(p), Files(main)[p]))
  BY RowsAre, CommitIs DEF Inv, Typed, RepoTyped, Git, MainServed
<1>3. row \in Row /\ (p \in astray \/ Served(row, Files(main)[p])) /\ Kept(row, Live(p))
      /\ count[p] <= Watermark(row) /\ Watermark(Live(p)) <= Watermark(row)
  BY <1>1, <1>2, Buried
<1>4. /\ RepoTyped' /\ Git' /\ ScreenInv'
      /\ \A q \in Patterns : Staged(q)' = Staged(q) /\ (Merged(q)' => Merged(q))
                             /\ Live(q)' = IF q = p THEN row ELSE Live(q)
  BY <1>1, <1>3, OnDefaultKeeps
<1>5. op' \in DropOp \cup {Idle} /\ refused' \in [Patterns -> Nat] /\ refused'[p] = count[p]
  BY <1>1, <1>2 DEF DropOp, Inv, Typed
<1>6. Typed'
  BY <1>1, <1>4, <1>5 DEF Inv, Typed
<1>7. AcceptInv' /\ TickInv' /\ DropInv'
  BY <1>1, <1>3, <1>4, <1>5 DEF AcceptInv, TickInv, DropInv, Idle
<1>8. Marks'
  BY <1>1, <1>3, <1>4, SaidNo DEF SaysNo
<1>9. QED
  BY <1>4, <1>6, <1>7, <1>8 DEF Inv

\* A registration takes the place of what is not live.
LEMMA RegisterKeeps ==
  ASSUME Inv, NEW p \in Patterns, NEW type \in Types, Register(p, type)
  PROVE  Inv'
<1> PICK row : row = RegisteredRow(Live(p), type, count[p], Now)
  OBVIOUS
<1>1. /\ OnDefault(p, row)
      /\ UNCHANGED <<branch, held, checkout, op, screen, count, rehomed, budget>>
      /\ UNCHANGED <<refused, retiring, astray>>
      /\ ~IsLiveLoop(Live(p)) /\ ~Exists(p) /\ IsIdle
  BY DEF Register, aux
<1>2. Live(p) \in Row /\ count[p] \in Nat /\ Files(main)[p] \in Texts /\ Now \in Nat
      /\ (p \in astray \/ Served(Live(p), Files(main)[p]))
  BY RowsAre, CommitIs, NowIsNew DEF Inv, Typed, RepoTyped, Git, MainServed
<1>3. row \in Row /\ (p \in astray \/ Served(row, Files(main)[p]))
      /\ Watermark(Live(p)) <= Watermark(row)
  BY <1>1, <1>2, Registered
<1>4. /\ RepoTyped' /\ Git' /\ ScreenInv'
      /\ \A q \in Patterns : Staged(q)' = Staged(q) /\ (Merged(q)' => Merged(q))
                             /\ Live(q)' = IF q = p THEN row ELSE Live(q)
  BY <1>1, <1>3, OnDefaultKeeps
<1>5. Typed'
  BY <1>1, <1>4 DEF Inv, Typed
<1>6. AcceptInv' /\ TickInv' /\ DropInv'
  BY <1>1, OverIsFine DEF IsIdle
<1>7. Marks'
  <2>1. SUFFICES ASSUME NEW q \in Patterns PROVE Mark(q)'
    BY DEF Marks
  <2>2. Live(q) \in Row /\ Watermark(Live(q)) \in Nat /\ count[q] \in Nat
    BY RowsAre DEF Inv
  <2>3. QED
    BY <1>1, <1>3, <1>4, <2>2, MarkStays
<1>8. QED
  BY <1>4, <1>5, <1>6, <1>7 DEF Inv

------------------------------------------------------------------------------
(* Commits on a branch.                                                       *)

\* A commit of the pattern's own row and artifact on its branch.
LEMMA OnBranchKeeps ==
  ASSUME Inv, NEW p \in Patterns, NEW row \in Row, NEW text \in Texts, OnBranch(p, row, text),
         UNCHANGED <<main, held, checkout, astray>>,
         NEW m \in DOMAIN commits, Fork(commits, p, main, Start(p), m, astray),
         Proposed(row) \/ commits[Start(p)].extra # commits[m].extra,
         \/ p \in astray
         \/ /\ row.inline = Ledger(Start(p))[p].inline
            /\ \A t \in Types : text[t] # NoText => t = EntryType(row)
            /\ Drafted(row, text) \/ commits[Start(p)].extra # commits[m].extra
  PROVE  /\ RepoTyped' /\ Git' /\ Grown(commits, commits')
         /\ branch'[p] = Now /\ Now \in DOMAIN commits' /\ Exists(p)'
         /\ Files(branch[p])'[p] = text
         /\ \A q \in Patterns : Staged(q)' = (IF q = p THEN row ELSE Staged(q))
                                /\ Live(q)' = Live(q) /\ (Merged(q)' => q # p /\ Merged(q))
<1> DEFINE ledger == [Ledger(Start(p)) EXCEPT ![p] = row]
           files == [Files(Start(p)) EXCEPT ![p] = text]
           extra == commits[Start(p)].extra
<1>1. /\ commits' \in Seq(Commit) /\ branch' = [branch EXCEPT ![p] = Now]
      /\ Made(commits, commits', Anc(commits, Start(p)), ledger, files, extra, "loop")
  BY OnBranchIs DEF Inv, Typed
<1>2. RepoTyped /\ Git /\ Start(p) \in DOMAIN commits
  BY StartIs DEF Inv, Typed
<1>3. RepoTyped'
  BY <1>1, <1>2, RepoGrows DEF RepoTyped
<1>4. /\ ledger[p] = row /\ files[p] = text
      /\ \A q \in Patterns \ {p} :
           ledger[q] = Ledger(Start(p))[q] /\ files[q] = Files(Start(p))[q]
  BY <1>2, CommitIs
<1>5. extra = commits[Start(p)].extra
  OBVIOUS
<1> HIDE DEF ledger, files, extra
<1>6. /\ Proposed(ledger[p]) \/ extra # commits[m].extra
      /\ \/ p \in astray
         \/ /\ ledger[p].inline = Ledger(Start(p))[p].inline
            /\ \A t \in Types : files[p][t] # NoText => t = EntryType(ledger[p])
            /\ Drafted(ledger[p], files[p]) \/ extra # commits[m].extra
  BY <1>5, <1>4
<1>7. Git'
  <2>1. PICK subject : subject = "loop"
    OBVIOUS
  <2>2. Made(commits, commits', Anc(commits, Start(p)), ledger, files, extra, subject)
        /\ subject # "person"
    BY <1>1, <2>1
  <2>3. Moved(p, Now)
    BY <1>1 DEF Moved
  <2>4. QED
    BY <1>5, <1>1, <1>2, <1>4, <1>6, <2>2, <2>3, BranchGoesOn
<1>8. Grown(commits, commits') /\ Now \in DOMAIN commits'
  BY <1>1, <1>2, MadeGrows DEF RepoTyped, Now
<1>9. \A q \in Patterns : branch'[q] = IF q = p THEN Now ELSE branch[q]
  BY <1>1, <1>2 DEF RepoTyped
<1>10. Files(branch[p])'[p] = text
  BY <1>1, <1>4, <1>9 DEF Files, Made, Now
<1>11. QED
  <2>1. ASSUME NEW q \in Patterns \ {p} PROVE Merged(q)' => Merged(q)
    <3>1. branch'[q] = branch[q] /\ main' = main
      BY <1>9
    <3>2. DAG(commits) /\ RepoTyped
      BY <1>2 DEF Git
    <3>3. QED
      BY <1>1, <3>1, <3>2, MergedNext
  <2>2. ~Merged(p)'
    BY <1>1, <1>2, <1>9, MergedNext DEF Git
  <2>3. QED
    BY <1>1, <1>2, <1>3, <1>4, <1>7, <1>8, <1>9, <1>10, <2>1, <2>2, RowsNext

\* A decision that the rows remember.
LEMMA Decided ==
  ASSUME Inv, NEW p \in Patterns, NEW mark \in Nat, mark <= count[p], Decides(p, mark),
         count' = count, Remembers(p)', RetirementRemembers(p)',
         \A q \in Patterns \ {p} : Staged(q)' = Staged(q) /\ Live(q)' = Live(q)
                                   /\ (Merged(q)' => Merged(q))
  PROVE  Marks' /\ refused' \in [Patterns -> Nat] /\ retiring' \in [Patterns -> Nat]
<1>1. /\ refused' \in [Patterns -> Nat] /\ refused'[p] = mark
      /\ retiring' \in [Patterns -> Nat] /\ retiring'[p] = mark
      /\ \A q \in Patterns \ {p} : refused'[q] = refused[q] /\ retiring'[q] = retiring[q]
  BY DEF Decides, Inv, Typed
<1>2. ASSUME NEW q \in Patterns \ {p} PROVE Mark(q)'
  <2>1. Live(q) \in Row /\ count[q] \in Nat /\ Watermark(Live(q)) \in Nat
    BY RowsAre DEF Inv
  <2>2. QED
    BY <1>1, <2>1, MarkStays
<1>3. Mark(p)'
  BY <1>1 DEF Mark
<1>4. QED
  BY <1>1, <1>2, <1>3 DEF Marks

\* A re-home stages a stub in the new type.
LEMMA RehomeKeeps ==
  ASSUME Inv, NEW p \in Patterns, NEW type \in Types, Rehome(p, type)
  PROVE  Inv'
<1> PICK s, was, row : /\ s = Start(p) /\ was = Ledger(s)[p] /\ row = RehomedRow(was, type)
  OBVIOUS
<1> DEFINE text == [Files(s)[p] EXCEPT ![EntryType(was)] = NoText, ![type] = Stub]
<1>1. /\ OnBranch(p, row, text) /\ IsIdle /\ ~was.inline
      /\ UNCHANGED <<main, held, checkout, op, screen, count, budget, astray>>
      /\ rehomed' = rehomed \cup {p} /\ Decides(p, 0)
  BY DEF Rehome
<1>2. PICK m \in DOMAIN commits : Fork(commits, p, main, s, m, astray)
  BY StartForks DEF Inv, Typed
<1>3. was \in Row /\ Files(s)[p] \in Texts
  BY StartIs, CommitIs DEF Inv, Typed
<1>4. row \in Row /\ row.inline = was.inline /\ row.served_by = type /\ row.status = "staged"
  BY <1>3, RehomedRowIs
<1>5. text \in Texts
  BY <1>3 DEF Texts, NoText, Stub
<1>6. ASSUME p \notin astray PROVE \A t \in Types : text[t] # NoText <=> t = type
  <2>1. \A t \in Types : Files(s)[p][t] # NoText => t = EntryType(was)
    BY <1>2, <1>6 DEF Fork, Fits, Files, Ledger
  <2>2. QED
    BY <1>3, <2>1 DEF Texts, NoText, Stub
<1> HIDE DEF text
<1>7. Proposed(row)
  BY <1>1, <1>4, ReviewAssumption DEF Proposed
<1>8. \/ p \in astray
      \/ Drafted(row, text) /\ \A t \in Types : text[t] # NoText => t = EntryType(row)
  BY <1>4, <1>6, <1>7, ReviewAssumption DEF Drafted, EntryType
<1>9. /\ RepoTyped' /\ Git' /\ Grown(commits, commits')
      /\ \A q \in Patterns : Staged(q)' = (IF q = p THEN row ELSE Staged(q))
                             /\ Live(q)' = Live(q) /\ (Merged(q)' => q # p /\ Merged(q))
  BY <1>1, <1>2, <1>4, <1>5, <1>7, <1>8, OnBranchKeeps
<1>10. Marks' /\ refused' \in [Patterns -> Nat] /\ retiring' \in [Patterns -> Nat]
  <2>1. refused'[p] = 0 /\ retiring'[p] = 0 /\ count[p] \in Nat /\ Watermark(Live(p)) \in Nat
    BY <1>1, RowsAre DEF Decides, Inv, Typed
  <2>2. Remembers(p)' /\ RetirementRemembers(p)'
    BY <1>4, <1>9, <2>1 DEF Remembers, RetirementRemembers
  <2>3. QED
    BY <1>1, <1>9, <2>1, <2>2, Decided
<1>11. Typed' /\ ScreenInv'
  <2>1. rehomed' \subseteq Patterns
    BY <1>1 DEF Inv, Typed
  <2>2. Typed'
    BY <1>1, <1>9, <1>10, <2>1 DEF Inv, Typed
  <2>3. QED
    BY <1>1, <1>9, <2>2, ScreenStays DEF Typed, RepoTyped
<1>12. AcceptInv' /\ TickInv' /\ DropInv'
  BY <1>1, OverIsFine DEF IsIdle
<1>13. QED
  BY <1>9, <1>10, <1>11, <1>12 DEF Inv

\* A retirement stages the absence of the artifact, and remembers the evidence.
LEMMA RetireKeeps ==
  ASSUME Inv, NEW p \in Patterns, Retire(p)
  PROVE  Inv'
<1> PICK s, was, row : /\ s = Start(p) /\ was = Ledger(s)[p] /\ row = RetiredRow(was, count[p])
  OBVIOUS
<1> DEFINE text == [Files(s)[p] EXCEPT ![EntryType(was)] = NoText]
<1>1. /\ OnBranch(p, row, text) /\ IsIdle /\ ~was.inline
      /\ UNCHANGED <<main, held, checkout, op, screen, count, rehomed, budget, astray>>
      /\ Decides(p, count[p])
  BY DEF Retire
<1>2. PICK m \in DOMAIN commits : Fork(commits, p, main, s, m, astray)
  BY StartForks DEF Inv, Typed
<1>3. was \in Row /\ Files(s)[p] \in Texts /\ count[p] \in Nat
  BY StartIs, CommitIs DEF Inv, Typed
<1>4. row \in Row /\ row.inline = was.inline /\ row.served_by = None /\ row.status = "retired"
      /\ count[p] <= Watermark(row)
  BY <1>3, RetiredRowIs
<1>5. PICK type, this : type = EntryType(was) /\ this = Files(s)[p]
  OBVIOUS
<1>6. /\ text \in Texts
      /\ \A t \in Types : text[t] = IF t = type THEN NoText ELSE this[t]
  <2>1. PICK new : new = [this EXCEPT ![type] = NoText]
    OBVIOUS
  <2>2. this \in [Types -> Nat \cup {Stub}] /\ NoText \in Nat
    BY <1>3, <1>5 DEF Texts, NoText
  <2>3. /\ new \in [Types -> Nat \cup {Stub}]
        /\ \A t \in Types : new[t] = IF t = type THEN NoText ELSE this[t]
    BY <2>1, <2>2
  <2>4. QED
    BY <1>5, <2>1, <2>3 DEF Texts
<1> HIDE DEF text
<1>7. Proposed(row)
  BY <1>1, <1>4 DEF Proposed
<1>8. \/ p \in astray
      \/ Drafted(row, text) /\ \A t \in Types : text[t] # NoText => t = EntryType(row)
  <2>1. SUFFICES ASSUME p \notin astray PROVE \A t \in Types : text[t] = NoText
    BY <1>4, <1>7, ReviewAssumption DEF Drafted
  <2>2. \A t \in Types : this[t] # NoText => t = type
    BY <1>2, <1>5, <2>1 DEF Fork, Fits, Files, Ledger
  <2>3. QED
    BY <1>6, <2>2
<1>9. /\ RepoTyped' /\ Git' /\ Grown(commits, commits')
      /\ \A q \in Patterns : Staged(q)' = (IF q = p THEN row ELSE Staged(q))
                             /\ Live(q)' = Live(q) /\ (Merged(q)' => q # p /\ Merged(q))
  BY <1>1, <1>2, <1>4, <1>6, <1>7, <1>8, OnBranchKeeps
<1>10. Marks' /\ refused' \in [Patterns -> Nat] /\ retiring' \in [Patterns -> Nat]
  <2>1. retiring'[p] = count[p] /\ count[p] <= count[p]
    BY <1>1, <1>3 DEF Decides, Inv, Typed
  <2>2. Remembers(p)' /\ RetirementRemembers(p)'
    BY <1>4, <1>9, <2>1 DEF Remembers, RetirementRemembers
  <2>3. QED
    BY <1>1, <1>3, <1>9, <2>1, <2>2, Decided
<1>11. Typed' /\ ScreenInv'
  <2>1. Typed'
    BY <1>1, <1>9, <1>10 DEF Inv, Typed
  <2>2. QED
    BY <1>1, <1>9, <2>1, ScreenStays DEF Typed, RepoTyped
<1>12. AcceptInv' /\ TickInv' /\ DropInv'
  BY <1>1, OverIsFine DEF IsIdle
<1>13. QED
  BY <1>9, <1>10, <1>11, <1>12 DEF Inv

\* A branch that goes on to something which is no retirement.
LEMMA MarksOnBranch ==
  ASSUME Inv, NEW p \in Patterns, UNCHANGED <<count, refused, retiring>>, NEW row,
         row.status # "retired", refused[p] <= Watermark(Live(p)),
         \A q \in Patterns : Staged(q)' = (IF q = p THEN row ELSE Staged(q))
                             /\ Live(q)' = Live(q) /\ (Merged(q)' => q # p /\ Merged(q))
  PROVE  Marks'
<1>1. SUFFICES ASSUME NEW q \in Patterns PROVE Mark(q)'
  BY DEF Marks
<1>2. CASE q = p
  BY <1>2, MarkOnLive
<1>3. CASE q # p
  <2>1. Live(q) \in Row /\ count[q] \in Nat /\ Watermark(Live(q)) \in Nat
    BY RowsAre DEF Inv
  <2>2. QED
    BY <1>3, <2>1, MarkStays
<1>4. QED
  BY <1>2, <1>3

\* A revision of what the person looked at, in words the branch did not have.
LEMMA ReviseCommitKeeps ==
  ASSUME Inv, NEW p \in Patterns, ReviseCommit(p)
  PROVE  Inv'
<1> PICK h, x, y, row, type : /\ h = commits /\ x = main /\ y = branch[p] /\ row = Staged(p)
                              /\ type = EntryType(row)
  OBVIOUS
<1>1. PICK words \in Nat : /\ IsText(words)
                           /\ OnBranch(p, row, [Files(y)[p] EXCEPT ![type] = words])
  <2>1. PICK words \in {Now, Files(main)[p][type]} :
          IsText(words) /\ OnBranch(p, row, [Files(y)[p] EXCEPT ![type] = words])
    BY DEF ReviseCommit
  <2>2. Now \in Nat /\ Files(main)[p] \in Texts /\ type \in Types
    BY NowIsNew, CommitIs, RowsAre, EntryTypes DEF Inv, Typed, RepoTyped
  <2>3. words \in Nat
    BY <2>1, <2>2 DEF Texts, IsText, Stub
  <2>4. QED
    BY <2>1, <2>3
<1> DEFINE text == [Files(y)[p] EXCEPT ![type] = words]
<1>2. /\ IsIdle /\ screen.pattern = p /\ screen.revising /\ screen.base = x /\ screen.tip = y
      /\ screen' = [pattern |-> p, base |-> x, tip |-> Now, revising |-> FALSE]
      /\ UNCHANGED <<main, held, checkout, op, count, rehomed, budget>>
      /\ UNCHANGED <<refused, retiring, astray>>
  BY DEF ReviseCommit, Unmoved, aux
<1>3. screen # Blank
  BY <1>2, ReviewAssumption DEF Blank
<1>4. /\ x \in DOMAIN h /\ y \in DOMAIN h /\ y \notin Anc(h, x) /\ h[y].ledger[p].status # "retired"
      /\ y # 0 /\ RepoTyped /\ x \in Nat
  BY <1>2, <1>3, NowIsNew DEF Inv, Typed, RepoTyped, ScreenInv, Ledger
<1>5. row = h[y].ledger[p] /\ row \in Row /\ type \in Types /\ Files(y)[p] \in Texts
      /\ Start(p) = y /\ row = Ledger(Start(p))[p]
  BY <1>4, RowsAre, EntryTypes, CommitIs DEF Inv, Exists, Start, Ledger
<1>6. PICK m \in DOMAIN h : Fork(h, p, x, y, m, astray)
  BY <1>4 DEF Inv, Git, Forks, Exists
<1>7. y # m
  BY <1>4, <1>6 DEF Fork
<1>8. text \in Texts /\ \A t \in Types : text[t] = IF t = type THEN words ELSE Files(y)[p][t]
  BY <1>5 DEF Texts
<1> HIDE DEF text
<1>9. Proposed(row) \/ h[y].extra # h[m].extra
  BY <1>5, <1>6, <1>7 DEF Fork
<1>10. \/ p \in astray
       \/ /\ \A t \in Types : text[t] # NoText => t = EntryType(row)
          /\ Drafted(row, text) \/ h[y].extra # h[m].extra
  <2>1. SUFFICES ASSUME p \notin astray
                 PROVE  /\ \A t \in Types : text[t] # NoText => t = EntryType(row)
                        /\ Drafted(row, text) \/ h[y].extra # h[m].extra
    OBVIOUS
  <2>2. Fits(h, p, y, m)
    BY <1>6, <2>1 DEF Fork
  <2>3. \A t \in Types : text[t] # NoText => t = EntryType(row)
    BY <1>5, <1>8, <2>2 DEF Fits, Files
  <2>4. ASSUME Drafted(row, h[y].files[p]) PROVE Drafted(row, text)
    <3>1. row.served_by = type /\ row.served_by # None
      BY <1>4, <1>5, <2>4 DEF Drafted, Proposed, EntryType
    <3>2. \A t \in Types : text[t] # NoText <=> row.served_by = t
      BY <1>1, <1>8, <2>4, <3>1 DEF Drafted, IsText, NoText, Files
    <3>3. QED
      BY <2>4, <3>2 DEF Drafted
  <2>5. QED
    BY <1>5, <1>7, <2>2, <2>3, <2>4 DEF Fits
<1>11. OnBranch(p, row, text)
  BY <1>1 DEF text
<1>12. /\ RepoTyped' /\ Git' /\ Grown(commits, commits') /\ Now \in DOMAIN commits'
       /\ \A q \in Patterns : Staged(q)' = (IF q = p THEN row ELSE Staged(q))
                              /\ Live(q)' = Live(q) /\ (Merged(q)' => q # p /\ Merged(q))
  BY <1>2, <1>5, <1>6, <1>8, <1>9, <1>10, <1>11, OnBranchKeeps
<1>13. screen' \in Screen
  BY <1>2, <1>4, NowIsNew DEF Screen
<1>14. Typed'
  BY <1>2, <1>12, <1>13 DEF Inv, Typed
<1>15. ScreenInv'
  <2>1. Anc(commits', x) = Anc(h, x) /\ Anc(h, x) \subseteq DOMAIN h /\ x \in DOMAIN commits'
    BY <1>4, <1>12, AncestorsStay DEF Inv, Typed, RepoTyped, Git
  <2>2. QED
    BY <1>2, <1>4, <1>12, <2>1, NowIsNew DEF ScreenInv
<1>16. AcceptInv' /\ TickInv' /\ DropInv'
  BY <1>2, OverIsFine DEF IsIdle
<1>17. Marks'
  <2>1. row.status # "retired"
    BY <1>4, <1>5
  <2>2. refused[p] <= Watermark(Live(p))
    BY <2>1 DEF Inv, Marks, Mark, Remembers
  <2>3. QED
    BY <1>2, <1>12, <2>1, <2>2, MarksOnBranch
<1>18. QED
  BY <1>12, <1>14, <1>15, <1>16, <1>17 DEF Inv

\* A fresh draft, instead of what the starting tree carried of the pattern.
LEMMA StageCommitKeeps ==
  ASSUME Inv, StageCommit
  PROVE  Inv'
<1>1. /\ UNCHANGED <<main, held, checkout, screen, count, rehomed, budget>>
      /\ UNCHANGED <<refused, retiring, astray>>
      /\ op.kind = "tick" /\ op.step = "commit"
      /\ op' = IF op.auto THEN [op EXCEPT !.step = "merge"] ELSE Idle
  BY DEF StageCommit, aux
<1>2. op \in TickOp
  BY <1>1, OpIs DEF Inv
<1>3. PICK p \in Patterns, type \in Types, auto \in BOOLEAN, n \in Nat, prior \in Row,
           staged \in Row :
        /\ p = op.pattern /\ type = op.type /\ auto = op.auto /\ n = op.count
        /\ prior = op.prior /\ staged = op.staged
  BY <1>2 DEF TickOp
<1> PICK s, was, row, old, x : /\ s = Start(p) /\ was = Ledger(s)[p] /\ old = OldType /\ x = main
                               /\ row = StagedRow(staged, prior, type, n, auto, Now)
  OBVIOUS
<1> DEFINE text == [[Files(s)[p] EXCEPT ![old] = NoText] EXCEPT ![type] = Now]
<1>4. OnBranch(p, row, text)
  BY <1>3 DEF StageCommit
<1>5. refused[p] <= Watermark(Live(p)) /\ (p \in astray \/ PlannedFrom(p))
  BY <1>1, <1>3 DEF Inv, TickInv
<1>6. Now \in Nat /\ Now > 0 /\ Files(s)[p] \in Texts /\ was \in Row /\ s \in DOMAIN commits
  BY NowIsNew, StartIs, CommitIs DEF Inv, Typed
<1>7. row \in Row /\ Proposed(row) /\ row.served_by = type
      /\ row.status = IF auto THEN "promoted" ELSE "staged"
  BY <1>6, StagedRowIs
<1>8. PICK m \in DOMAIN commits : Fork(commits, p, x, s, m, astray)
  BY StartForks DEF Inv, Typed
<1>9. PICK this, now : this = Files(s)[p] /\ now = Now
  OBVIOUS
<1>10. /\ text \in Texts
       /\ \A t \in Types : text[t] = IF t = type THEN now ELSE IF t = old THEN NoText ELSE this[t]
  <2>1. PICK new : new = [[this EXCEPT ![old] = NoText] EXCEPT ![type] = now]
    OBVIOUS
  <2>2. this \in [Types -> Nat \cup {Stub}] /\ now \in Nat /\ NoText \in Nat
    BY <1>6, <1>9 DEF Texts, NoText
  <2>3. /\ new \in [Types -> Nat \cup {Stub}]
        /\ \A t \in Types : new[t] = IF t = type THEN now ELSE IF t = old THEN NoText ELSE this[t]
    BY <2>1, <2>2
  <2>4. new = text
    BY <1>9, <2>1
  <2>5. QED
    BY <2>3, <2>4 DEF Texts
<1> HIDE DEF text
<1>11. ASSUME p \notin astray
       PROVE  /\ ~Live(p).inline /\ prior = Live(p) /\ row.inline = was.inline
              /\ \A t \in Types : text[t] = IF t = type THEN now ELSE NoText
  <2>1. /\ ~Live(p).inline /\ prior = Live(p)
        /\ was = IF Migrating(staged, prior) THEN staged ELSE prior
        /\ Known(was) \/ \A t \in Types : this[t] = NoText
    BY <1>1, <1>3, <1>5, <1>9, <1>11 DEF PlannedFrom
  <2>2. old = IF Known(was) THEN EntryType(was) ELSE type
    BY <1>3, <2>1 DEF OldType
  <2>3. Fits(commits, p, s, m)
    BY <1>8, <1>11 DEF Fork
  <2>4. was.inline = Live(p).inline /\ \A t \in Types : this[t] # NoText => t = EntryType(was)
    BY <1>8, <1>9, <2>3 DEF Fork, Fits, Kept, Live, Ledger, Files
  <2>5. row.inline = was.inline
    <3>1. was.inline \in BOOLEAN /\ row.inline \in BOOLEAN
      BY <1>6, <1>7 DEF Row, Fields
    <3>2. QED
      BY <1>7, <2>1, <2>4, <3>1 DEF Proposed
  <2>6. \A t \in Types : t # type /\ t # old => this[t] = NoText
    BY <2>1, <2>2, <2>4
  <2>7. QED
    BY <1>10, <2>1, <2>5, <2>6
<1>12. \/ p \in astray
       \/ /\ row.inline = Ledger(Start(p))[p].inline
          /\ \A t \in Types : text[t] # NoText => t = EntryType(row)
          /\ Drafted(row, text)
  BY <1>6, <1>7, <1>9, <1>11, ReviewAssumption DEF Drafted, EntryType, NoText
<1>13. /\ RepoTyped' /\ Git' /\ Grown(commits, commits') /\ Exists(p)'
       /\ Files(branch[p])'[p] = text
       /\ \A q \in Patterns : Staged(q)' = (IF q = p THEN row ELSE Staged(q))
                              /\ Live(q)' = Live(q) /\ (Merged(q)' => q # p /\ Merged(q))
  BY <1>1, <1>4, <1>7, <1>8, <1>10, <1>12, OnBranchKeeps
<1>14. op' \in TickOp \cup {Idle}
  BY <1>1, <1>2 DEF TickOp
<1>15. Typed'
  BY <1>1, <1>13, <1>14 DEF Inv, Typed
<1>16. ScreenInv'
  BY <1>1, <1>13, <1>15, ScreenStays DEF Typed, RepoTyped
<1>17. AcceptInv' /\ TickInv' /\ DropInv'
  <2>1. CASE ~op.auto
    BY <1>1, <2>1, OverIsFine
  <2>2. CASE op.auto
    <3>1. /\ op'.kind = "tick" /\ op'.step = "merge" /\ op'.pattern = p /\ op'.prior = prior
      BY <1>1, <1>2, <1>3, <2>2 DEF TickOp
    <3>2. p \in astray \/ Served(row, text)
      BY <1>3, <1>6, <1>7, <1>9, <1>11, <2>2, ReviewAssumption DEF Served, Proposed, IsText
    <3>3. p \in astray \/ PlannedFrom(p)'
      BY <1>11, <1>13, <3>1, <3>2 DEF PlannedFrom
    <3>4. QED
      BY <1>1, <1>5, <1>13, <3>1, <3>3 DEF AcceptInv, TickInv, DropInv
  <2>3. QED
    BY <2>1, <2>2
<1>18. Marks'
  <2>1. row.status # "retired"
    BY <1>7
  <2>2. QED
    BY <1>1, <1>5, <1>13, <2>1, MarksOnBranch
<1>19. QED
  BY <1>13, <1>15, <1>16, <1>17, <1>18 DEF Inv

------------------------------------------------------------------------------
(* The steps of an accept, and the merges.                                    *)

\* A merge of one pattern's branch merges no other.
LEMMA MergesOne ==
  ASSUME RepoTyped, Git, NEW p \in Patterns, NEW y \in DOMAIN commits, Exists(p),
         y \in Anc(commits, branch[p]), UNCHANGED <<commits, branch>>, main' = y,
         NEW q \in Patterns \ {p}, Merged(q)'
  PROVE  Merged(q)
<1> PICK h, x, b, c : h = commits /\ x = main /\ b = branch[p] /\ c = branch[q]
  OBVIOUS
<1>1. c # 0 /\ c \in Anc(h, y) /\ DAG(h)
  BY DEF Merged, Exists, IsAncestor, Anc, Git
<1>2. b \in DOMAIN h /\ c \in DOMAIN h
  BY <1>1, StartIs DEF Exists
<1>3. c \in Anc(h, b) /\ c \in Anc(h, c)
  BY <1>1, <1>2 DEF DAG
<1>4. c \in Anc(h, x)
  BY <1>1, <1>3 DEF Git, Apart, Exists
<1>5. QED
  BY <1>1, <1>4 DEF Merged, Exists, IsAncestor, Anc

\* A merge decides one pattern, and the row it publishes remembers the mark.
LEMMA MergeMarks ==
  ASSUME Inv, NEW p \in Patterns, NEW y \in DOMAIN commits, Exists(p),
         y \in Anc(commits, branch[p]), UNCHANGED <<commits, branch, count>>, main' = y,
         \A q \in Patterns \ {p} : Ledger(y)[q] = Live(q),
         NEW mark \in Nat, mark <= count[p], Decides(p, mark), mark <= Watermark(Ledger(y)[p]),
         Staged(p).status = "retired" => mark <= Watermark(Staged(p))
  PROVE  Marks' /\ refused' \in [Patterns -> Nat] /\ retiring' \in [Patterns -> Nat]
<1>1. \A q \in Patterns : Live(q)' = Ledger(y)[q] /\ Staged(q)' = Staged(q)
  BY DEF Live, Staged, Ledger
<1>2. refused'[p] = mark /\ retiring'[p] = mark
  BY DEF Decides, Inv, Typed
<1>3. Remembers(p)' /\ RetirementRemembers(p)'
  BY <1>1, <1>2 DEF Remembers, RetirementRemembers
<1>4. \A q \in Patterns \ {p} : Merged(q)' => Merged(q)
  BY MergesOne DEF Inv, Typed
<1>5. QED
  BY <1>1, <1>3, <1>4, Decided

\* What an automatic merge finds: the branch is ahead of the default branch and
\* of nothing else.
LEMMA AutoMergeIs ==
  ASSUME Inv, AutoMerge
  PROVE  /\ op.pattern \in Patterns /\ Exists(op.pattern) /\ branch[op.pattern] \in DOMAIN commits
         /\ \/ op.pattern \in astray
            \/ Served(Staged(op.pattern), Files(branch[op.pattern])[op.pattern])
         /\ \A q \in Patterns \ {op.pattern} :
              /\ Ledger(branch[op.pattern])[q] = Live(q)
              /\ Files(branch[op.pattern])[q] = Files(main)[q]
<1>1. PICK p, h, x, y :
        /\ p \in Patterns /\ p = op.pattern /\ h = commits /\ x = main /\ y = branch[p]
        /\ op.kind = "tick" /\ op.step = "merge"
  BY OpIs DEF Inv, AutoMerge, TickOp
<1>2. Exists(p) /\ (p \in astray \/ Served(Staged(p), Files(y)[p])) /\ x \in Anc(h, y)
  BY <1>1 DEF Inv, TickInv, PlannedFrom, AutoMerge, IsAncestor, Anc
<1>3. x \in DOMAIN h /\ y \in DOMAIN h /\ DAG(h) /\ x \in Nat /\ \A c \in DOMAIN h : c \in Nat
  BY <1>1, <1>2, StartIs, NowIsNew DEF Inv, Typed, RepoTyped, Git
<1>4. PICK m \in DOMAIN h : Fork(h, p, x, y, m, astray)
  BY <1>1, <1>2 DEF Inv, Git, Forks
<1>5. x \in Anc(h, x)
  BY <1>3 DEF DAG
<1>6. x \in Anc(h, m) /\ m \in Anc(h, x)
  BY <1>2, <1>4, <1>5 DEF Fork
<1>7. m = x
  BY <1>3, <1>6 DEF DAG
<1>8. \A q \in Patterns \ {p} : h[y].ledger[q] = h[x].ledger[q] /\ h[y].files[q] = h[x].files[q]
  BY <1>4, <1>7 DEF Fork
<1>9. QED
  BY <1>1, <1>2, <1>3, <1>8 DEF Live, Ledger, Files

\* An automatic merge of a tick publishes the draft it has just committed.
LEMMA AutoMergeKeeps ==
  ASSUME Inv, AutoMerge
  PROVE  Inv'
<1>1. PICK p, y : p \in Patterns /\ p = op.pattern /\ y = branch[p]
  BY AutoMergeIs
<1>2. /\ UNCHANGED <<commits, branch, held, checkout, screen, count, rehomed, budget, astray>>
      /\ op' = Idle /\ main' = y /\ Decides(p, 0) /\ main \in Anc(commits, y)
  BY <1>1 DEF AutoMerge, IsAncestor, Anc
<1>3. /\ Exists(p) /\ y \in DOMAIN commits /\ (p \in astray \/ Served(Staged(p), Files(y)[p]))
      /\ \A q \in Patterns \ {p} : Ledger(y)[q] = Live(q) /\ Files(y)[q] = Files(main)[q]
  BY <1>1, AutoMergeIs
<1>4. RepoTyped /\ Git /\ DAG(commits) /\ y \in Anc(commits, y) /\ commits \in Seq(Commit)
  BY <1>3 DEF Inv, Typed, RepoTyped, Git, DAG
<1>5. Staged(p) = Ledger(y)[p] /\ Ledger(y)[p] \in Row
  BY <1>1, <1>3, <1>4, RowsAre, CommitIs DEF Inv
<1>6. Fork(commits, p, y, y, y, astray)
  <2>1. PICK h, a : h = commits /\ a = astray
    OBVIOUS
  <2>2. h \in Seq(Commit) /\ DAG(h) /\ (p \in a \/ Served(h[y].ledger[p], h[y].files[p]))
        /\ h[y].ledger[p] \in Row /\ y \in DOMAIN h
    BY <1>3, <1>4, <1>5, <2>1 DEF Ledger, Files
  <2>3. Fork(h, p, y, y, y, a)
    BY <1>1, <2>2, ForkHere
  <2>4. QED
    BY <2>1, <2>3
<1>7. Git'
  BY <1>1, <1>2, <1>3, <1>4, <1>5, <1>6, MainMerges
<1>8. Marks' /\ refused' \in [Patterns -> Nat] /\ retiring' \in [Patterns -> Nat]
  <2>1. count[p] \in Nat /\ Watermark(Ledger(y)[p]) \in Nat /\ Watermark(Staged(p)) \in Nat
    BY <1>1, <1>5, RowsAre, Marked DEF Inv
  <2>2. QED
    BY <1>1, <1>2, <1>3, <1>4, <2>1, MergeMarks
<1>9. Typed'
  <2>1. RepoTyped'
    BY <1>2, <1>3 DEF Inv, Typed, RepoTyped
  <2>2. QED
    BY <1>2, <1>8, <2>1 DEF Inv, Typed
<1>10. ScreenInv' /\ AcceptInv' /\ TickInv' /\ DropInv'
  BY <1>2, <1>4, ScreenStays, OverIsFine
<1>11. QED
  BY <1>7, <1>8, <1>9, <1>10 DEF Inv

\* What the base says of the artifact has the shape it had where the two parted.
LEMMA SameShape ==
  ASSUME NEW row \in Row, NEW files \in Texts, Served(row, files), NEW was \in Row,
         NEW before \in Texts, Served(was, before), Kept(row, was), NEW t \in Types
  PROVE  /\ IsText(files[t]) <=> IsText(before[t])
         /\ files[t] = NoText <=> before[t] = NoText
<1>1. IsText(files[t]) <=> (IsLiveLoop(row) /\ row.served_by = t)
  BY LiveServed DEF IsText, NoText
<1>2. IsText(before[t]) <=> (IsLiveLoop(was) /\ was.served_by = t)
  BY LiveServed DEF IsText, NoText
<1>3. (IsText(files[t]) \/ files[t] = NoText) /\ (IsText(before[t]) \/ before[t] = NoText)
  BY LiveServed
<1>4. QED
  BY <1>1, <1>2, <1>3 DEF Kept, IsText, NoText

\* A draft brought into the base serves the pattern, whatever was corrected there.
LEMMA MergedIsServed ==
  ASSUME NEW entry \in Row, NEW draft \in Texts, Drafted(entry, draft),
         draft[EntryType(entry)] # Stub,
         NEW live \in Row, NEW files \in Texts, Served(live, files),
         NEW was \in Row, NEW before \in Texts, Served(was, before), Kept(live, was),
         NEW now \in Nat, NEW row, row = AcceptedRow(entry, live, now),
         NEW text, text = [t \in Types |-> IF draft[t] # before[t] THEN draft[t] ELSE files[t]]
  PROVE  Served(row, text) /\ Drafted(row, text)
<1>1. Proposed(entry)
  BY DEF Drafted
<1>2. /\ row \in Row /\ Proposed(row) /\ row.served_by = entry.served_by
      /\ row.inline = entry.inline /\ Watermark(row) = Watermark(entry)
      /\ entry.status = "retired" => row.status = "retired"
      /\ entry.status # "retired" => row.status = "promoted"
  <2>1. AcceptedFrom(row, entry)
    BY <1>1, AcceptedRowIs
  <2>2. QED
    BY <2>1 DEF AcceptedFrom
<1>3. entry.status # "retired" => entry.served_by # None
  BY <1>1 DEF Proposed
<1>4. ASSUME NEW t \in Types
      PROVE  IF row.served_by = t THEN IsText(text[t]) ELSE text[t] = NoText
  <2>1. /\ IsText(files[t]) <=> IsText(before[t])
        /\ files[t] = NoText <=> before[t] = NoText
    BY SameShape
  <2>2. draft[t] # NoText <=> row.served_by = t
    BY <1>2 DEF Drafted
  <2>3. row.served_by = t => IsText(draft[t])
    <3>1. SUFFICES ASSUME row.served_by = t PROVE IsText(draft[t])
      OBVIOUS
    <3>2. EntryType(entry) = t
      BY <1>2, <3>1, ReviewAssumption DEF EntryType
    <3>3. QED
      BY <2>2, <3>1, <3>2 DEF Texts, IsText, NoText
  <2>4. text[t] = IF draft[t] # before[t] THEN draft[t] ELSE files[t]
    OBVIOUS
  <2>5. CASE draft[t] # before[t]
    BY <2>2, <2>3, <2>4, <2>5
  <2>6. CASE draft[t] = before[t]
    BY <2>1, <2>2, <2>3, <2>4, <2>6
  <2>7. QED
    BY <2>5, <2>6
<1>5. Served(row, text)
  BY <1>2, <1>4 DEF Served, Proposed
<1>6. \A t \in Types : text[t] # NoText <=> row.served_by = t
  BY <1>4 DEF IsText, NoText
<1>7. QED
  BY <1>2, <1>5, <1>6 DEF Drafted

\* What an accept has checked stays checked in a longer history.
LEMMA ReviewedStays ==
  ASSUME NEW h \in Seq(Commit), NEW g \in Seq(Commit), DAG(h), Grown(h, g), NEW p \in Patterns,
         NEW x \in DOMAIN h, NEW base, NEW tip, NEW m, NEW a, Reviewed(h, p, base, tip, m, x, a)
  PROVE  Reviewed(g, p, base, tip, m, x, a)
<1>1. base \in DOMAIN h /\ tip \in DOMAIN h /\ m \in DOMAIN h
  BY DEF Reviewed
<1>2. g[base] = h[base] /\ g[tip] = h[tip] /\ g[m] = h[m] /\ g[x] = h[x]
      /\ base \in DOMAIN g /\ tip \in DOMAIN g /\ m \in DOMAIN g
  BY <1>1, AncestorsStay DEF Grown
<1>3. Anc(g, base) = Anc(h, base) /\ Anc(g, tip) = Anc(h, tip) /\ Anc(g, x) = Anc(h, x)
  BY <1>1, AncestorsStay
<1>4. Fork(g, p, base, tip, m, a)
  BY <1>1, ForkStays DEF Reviewed
<1>5. Corrected(h, p) => Corrected(g, p)
  BY CorrectedStays
<1>6. QED
  BY <1>2, <1>3, <1>4, <1>5 DEF Reviewed

\* The prepared commit brings the base into the reviewed branch.
LEMMA AcceptPrepareKeeps ==
  ASSUME Inv, AcceptPrepare
  PROVE  Inv'
<1>1. /\ UNCHANGED <<main, held, checkout, screen, count, rehomed, budget>>
      /\ UNCHANGED <<refused, retiring, astray>>
      /\ op.kind = "accept" /\ op.step = "prepare"
      /\ op' = [op EXCEPT !.step = "merge", !.made = Now]
  BY DEF AcceptPrepare, aux
<1>2. op \in AcceptOp
  BY <1>1, OpIs DEF Inv
<1>3. PICK p, base, tip, x, h, g, n, a :
        /\ a = astray /\ p \in Patterns /\ p = op.pattern /\ base = op.base /\ tip = op.tip
        /\ x = main /\ h = commits /\ g = commits' /\ n = Now
  BY <1>2 DEF AcceptOp
<1>4. /\ op.seen.base = base /\ op.seen.tip = tip
      /\ \E m \in DOMAIN h : Reviewed(h, p, base, tip, m, x, a)
  BY <1>1, <1>3 DEF Inv, AcceptInv
<1>5. PICK m \in DOMAIN h : Reviewed(h, p, base, tip, m, x, a)
  BY <1>4
<1>6. /\ base \in DOMAIN h /\ tip \in DOMAIN h /\ x \in DOMAIN h /\ DAG(h) /\ h \in Seq(Commit)
      /\ RepoTyped /\ Git
  BY <1>3, <1>5 DEF Reviewed, Inv, Typed, RepoTyped, Git
<1>7. /\ n = Len(h) + 1 /\ n \in Nat /\ n # 0 /\ n \notin DOMAIN h /\ tip # 0
      /\ \A c \in DOMAIN h : c <= n
  BY <1>3, <1>6, NowIsNew DEF Now
<1>8. MergeBase(base, tip) = m
  BY <1>3, <1>5, <1>6, MergeBaseIs DEF Reviewed, Fork
<1> DEFINE entry == h[tip].ledger[p]
           live == h[base].ledger[p]
           draft == h[tip].files[p]
           files == h[base].files[p]
           before == h[m].files[p]
           row == AcceptedRow(entry, live, n)
           text == [t \in Types |-> IF draft[t] # before[t] THEN draft[t] ELSE files[t]]
           ledgers == [h[base].ledger EXCEPT ![p] = row]
           texts == [h[base].files EXCEPT ![p] = text]
           ancestors == Anc(h, tip) \cup Anc(h, base)
<1>9. AcceptedLedger(p, base, tip) = ledgers /\ MergedFiles(p, base, tip) = texts
  <2>1. AcceptedLedger(p, base, tip) = ledgers
    BY <1>3 DEF AcceptedLedger, Ledger
  <2>2. MergedFiles(p, base, tip) = texts
    BY <1>3, <1>8 DEF MergedFiles, Sides, Files
  <2>3. QED
    BY <2>1, <2>2
<1>10. /\ entry \in Row /\ live \in Row /\ h[m].ledger[p] \in Row
       /\ draft \in Texts /\ files \in Texts /\ before \in Texts
       /\ h[base].ledger \in [Patterns -> Row] /\ h[base].files \in [Patterns -> Texts]
       /\ h[base].extra \in Nat /\ h[base].extra <= base
  BY <1>3, <1>6, CommitIs DEF Ledger, Files, DAG
<1>11. Proposed(entry) /\ (p \in a \/ Fits(h, p, tip, m))
  <2>1. tip # m
    BY <1>5 DEF Reviewed, Fork
  <2>2. QED
    BY <1>5, <2>1 DEF Reviewed, Fork
<1>12. /\ row \in Row /\ Proposed(row) /\ (row.status = "retired" <=> entry.status = "retired")
       /\ Watermark(row) = Watermark(entry) /\ text \in Texts
       /\ p \in a \/ (Served(row, text) /\ Drafted(row, text))
  <2>1. draft[EntryType(entry)] # Stub /\ Kept(live, h[m].ledger[p])
        /\ (p \in a \/ Served(live, files))
    BY <1>5 DEF Reviewed, Fork
  <2>2. ASSUME p \notin a PROVE Drafted(entry, draft) /\ Served(h[m].ledger[p], before)
    <3>1. tip # m /\ h[tip].extra = h[m].extra
      BY <1>5 DEF Reviewed, Fork
    <3>2. QED
      BY <1>11, <2>2, <3>1 DEF Fits
  <2> HIDE DEF entry, live, draft, files, before
  <2>3. /\ row \in Row /\ Proposed(row) /\ (row.status = "retired" <=> entry.status = "retired")
        /\ Watermark(row) = Watermark(entry)
    <3>1. PICK r : r = row
      OBVIOUS
    <3>2. r = AcceptedRow(entry, live, n)
      BY <3>1
    <3> HIDE DEF row
    <3>3. AcceptedFrom(r, entry)
      BY <1>7, <1>10, <1>11, <3>2, AcceptedRowIs
    <3>4. QED
      BY <3>1, <3>3 DEF AcceptedFrom
  <2>4. text \in Texts
    BY <1>10 DEF Texts
  <2>5. ASSUME p \notin a PROVE Served(row, text) /\ Drafted(row, text)
    BY <1>7, <1>10, <2>1, <2>2, <2>5, MergedIsServed
  <2>6. QED
    BY <2>3, <2>4, <2>5
<1>13. /\ ledgers \in [Patterns -> Row] /\ texts \in [Patterns -> Texts]
       /\ ledgers[p] = row /\ texts[p] = text
       /\ \A q \in Patterns \ {p} : /\ ledgers[q] = h[base].ledger[q]
                                    /\ texts[q] = h[base].files[q]
  <2> HIDE DEF row, text
  <2>1. QED
    BY <1>3, <1>10, <1>12
<1> HIDE DEF row, text, ledgers, texts
<1>14. /\ branch[p] = tip /\ branch' = [branch EXCEPT ![p] = Now]
       /\ Committed(IF base \in Anc(h, tip) THEN <<tip>> ELSE <<tip, base>>, ledgers, texts,
                    h[base].extra, "accept")
  BY <1>1, <1>3, <1>9 DEF AcceptPrepare, Preparable, IsAncestor, Anc
<1>15. g \in Seq(Commit) /\ Made(h, g, ancestors, ledgers, texts, h[base].extra, "accept")
  <2>1. CASE base \in Anc(h, tip)
    <3>1. Anc(h, base) \subseteq Anc(h, tip)
      BY <1>6, <2>1 DEF DAG
    <3>2. ancestors = Anc(h, tip)
      BY <3>1
    <3>3. /\ commits' \in Seq(Commit)
          /\ Made(commits, commits', Anc(commits, tip), ledgers, texts, h[base].extra, "accept")
      BY <1>3, <1>6, <1>10, <1>13, <1>14, <2>1, CommitOnOne
    <3>4. QED
      BY <1>3, <3>2, <3>3
  <2>2. CASE base \notin Anc(h, tip)
    <3>1. Committed(<<tip, base>>, ledgers, texts, h[base].extra, "accept")
      BY <1>14, <2>2
    <3>2. QED
      BY <1>3, <1>6, <1>10, <1>13, <3>1, CommitOnTwo
  <2>3. QED
    BY <2>1, <2>2
<1>16. Grown(h, g) /\ DOMAIN g = DOMAIN h \cup {n}
  BY <1>6, <1>7, <1>15, MadeGrows
<1>17. DAG(g)
  <2>1. ancestors \subseteq DOMAIN h /\ \A d \in ancestors : Anc(h, d) \subseteq ancestors
    BY <1>6, <1>16, <1>15, AncestorsStay
  <2>2. h[base].extra <= n
    BY <1>6, <1>7, <1>10, <1>3, NowIsNew
  <2>3. PICK subject : subject = "accept"
    OBVIOUS
  <2>4. Made(h, g, ancestors, ledgers, texts, h[base].extra, subject) /\ subject # "person"
    BY <1>15, <2>3
  <2>5. QED
    BY <1>6, <1>7, <1>15, <2>1, <2>2, <2>4, DagGrows
<1>18. /\ Anc(g, n) = {n} \cup ancestors /\ g[n].ledger = ledgers /\ g[n].files = texts
       /\ g[n].extra = h[base].extra /\ g[base] = h[base] /\ g[x] = h[x] /\ g[m] = h[m]
       /\ g[tip] = h[tip]
       /\ Anc(g, base) = Anc(h, base) /\ Anc(g, x) = Anc(h, x) /\ Anc(g, tip) = Anc(h, tip)
       /\ base \in Anc(h, base) /\ n \notin Anc(h, x)
  <2>1. /\ Anc(g, base) = Anc(h, base) /\ Anc(g, x) = Anc(h, x) /\ Anc(g, tip) = Anc(h, tip)
        /\ base \in Anc(h, base) /\ Anc(h, x) \subseteq DOMAIN h
    BY <1>6, <1>15, <1>16, AncestorsStay
  <2>2. QED
    BY <1>6, <1>7, <1>15, <2>1 DEF Made, Anc
<1>19. p \in a \/ \A t \in Types : text[t] # NoText => t = EntryType(row)
  BY <1>12, ReviewAssumption DEF Drafted, EntryType
<1>20. Fork(g, p, x, n, base, a)
  <2>1. base \in Anc(g, x) /\ base \in Anc(g, n) /\ Anc(g, x) \cap Anc(g, n) \subseteq Anc(g, base)
    BY <1>5, <1>18 DEF Reviewed
  <2>2. \A q \in Patterns \ {p} : /\ g[n].ledger[q] = g[base].ledger[q]
                                  /\ g[n].files[q] = g[base].files[q]
    BY <1>13, <1>18
  <2>3. g[x].files[p] = g[base].files[p] \/ Corrected(g, p)
    BY <1>5, <1>6, <1>15, <1>16, <1>18, CorrectedStays DEF Reviewed
  <2>4. Kept(g[x].ledger[p], g[base].ledger[p]) /\ Proposed(g[n].ledger[p])
        /\ (p \in a \/ Served(g[base].ledger[p], g[base].files[p]))
    BY <1>5, <1>12, <1>13, <1>18 DEF Reviewed, Kept
  <2>5. g[n].ledger[p].inline = g[base].ledger[p].inline
    <3>1. ~row.inline /\ ~live.inline /\ row.inline \in BOOLEAN /\ live.inline \in BOOLEAN
      BY <1>5, <1>10, <1>12 DEF Proposed, Reviewed, Row, Fields
    <3>2. row.inline = live.inline
      BY <3>1
    <3>3. QED
      BY <1>13, <1>18, <3>2
  <2>6. \/ p \in a
        \/ /\ \A t \in Types : g[n].files[p][t] # NoText => t = EntryType(g[n].ledger[p])
           /\ Drafted(g[n].ledger[p], g[n].files[p])
    BY <1>12, <1>13, <1>18, <1>19
  <2>7. p \in a \/ Fits(g, p, n, base)
    BY <2>4, <2>5, <2>6 DEF Fits
  <2>8. QED
    BY <1>18, <2>1, <2>2, <2>3, <2>4, <2>7 DEF Fork
<1>21. Git'
  <2>1. \A q \in Patterns \ {p} :
          Exists(q) => ancestors \cap Anc(commits, branch[q]) \subseteq Anc(commits, main)
    <3>1. Exists(p)
      BY <1>7, <1>14 DEF Exists
    <3>2. \A q \in Patterns \ {p} :
            Exists(q) => Anc(h, tip) \cap Anc(h, branch[q]) \subseteq Anc(h, x)
      BY <1>3, <1>6, <1>14, <3>1 DEF Git, Apart
    <3>3. Anc(h, base) \subseteq Anc(h, x)
      BY <1>5 DEF Reviewed
    <3>4. QED
      BY <1>3, <3>2, <3>3
  <2>2. main' = main /\ astray' = astray /\ Moved(p, Now)
    BY <1>1, <1>14 DEF Moved
  <2>3. PICK subject, extra : subject = "accept" /\ extra = h[base].extra
    OBVIOUS
  <2>4. Made(h, g, ancestors, ledgers, texts, extra, subject)
    BY <1>15, <2>3
  <2>5. QED
    BY <1>3, <1>6, <1>15, <1>17, <1>20, <2>1, <2>2, <2>4, BranchMoves
<1>22. RepoTyped'
  <2>1. held' \subseteq Patterns /\ main' \in {main, Now} /\ checkout' = checkout
    BY <1>1, <1>6 DEF RepoTyped
  <2>2. QED
    BY <1>3, <1>6, <1>14, <1>15, <2>1, RepoGrows
<1>23. op' \in AcceptOp /\ op'.kind = "accept" /\ op'.step = "merge" /\ op'.pattern = p
       /\ op'.base = base /\ op'.tip = tip /\ op'.made = n /\ op'.seen = op.seen
  BY <1>1, <1>2, <1>3, <1>7 DEF AcceptOp
<1>24. Typed'
  BY <1>1, <1>22, <1>23 DEF Inv, Typed
<1>25. ScreenInv'
  BY <1>1, <1>3, <1>15, <1>16, ScreenStays
<1>26. \A q \in Patterns : branch'[q] = IF q = p THEN n ELSE branch[q]
  BY <1>3, <1>6, <1>14 DEF RepoTyped
<1>27. Joined(g, p, base, tip, m, x, n, n, a)
  <2>1. n \in DOMAIN g /\ (p \in a \/ Served(g[n].ledger[p], g[n].files[p]))
        /\ g[n].ledger[p] \in Row
    BY <1>12, <1>13, <1>16, <1>18
  <2>2. Fork(g, p, n, n, n, a)
    BY <1>3, <1>15, <1>17, <2>1, ForkHere
  <2>3. n \notin Anc(g, x) /\ Anc(g, n) = {n} \cup Anc(g, tip) \cup Anc(g, base)
    BY <1>18
  <2>4. g[n].ledger = [g[base].ledger EXCEPT ![p] = AcceptedRow(g[tip].ledger[p], @, n)]
    BY <1>18 DEF ledgers, row
  <2>5. g[n].files =
          [g[base].files EXCEPT ![p] = [t \in Types |->
             IF g[tip].files[p][t] # g[m].files[p][t] THEN g[tip].files[p][t] ELSE @[t]]]
    BY <1>18 DEF texts, text
  <2>6. QED
    BY <2>1, <2>2, <2>3, <2>4, <2>5 DEF Joined, TakesOver
<1>28. AcceptInv' /\ TickInv' /\ DropInv'
  <2>1. Reviewed(g, p, base, tip, m, x, a) /\ m \in DOMAIN g
    BY <1>3, <1>5, <1>6, <1>15, <1>16, ReviewedStays
  <2>2. branch'[p] = n
    BY <1>3, <1>26
  <2>3. AcceptInv'
    BY <1>1, <1>3, <1>4, <1>23, <1>27, <2>1, <2>2 DEF AcceptInv
  <2>4. QED
    BY <1>23, <2>3 DEF TickInv, DropInv
<1>29. ASSUME NEW q \in Patterns PROVE Mark(q)'
  <2>1. Live(q)' = Live(q) /\ Staged(q)' = IF q = p THEN row ELSE Staged(q)
    BY <1>1, <1>3, <1>6, <1>13, <1>15, <1>26, RowsNext
  <2>2. Mark(q) /\ Live(q) \in Row /\ count[q] \in Nat /\ Watermark(Live(q)) \in Nat
    BY RowsAre DEF Inv, Marks
  <2>3. Staged(p) = entry
    BY <1>3, <1>7, <1>14 DEF Staged, Ledger
  <2>4. CASE q = p /\ row.status = "retired"
    <3>1. ~Merged(q)'
      BY <1>1, <1>3, <1>6, <1>15, <1>26, <2>4, MergedNext
    <3>2. Remembers(q)'
      BY <2>1, <2>4, <3>1 DEF Remembers
    <3>3. RetirementRemembers(q)'
      BY <1>1, <1>12, <2>1, <2>2, <2>3, <2>4 DEF Mark, RetirementRemembers
    <3>4. QED
      BY <1>1, <2>2, <3>2, <3>3 DEF Mark
  <2>5. CASE q = p /\ row.status # "retired"
    <3>1. refused[q] <= Watermark(Live(q))
      BY <1>12, <2>2, <2>3, <2>5 DEF Mark, Remembers
    <3>2. QED
      BY <1>1, <2>1, <2>5, <3>1, MarkOnLive
  <2>6. CASE q # p
    <3>1. Merged(q)' => Merged(q)
      BY <1>1, <1>3, <1>6, <1>15, <1>26, <2>6, MergedNext
    <3>2. QED
      BY <1>1, <2>1, <2>2, <2>6, <3>1, MarkStays
  <2>7. QED
    BY <2>4, <2>5, <2>6
<1>30. QED
  BY <1>21, <1>24, <1>25, <1>28, <1>29 DEF Inv, Marks

\* What the merge of an accept finds: the default branch is still the base.
LEMMA AcceptMergeIs ==
  ASSUME Inv, AcceptMerge
  PROVE  /\ op \in AcceptOp /\ main = op.base /\ op.seen.base = op.base /\ op.seen.tip = op.tip
         /\ op.made \in DOMAIN commits
         /\ \E m \in DOMAIN commits :
              /\ Reviewed(commits, op.pattern, op.base, op.tip, m, main, astray)
              /\ Joined(commits, op.pattern, op.base, op.tip, m, main, op.made,
                        branch[op.pattern], astray)
              /\ MergeBase(op.base, op.tip) = m
         /\ \A q \in Patterns \ {op.pattern} :
              Ledger(op.made)[q] = Live(q) /\ Files(op.made)[q] = Files(main)[q]
<1>1. op \in AcceptOp /\ op.step = "merge" /\ op.kind = "accept" /\ IsAncestor(main, op.made)
  BY OpIs DEF Inv, AcceptMerge
<1>2. PICK p, base, tip, made, x, h :
        /\ p \in Patterns
        /\ p = op.pattern /\ base = op.base /\ tip = op.tip /\ made = op.made
        /\ x = main /\ h = commits
  BY <1>1 DEF AcceptOp
<1>3. op.seen.base = base /\ op.seen.tip = tip
  BY <1>1, <1>2 DEF Inv, AcceptInv
<1>4. PICK m \in DOMAIN h : Reviewed(h, p, base, tip, m, x, astray)
                            /\ Joined(h, p, base, tip, m, x, made, branch[p], astray)
  BY <1>1, <1>2 DEF Inv, AcceptInv
<1>5. x \in DOMAIN h /\ DAG(h) /\ x \in Anc(h, x) /\ RepoTyped
  BY <1>2 DEF Inv, Typed, RepoTyped, Git, DAG
<1>6. x = base
  BY <1>1, <1>2, <1>4, <1>5 DEF Reviewed, Joined, IsAncestor, Anc
<1>7. MergeBase(base, tip) = m
  BY <1>2, <1>4, <1>5, MergeBaseIs DEF Reviewed, Fork
<1>8. \A q \in Patterns \ {p} : /\ h[made].ledger[q] = h[base].ledger[q]
                                /\ h[made].files[q] = h[base].files[q]
  <2>1. base \in DOMAIN h /\ h[base].ledger \in [Patterns -> Row]
        /\ h[base].files \in [Patterns -> Texts]
    BY <1>2, <1>4, <1>5, CommitIs DEF Reviewed, Ledger, Files
  <2>2. PICK ledger, files : /\ ledger = h[made].ledger /\ files = h[made].files
    OBVIOUS
  <2>3. PICK row, text : /\ ledger = [h[base].ledger EXCEPT ![p] = row]
                         /\ files = [h[base].files EXCEPT ![p] = text]
    BY <1>4, <2>2 DEF Joined, TakesOver
  <2>4. QED
    BY <2>1, <2>2, <2>3
<1>9. made \in DOMAIN h
  BY <1>4 DEF Joined
<1>10. QED
  BY <1>1, <1>2, <1>3, <1>4, <1>6, <1>7, <1>8, <1>9 DEF Live, Ledger, Files

\* The merge of an accept publishes the prepared commit.
LEMMA AcceptMergeKeeps ==
  ASSUME Inv, AcceptMerge
  PROVE  Inv'
<1>1. /\ UNCHANGED <<commits, branch, held, checkout, screen, count, rehomed, budget, astray>>
      /\ op.kind = "accept" /\ op.step = "merge" /\ IsAncestor(main, op.made)
      /\ op' = [kind |-> "drop", pattern |-> op.pattern] /\ main' = op.made
      /\ Decides(op.pattern, IF Ledger(op.made)[op.pattern].status = "retired"
                             THEN retiring[op.pattern] ELSE 0)
  BY DEF AcceptMerge
<1>2. PICK p, base, tip, made, x, h, b, a :
        /\ p \in Patterns /\ a = astray
        /\ p = op.pattern /\ base = op.base /\ tip = op.tip /\ made = op.made
        /\ x = main /\ h = commits /\ b = branch[p]
  BY AcceptMergeIs DEF AcceptOp
<1>3. /\ x = base /\ made \in DOMAIN h
      /\ \A q \in Patterns \ {p} : Ledger(made)[q] = Live(q) /\ Files(made)[q] = Files(main)[q]
  BY <1>2, AcceptMergeIs
<1>4. PICK m \in DOMAIN h : /\ Reviewed(h, p, base, tip, m, x, a)
                            /\ Joined(h, p, base, tip, m, x, made, b, a)
  BY <1>2, AcceptMergeIs
<1>5. /\ Exists(p) /\ b \in DOMAIN h /\ RepoTyped /\ Git /\ DAG(h) /\ h \in Seq(Commit)
      /\ main \in Anc(commits, made)
  <2>1. RepoTyped /\ Git
    BY DEF Inv, Typed
  <2>2. DAG(h) /\ h \in Seq(Commit)
    BY <1>2, <2>1 DEF Git, RepoTyped
  <2>3. b \in DOMAIN h
    BY <1>4 DEF Joined
  <2>4. Exists(p)
    BY <1>2, <2>1, <2>3, NowIsNew DEF Exists
  <2>5. main \in Anc(commits, made)
    BY <1>1, <1>2 DEF IsAncestor, Anc
  <2>6. QED
    BY <2>1, <2>2, <2>3, <2>4, <2>5
<1>6. /\ Fork(h, p, made, b, made, a) /\ made \in Anc(h, b)
      /\ p \in a \/ Served(Ledger(made)[p], Files(made)[p])
  BY <1>2, <1>4 DEF Joined, Fork, Ledger, Files
<1>7. Git'
  BY <1>1, <1>2, <1>3, <1>5, <1>6, MainMerges
<1> DEFINE row == Ledger(made)[p]
<1>8. row \in Row /\ Staged(p) = row /\ Watermark(row) \in Nat
  BY <1>2, <1>3, <1>4, <1>5, CommitIs, Marked DEF Joined, Staged, Ledger, Exists
<1>9. PICK mark \in Nat :
        /\ mark <= count[p] /\ mark <= Watermark(row) /\ Decides(p, mark)
  <2>1. /\ retiring[p] <= refused[p] /\ refused[p] <= count[p]
        /\ row.status = "retired" => retiring[p] <= Watermark(row)
        /\ count[p] \in Nat /\ refused[p] \in Nat /\ retiring[p] \in Nat
    BY <1>2, <1>8, RowsAre DEF Inv, Marks, Mark, RetirementRemembers
  <2>2. Decides(p, IF row.status = "retired" THEN retiring[p] ELSE 0)
    BY <1>1, <1>2
  <2>3. CASE row.status = "retired"
    BY <2>1, <2>2, <2>3
  <2>4. CASE row.status # "retired"
    BY <1>8, <2>1, <2>2, <2>4
  <2>5. QED
    BY <2>3, <2>4
<1> HIDE DEF row
<1>10. Marks' /\ refused' \in [Patterns -> Nat] /\ retiring' \in [Patterns -> Nat]
  <2>1. mark <= Watermark(Ledger(made)[p])
    BY <1>9 DEF row
  <2>2. mark <= Watermark(Staged(p))
    BY <1>8, <1>9
  <2>3. main' = made
    BY <1>1, <1>2
  <2>4. QED
    BY <1>1, <1>2, <1>3, <1>5, <1>6, <1>9, <2>1, <2>2, <2>3, MergeMarks
<1>11. op' \in DropOp /\ op'.pattern = p /\ op'.kind = "drop"
  BY <1>1, <1>2 DEF DropOp
<1>12. Typed'
  <2>1. RepoTyped'
    BY <1>1, <1>2, <1>3, <1>5 DEF RepoTyped
  <2>2. QED
    BY <1>1, <1>10, <1>11, <2>1 DEF Inv, Typed
<1>13. ScreenInv'
  BY <1>1, <1>2, <1>5, ScreenStays
<1>14. AcceptInv' /\ TickInv' /\ DropInv'
  <2>1. Live(p)' = row
    BY <1>1, <1>2 DEF Live, Ledger, row
  <2>2. refused'[p] = mark
    BY <1>2, <1>9 DEF Decides, Inv, Typed
  <2>3. QED
    BY <1>9, <1>11, <2>1, <2>2 DEF AcceptInv, TickInv, DropInv
<1>15. QED
  BY <1>7, <1>10, <1>12, <1>13, <1>14 DEF Inv

------------------------------------------------------------------------------
(* A person's own commands.                                                   *)

\* The prepared commit stays what it is in a longer history.
LEMMA JoinedStays ==
  ASSUME NEW h \in Seq(Commit), NEW g \in Seq(Commit), DAG(h), Grown(h, g), NEW p \in Patterns,
         NEW x \in DOMAIN h, NEW base, NEW tip, NEW m, NEW a,
         Reviewed(h, p, base, tip, m, x, a),
         NEW made, NEW b, Joined(h, p, base, tip, m, x, made, b, a)
  PROVE  Joined(g, p, base, tip, m, x, made, b, a)
<1>1. /\ base \in DOMAIN h /\ tip \in DOMAIN h /\ m \in DOMAIN h /\ made \in DOMAIN h
      /\ b \in DOMAIN h
  BY DEF Reviewed, Joined
<1>2. /\ g[base] = h[base] /\ g[tip] = h[tip] /\ g[m] = h[m] /\ g[made] = h[made]
      /\ g[b] = h[b] /\ made \in DOMAIN g /\ b \in DOMAIN g
  BY <1>1, AncestorsStay DEF Grown
<1>3. /\ Anc(g, base) = Anc(h, base) /\ Anc(g, tip) = Anc(h, tip) /\ Anc(g, x) = Anc(h, x)
      /\ Anc(g, made) = Anc(h, made)
  BY <1>1, AncestorsStay
<1>4. Fork(g, p, made, b, made, a)
  BY <1>1, ForkStays DEF Joined
<1>5. QED
  BY <1>2, <1>3, <1>4 DEF Joined

\* A person's commit on the default branch leaves what an accept has checked.
LEMMA ReviewedGoesOn ==
  ASSUME NEW h \in Seq(Commit), NEW g \in Seq(Commit), DAG(h), NEW p \in Patterns,
         NEW x \in DOMAIN h, NEW base, NEW tip, NEW m, NEW a,
         Reviewed(h, p, base, tip, m, x, a),
         NEW files, NEW extra, NEW subject,
         Made(h, g, Anc(h, x), h[x].ledger, files, extra, subject),
         files[p] = h[x].files[p] \/ Corrected(g, p)
  PROVE  /\ Reviewed(g, p, base, tip, m, Len(h) + 1, a)
         /\ \A made, b : Joined(h, p, base, tip, m, x, made, b, a)
                         => Joined(g, p, base, tip, m, Len(h) + 1, made, b, a)
<1> DEFINE n == Len(h) + 1
<1>1. Grown(h, g) /\ n \notin DOMAIN h
  BY MadeGrows
<1>2. Reviewed(g, p, base, tip, m, x, a)
  BY <1>1, ReviewedStays
<1>3. base \in DOMAIN h /\ tip \in DOMAIN h
  BY DEF Reviewed
<1>4. /\ Anc(g, x) = Anc(h, x) /\ g[x] = h[x]
      /\ n \notin Anc(g, tip) /\ n \notin Anc(g, base)
      /\ Anc(g, n) = {n} \cup Anc(g, x) /\ g[n].ledger = g[x].ledger /\ g[n].files = files
  <2>1. /\ Anc(g, x) = Anc(h, x) /\ Anc(g, tip) = Anc(h, tip) /\ Anc(g, base) = Anc(h, base)
        /\ Anc(h, tip) \subseteq DOMAIN h /\ Anc(h, base) \subseteq DOMAIN h
    BY <1>1, <1>3, AncestorsStay
  <2>2. g[x] = h[x] /\ Anc(g, n) = {n} \cup Anc(h, x) /\ g[n].ledger = h[x].ledger
        /\ g[n].files = files
    BY DEF Made, Anc
  <2>3. QED
    BY <1>1, <2>1, <2>2
<1> HIDE DEF n
<1>5. Reviewed(g, p, base, tip, m, n, a)
  BY <1>2, <1>4 DEF Reviewed
<1>6. ASSUME NEW made, NEW b, Joined(h, p, base, tip, m, x, made, b, a)
      PROVE  Joined(g, p, base, tip, m, n, made, b, a)
  <2>1. Joined(g, p, base, tip, m, x, made, b, a)
    BY <1>1, <1>6, JoinedStays
  <2>2. made # n
    BY <1>1, <1>6 DEF Joined
  <2>3. QED
    BY <1>4, <2>1, <2>2 DEF Joined
<1>7. QED
  BY <1>5, <1>6 DEF n

\* A person's commit on the branch leaves what is merged from it.
LEMMA JoinedGoesOn ==
  ASSUME NEW h \in Seq(Commit), NEW g \in Seq(Commit), DAG(h), NEW p \in Patterns,
         NEW x \in DOMAIN h, NEW base, NEW tip, NEW m, NEW a,
         Reviewed(h, p, base, tip, m, x, a),
         NEW made, NEW b, Joined(h, p, base, tip, m, x, made, b, a),
         Made(h, g, Anc(h, b), h[b].ledger, h[b].files, Len(h) + 1, "person")
  PROVE  Joined(g, p, base, tip, m, x, made, Len(h) + 1, a)
<1> DEFINE n == Len(h) + 1
<1>1. Grown(h, g) /\ n \in DOMAIN g
  BY MadeGrows
<1>2. Joined(g, p, base, tip, m, x, made, b, a)
  BY <1>1, JoinedStays
<1>3. b \in DOMAIN h /\ made \in DOMAIN h /\ Fork(h, p, made, b, made, a)
  BY DEF Joined
<1>4. PICK ledger, files, extra, subject :
        /\ ledger = h[b].ledger /\ files = h[b].files /\ extra = n /\ subject = "person"
  OBVIOUS
<1>5. Fork(g, p, made, n, made, a)
  <2>1. \/ p \in a
        \/ /\ ledger[p].inline = h[b].ledger[p].inline
           /\ \A t \in Types : files[p][t] # NoText => t = EntryType(ledger[p])
           /\ extra = Len(h) + 1
    BY <1>3, <1>4 DEF Fork, Fits
  <2>2. Made(h, g, Anc(h, b), ledger, files, extra, subject)
    BY <1>4
  <2>3. QED
    BY <1>3, <1>4, <2>1, <2>2, ForkFromBranch
<1>6. g[n].ledger = g[b].ledger
  BY <1>3 DEF Made
<1> HIDE DEF n
<1>7. Joined(g, p, base, tip, m, x, made, n, a)
  BY <1>1, <1>2, <1>5, <1>6 DEF Joined
<1>8. QED
  BY <1>7 DEF n

\* What a tick and a drop know, where the rows they know stay.
LEMMA TicksStay ==
  ASSUME Inv, UNCHANGED <<op, refused, astray>>,
         \A q \in Patterns :
           /\ Live(q)' = Live(q) /\ Staged(q)' = Staged(q) /\ (Exists(q)' <=> Exists(q))
           /\ (Ledger(Start(q))[q])' = Ledger(Start(q))[q]
           /\ Exists(q) => (Files(branch[q])[q])' = Files(branch[q])[q]
           /\ \/ q \in astray \/ Known(Ledger(Start(q))[q])
              \/ (Files(Start(q))[q])' = Files(Start(q))[q]
  PROVE  TickInv' /\ DropInv'
<1>1. DropInv'
  <2>1. SUFFICES ASSUME op.kind = "drop" PROVE DropInv'
    BY DEF DropInv
  <2>2. op.pattern \in Patterns
    BY <2>1, OpIs DEF Inv, DropOp
  <2>3. Live(op.pattern)' = Live(op.pattern)
    BY <2>2
  <2>4. QED
    BY <2>1, <2>3 DEF Inv, DropInv
<1>2. TickInv'
  <2>1. SUFFICES ASSUME op.kind = "tick" PROVE TickInv'
    BY DEF TickInv
  <2>2. PICK q \in Patterns : q = op.pattern
    BY <2>1, OpIs DEF Inv, TickOp
  <2>3. /\ Live(q)' = Live(q) /\ Staged(q)' = Staged(q) /\ (Exists(q)' <=> Exists(q))
        /\ (Ledger(Start(q))[q])' = Ledger(Start(q))[q]
        /\ Exists(q) => (Files(branch[q])[q])' = Files(branch[q])[q]
        /\ \/ q \in astray \/ Known(Ledger(Start(q))[q])
           \/ (Files(Start(q))[q])' = Files(Start(q))[q]
    OBVIOUS
  <2>4. /\ refused[q] <= Watermark(Live(q)) /\ (op.step = "merge" => Exists(q))
        /\ q \in astray \/ PlannedFrom(q)
    BY <2>1, <2>2 DEF Inv, TickInv
  <2>5. ASSUME q \notin astray PROVE PlannedFrom(q)'
    <3>1. PlannedFrom(q)
      BY <2>4, <2>5
    <3>2. op.step = "merge" => Served(Staged(q)', (Files(branch[q])[q])')
      BY <2>3, <2>4, <3>1 DEF PlannedFrom
    <3>3. op.step = "commit" =>
            /\ (Ledger(Start(q))[q])' =
                 IF Migrating(op.staged, op.prior) THEN op.staged ELSE op.prior
            /\ Known(Ledger(Start(q))[q]') \/ \A t \in Types : (Files(Start(q))[q])'[t] = NoText
      BY <2>3, <2>5, <3>1 DEF PlannedFrom
    <3>4. QED
      BY <2>3, <3>1, <3>2, <3>3 DEF PlannedFrom
  <2>6. QED
    BY <2>2, <2>3, <2>4, <2>5 DEF TickInv
<1>3. QED
  BY <1>1, <1>2

\* A person's commit on the default branch: the ledger stays, and what is live
\* is still served.
LEMMA PersonOnMainKeeps ==
  ASSUME Inv, NEW files \in [Patterns -> Texts], NEW extra \in Nat, extra <= Now,
         Committed(<<main>>, Ledger(main), files, extra, "person"), main' = Now,
         UNCHANGED <<branch, held, checkout, op, screen, count, rehomed>>,
         UNCHANGED <<refused, retiring, astray>>, budget' \in Budget,
         \A q \in Patterns : /\ q \in astray \/ Served(Live(q), files[q])
                             /\ \/ q \in astray \/ Known(Live(q))
                                \/ files[q] = Files(main)[q]
  PROVE  Inv'
<1>1. PICK x, h, g, n, ledger, subject, a :
        /\ a = astray /\ x = main /\ h = commits /\ g = commits' /\ n = Now /\ ledger = Ledger(main)
        /\ subject = "person"
  OBVIOUS
<1>2. /\ RepoTyped /\ Git /\ h \in Seq(Commit) /\ DAG(h) /\ x \in DOMAIN h /\ n = Len(h) + 1
      /\ ledger \in [Patterns -> Row] /\ subject \in {"loop", "accept", "person"}
  BY <1>1, CommitIs DEF Inv, Typed, RepoTyped, Git, Now
<1>3. /\ g \in Seq(Commit) /\ Made(h, g, Anc(h, x), ledger, files, extra, subject)
      /\ g[n].parents[1] = x
  BY <1>1, <1>2, CommitOnOne
<1>4. Grown(h, g) /\ DOMAIN g = DOMAIN h \cup {n}
  BY <1>2, <1>3, MadeGrows
<1>5. RepoTyped'
  <2>1. held' \subseteq Patterns /\ main' \in {main, Now} /\ checkout' = checkout
    BY DEF Inv, Typed, RepoTyped
  <2>2. QED
    BY <1>1, <1>2, <1>3, <2>1, RepoGrows
<1>6. Git'
  <2>1. \A q \in Patterns : Kept(ledger[q], Live(q))
    BY <1>1 DEF Kept, Live
  <2>2. \A q \in Patterns : q \in astray \/ Served(ledger[q], files[q])
    BY <1>1 DEF Live
  <2>3. QED
    BY <1>1, <1>2, <1>3, <2>1, <2>2, MainGoesOn
<1>7. ScreenInv'
  BY <1>1, <1>3, <1>4, ScreenStays
<1>8. \A q \in Patterns : Live(q)' = Live(q) /\ Staged(q)' = Staged(q) /\ (Exists(q)' <=> Exists(q))
                          /\ Files(main)'[q] = files[q]
  BY <1>1, <1>2, <1>3, RowsNext DEF Live, Exists
<1>9. TickInv' /\ DropInv'
  <2>1. ASSUME NEW q \in Patterns
        PROVE  /\ (Ledger(Start(q))[q])' = Ledger(Start(q))[q]
               /\ Exists(q) => (Files(branch[q])[q])' = Files(branch[q])[q]
               /\ \/ q \in astray \/ Known(Ledger(Start(q))[q])
                  \/ (Files(Start(q))[q])' = Files(Start(q))[q]
    <3>1. CASE Exists(q)
      <4>1. branch[q] \in DOMAIN h /\ g[branch[q]] = h[branch[q]]
        BY <1>1, <1>2, <1>4, <3>1, StartIs DEF Grown
      <4>2. QED
        BY <1>1, <3>1, <4>1 DEF Start, Exists, Ledger, Files
    <3>2. CASE ~Exists(q)
      BY <1>8, <3>2 DEF Start, Live, Files, Exists
    <3>3. QED
      BY <3>1, <3>2
  <2>2. QED
    BY <1>8, <2>1, TicksStay
<1>10. AcceptInv'
  <2>1. SUFFICES ASSUME op.kind = "accept" PROVE AcceptInv'
    BY DEF AcceptInv
  <2>2. PICK p, base, tip, b :
          p \in Patterns /\ p = op.pattern /\ base = op.base /\ tip = op.tip /\ b = branch[p]
    BY <2>1, OpIs DEF Inv, AcceptOp
  <2>3. PICK m \in DOMAIN h :
          /\ Reviewed(h, p, base, tip, m, x, a)
          /\ op.step = "merge" => Joined(h, p, base, tip, m, x, op.made, b, a)
    BY <1>1, <2>1, <2>2 DEF Inv, AcceptInv
  <2>4. files[p] = h[x].files[p] \/ Corrected(g, p)
    <3>1. SUFFICES ASSUME files[p] # h[x].files[p] PROVE Corrected(g, p)
      OBVIOUS
    <3>2. g[n].files = files /\ g[n].subject = "person" /\ g[x] = h[x] /\ n \in DOMAIN g
      BY <1>1, <1>2, <1>3, <1>4 DEF Made
    <3>3. QED
      BY <1>3, <3>1, <3>2 DEF Corrected
  <2>5. Made(h, g, Anc(h, x), h[x].ledger, files, extra, subject)
    BY <1>1, <1>3 DEF Ledger
  <2>6. /\ Reviewed(g, p, base, tip, m, n, a)
        /\ \A made, c : Joined(h, p, base, tip, m, x, made, c, a)
                        => Joined(g, p, base, tip, m, n, made, c, a)
    BY <2>2, <1>2, <1>3, <2>3, <2>4, <2>5, ReviewedGoesOn
  <2>7. m \in DOMAIN g /\ op.seen.base = op.base /\ op.seen.tip = op.tip
    BY <1>4, <2>1 DEF Inv, AcceptInv
  <2>8. QED
    BY <1>1, <2>2, <2>3, <2>6, <2>7 DEF AcceptInv
<1>11. Typed'
  BY <1>5 DEF Inv, Typed
<1>12. ASSUME NEW q \in Patterns PROVE Mark(q)'
  <2>1. Merged(q)' => Merged(q)
    BY <1>1, <1>2, <1>3, MergedNext
  <2>2. Live(q) \in Row /\ count[q] \in Nat /\ Watermark(Live(q)) \in Nat
    BY RowsAre DEF Inv
  <2>3. QED
    BY <1>8, <2>1, <2>2, MarkStays
<1>13. QED
  BY <1>6, <1>7, <1>9, <1>10, <1>11, <1>12 DEF Inv, Marks

\* A person's commit on a branch: the pattern's own row and artifact stay.
LEMMA PersonOnBranchKeeps ==
  ASSUME Inv, NEW p \in Patterns, Exists(p), Moved(p, Now),
         Committed(<<branch[p]>>, Ledger(branch[p]), Files(branch[p]), Now, "person"),
         UNCHANGED <<main, held, checkout, op, screen, count, rehomed>>,
         UNCHANGED <<refused, retiring, astray>>, budget' \in Budget
  PROVE  Inv'
<1>1. PICK x, h, g, n, b, ledger, files, subject, a :
        /\ a = astray /\ x = main /\ h = commits /\ g = commits' /\ n = Now /\ b = branch[p]
        /\ ledger = Ledger(b) /\ files = Files(b) /\ subject = "person"
  OBVIOUS
<1>2. /\ RepoTyped /\ Git /\ h \in Seq(Commit) /\ DAG(h) /\ x \in DOMAIN h /\ n = Len(h) + 1
      /\ b \in DOMAIN h /\ Start(p) = b /\ n \in Nat
      /\ ledger \in [Patterns -> Row] /\ files \in [Patterns -> Texts]
      /\ subject \in {"loop", "accept", "person"}
  BY <1>1, CommitIs, StartIs, NowIsNew DEF Inv, Typed, RepoTyped, Git, Now, Start
<1>3. /\ g \in Seq(Commit) /\ Made(h, g, Anc(h, b), ledger, files, n, subject)
      /\ g[n].parents[1] = b
  BY <1>1, <1>2, CommitOnOne
<1>4. Grown(h, g) /\ DOMAIN g = DOMAIN h \cup {n}
  BY <1>2, <1>3, MadeGrows
<1>5. RepoTyped'
  <2>1. held' \subseteq Patterns /\ main' \in {main, Now} /\ checkout' = checkout
    BY DEF Inv, Typed, RepoTyped
  <2>2. QED
    BY <1>1, <1>2, <1>3, <2>1, RepoGrows DEF Moved
<1>6. Git'
  <2>1. PICK m \in DOMAIN h : Fork(h, p, x, b, m, a)
    BY <1>1, <1>2 DEF Git, Forks
  <2>2. p \in a \/ \A t \in Types : files[p][t] # NoText => t = EntryType(ledger[p])
    BY <1>1, <2>1 DEF Fork, Fits, Ledger, Files
  <2>3. PICK extra : extra = n
    OBVIOUS
  <2>4. /\ \A q \in Patterns \ {p} :
             ledger[q] = Ledger(Start(p))[q] /\ files[q] = Files(Start(p))[q]
        /\ ledger[p].inline = Ledger(Start(p))[p].inline
    BY <1>1, <1>2
  <2>5. /\ commits' \in Seq(Commit) /\ commits'[Now].parents[1] = Start(p)
        /\ Made(commits, commits', Anc(commits, Start(p)), ledger, files, extra, subject)
    BY <1>1, <1>2, <1>3, <2>3
  <2>6. m \in DOMAIN commits /\ Fork(commits, p, main, Start(p), m, astray) /\ extra = Now
        /\ subject = "person"
    BY <1>1, <1>2, <2>1, <2>3
  <2>7. main' = main /\ RepoTyped /\ Git
    BY <1>2
  <2>8. subject = "person" => commits'[Now].parents[1] = Start(p)
    BY <2>5
  <2>9. \/ p \in astray
        \/ /\ ledger[p].inline = Ledger(Start(p))[p].inline
           /\ \A t \in Types : files[p][t] # NoText => t = EntryType(ledger[p])
           /\ extra = Now
    BY <1>1, <2>2, <2>4, <2>6
  <2>10. QED
    BY <2>4, <2>5, <2>6, <2>7, <2>8, <2>9, BranchGoesOn
<1>7. ScreenInv'
  BY <1>1, <1>3, <1>4, ScreenStays
<1>8. \A q \in Patterns : branch'[q] = IF q = p THEN n ELSE branch[q]
  BY <1>1, <1>2 DEF Moved, RepoTyped
<1>9. ASSUME NEW q \in Patterns
      PROVE  /\ Live(q)' = Live(q) /\ Staged(q)' = Staged(q) /\ (Exists(q)' <=> Exists(q))
             /\ Files(main)'[q] = Files(main)[q]
  <2>1. Live(q)' = Live(q) /\ Files(main)'[q] = Files(main)[q]
    BY <1>1, <1>2, <1>3, RowsNext
  <2>2. CASE q = p
    <3>1. Staged(q)' = ledger[q] /\ Exists(q)'
      BY <1>1, <1>2, <1>3, <1>8, <2>2, RowsNext
    <3>2. QED
      BY <1>1, <2>1, <2>2, <3>1 DEF Staged, Exists
  <2>3. CASE q # p
    <3>1. Staged(q)' = Staged(q)
      BY <1>1, <1>2, <1>3, <1>8, <2>3, RowsNext
    <3>2. QED
      BY <1>8, <2>1, <2>3, <3>1 DEF Exists
  <2>4. QED
    BY <2>2, <2>3
<1>10. TickInv' /\ DropInv'
  <2>1. ASSUME NEW q \in Patterns
        PROVE  /\ (Ledger(Start(q))[q])' = Ledger(Start(q))[q]
               /\ Exists(q) => (Files(branch[q])[q])' = Files(branch[q])[q]
               /\ (Files(Start(q))[q])' = Files(Start(q))[q]
    <3>1. CASE q = p
      <4>1. g[n].ledger = ledger /\ g[n].files = files /\ n # 0
        BY <1>1, <1>2, <1>3, NowIsNew DEF Made
      <4>2. QED
        BY <1>1, <1>2, <1>8, <3>1, <4>1 DEF Start, Exists, Ledger, Files
    <3>2. CASE q # p /\ Exists(q)
      <4>1. branch[q] \in DOMAIN h /\ g[branch[q]] = h[branch[q]] /\ branch'[q] = branch[q]
        BY <1>1, <1>2, <1>4, <1>8, <3>2, StartIs DEF Grown
      <4>2. QED
        BY <1>1, <3>2, <4>1 DEF Start, Exists, Ledger, Files
    <3>3. CASE q # p /\ ~Exists(q)
      BY <1>8, <1>9, <3>3 DEF Start, Live, Files, Exists
    <3>4. QED
      BY <3>1, <3>2, <3>3
  <2>2. QED
    BY <1>9, <2>1, TicksStay
<1>11. AcceptInv'
  <2>1. SUFFICES ASSUME op.kind = "accept" PROVE AcceptInv'
    BY DEF AcceptInv
  <2>2. PICK r, base, tip, c :
          r \in Patterns /\ r = op.pattern /\ base = op.base /\ tip = op.tip /\ c = branch[r]
    BY <2>1, OpIs DEF Inv, AcceptOp
  <2>3. PICK m \in DOMAIN h :
          /\ Reviewed(h, r, base, tip, m, x, a)
          /\ op.step = "merge" => Joined(h, r, base, tip, m, x, op.made, c, a)
    BY <1>1, <2>1, <2>2 DEF Inv, AcceptInv
  <2>4. Reviewed(g, r, base, tip, m, x, a)
    BY <2>2, <1>2, <1>3, <1>4, <2>3, ReviewedStays
  <2>5. ASSUME op.step = "merge"
        PROVE  Joined(g, r, base, tip, m, x, op.made, branch'[r], a)
    <3>1. PICK made : made = op.made /\ Joined(h, r, base, tip, m, x, made, c, a)
      BY <2>3, <2>5
    <3>2. CASE r = p
      <4>1. Made(h, g, Anc(h, c), h[c].ledger, h[c].files, Len(h) + 1, "person")
        BY <1>1, <1>2, <1>3, <2>2, <3>2 DEF Ledger, Files
      <4>2. Joined(g, r, base, tip, m, x, made, n, a)
        <5>1. Joined(g, r, base, tip, m, x, made, Len(h) + 1, a)
          BY <2>2, <1>2, <1>3, <2>3, <3>1, <4>1, JoinedGoesOn
        <5>2. QED
          BY <1>2, <5>1
      <4>3. QED
        BY <1>8, <3>1, <3>2, <4>2
    <3>3. CASE r # p
      <4>1. Joined(g, r, base, tip, m, x, made, c, a)
        BY <2>2, <1>2, <1>3, <1>4, <2>3, <3>1, JoinedStays
      <4>2. QED
        BY <1>8, <2>2, <3>1, <3>3, <4>1
    <3>4. QED
      BY <3>2, <3>3
  <2>6. m \in DOMAIN g /\ op.seen.base = op.base /\ op.seen.tip = op.tip
    BY <1>4, <2>1 DEF Inv, AcceptInv
  <2>7. QED
    BY <1>1, <2>2, <2>4, <2>5, <2>6 DEF AcceptInv
<1>12. Typed'
  BY <1>5 DEF Inv, Typed
<1>13. ASSUME NEW q \in Patterns PROVE Mark(q)'
  <2>1. Merged(q)' => Merged(q)
    BY <1>1, <1>2, <1>3, <1>8, MergedNext
  <2>2. Live(q) \in Row /\ count[q] \in Nat /\ Watermark(Live(q)) \in Nat
    BY RowsAre DEF Inv
  <2>3. QED
    BY <1>9, <2>1, <2>2, MarkStays
<1>14. QED
  BY <1>6, <1>7, <1>10, <1>11, <1>12, <1>13 DEF Inv, Marks

\* Unrelated work, a correction, a commit on a branch, a worktree.
LEMMA InterferesKeeps ==
  ASSUME Inv, Interferes
  PROVE  Inv'
<1>1. /\ UNCHANGED <<checkout, op, screen, count, rehomed, refused, retiring, astray>>
      /\ budget' = [budget EXCEPT !["outside"] = @ - 1] /\ budget["outside"] > 0
      /\ budget \in Budget /\ RepoTyped /\ Git /\ main \in DOMAIN commits
  BY DEF Interferes, Spend, aux, Inv, Typed, RepoTyped
<1>2. budget' \in Budget /\ budget.patterns \subseteq Patterns
  BY <1>1 DEF Budget
<1>3. /\ Files(main) \in [Patterns -> Texts] /\ commits[main].extra \in Nat
      /\ Now \in Nat /\ commits[main].extra <= Now
  <2>1. /\ commits[main].extra <= main /\ main \in Nat /\ main < Now /\ Now \in Nat
        /\ commits[main].extra \in Nat
    BY <1>1, CommitIs, NowIsNew DEF Git, DAG
  <2>2. QED
    BY <1>1, <2>1, CommitIs
<1>4. CASE /\ Committed(<<main>>, Ledger(main), Files(main), Now, "person")
           /\ main' = Now
           /\ UNCHANGED <<branch, held>>
  <2>1. PICK extra \in Nat : extra = Now /\ extra <= Now
    BY <1>3
  <2>2. Committed(<<main>>, Ledger(main), Files(main), extra, "person")
    BY <1>4, <2>1
  <2>3. \A q \in Patterns : q \in astray \/ Served(Live(q), Files(main)[q])
    BY <1>1 DEF Git, MainServed
  <2>4. QED
    BY <1>1, <1>2, <1>3, <1>4, <2>1, <2>2, <2>3, PersonOnMainKeeps
<1>5. ASSUME NEW r \in Patterns, IsLiveLoop(Live(r)),
             Committed(<<main>>, Ledger(main),
                       [Files(main) EXCEPT ![r][EntryType(Live(r))] = Now],
                       commits[main].extra, "person"),
             main' = Now, UNCHANGED <<branch, held>>
      PROVE  Inv'
  <2>1. PICK files, type, old, was, extra :
          /\ files = [Files(main) EXCEPT ![r][EntryType(Live(r))] = Now]
          /\ type = EntryType(Live(r))
          /\ old = Files(main) /\ was = Live(r) /\ extra = commits[main].extra /\ extra \in Nat
    BY <1>3
  <2>2. /\ was \in Row /\ type \in Types /\ ~was.inline /\ Known(was)
        /\ old \in [Patterns -> Texts] /\ old[r] \in Texts
        /\ r \in astray \/ type = was.served_by
    <3>1. was \in Row /\ old \in [Patterns -> Texts] /\ old[r] \in Texts
          /\ (r \in astray \/ Served(was, old[r]))
      BY <1>1, <1>5, <2>1, RowsAre, CommitIs DEF Inv, Git, MainServed
    <3>2. was.status = "promoted" /\ ~was.inline /\ IsLiveLoop(was)
      BY <1>5, <2>1 DEF IsLiveLoop
    <3>3. ASSUME r \notin astray PROVE was.served_by \in Types
      <4>1. "skill" \in Types
        BY DEF Types
      <4>2. QED
        BY <3>1, <3>2, <3>3, <4>1, LiveServed
    <3>4. type \in Types
      BY <2>1, <3>1, EntryTypes
    <3>5. r \in astray \/ type = was.served_by
      BY <2>1, <3>3, ReviewAssumption DEF EntryType
    <3>6. QED
      BY <3>1, <3>2, <3>4, <3>5 DEF Known
  <2>3. files = [old EXCEPT ![r] = [old[r] EXCEPT ![type] = Now]]
    BY <2>1
  <2>4. [old[r] EXCEPT ![type] = Now] \in Texts
    BY <1>3, <2>2 DEF Texts
  <2>5. files \in [Patterns -> Texts]
    BY <2>2, <2>3, <2>4
  <2>6. files[r] = [old[r] EXCEPT ![type] = Now] /\ \A q \in Patterns \ {r} : files[q] = old[q]
    BY <2>2, <2>3, <2>4
  <2>7. \A q \in Patterns : q \in astray \/ Served(Live(q), Files(main)[q])
    BY <1>1 DEF Git, MainServed
  <2>8. ASSUME r \notin astray PROVE Served(was, files[r])
    <3>1. Served(was, old[r]) /\ type = was.served_by
      BY <2>1, <2>2, <2>7, <2>8
    <3>2. IsText(Now)
      BY <1>1, NowIsNew DEF IsText
    <3>3. \A t \in Types : files[r][t] = IF t = type THEN Now ELSE old[r][t]
      BY <2>2, <2>6 DEF Texts
    <3>4. QED
      BY <2>2, <3>1, <3>2, <3>3 DEF Served
  <2>9. \A q \in Patterns : /\ q \in astray \/ Served(Live(q), files[q])
                            /\ \/ q \in astray \/ Known(Live(q))
                               \/ files[q] = Files(main)[q]
    BY <2>1, <2>2, <2>6, <2>7, <2>8
  <2>10. Committed(<<main>>, Ledger(main), files, extra, "person") /\ extra <= Now
    BY <1>3, <1>5, <2>1
  <2>11. QED
    BY <1>1, <1>2, <1>5, <2>1, <2>5, <2>9, <2>10, PersonOnMainKeeps
<1>6. ASSUME NEW r \in Patterns, Exists(r),
             Committed(<<branch[r]>>, Ledger(branch[r]), Files(branch[r]), Now, "person"),
             branch' = [branch EXCEPT ![r] = Now], UNCHANGED <<main, held>>
      PROVE  Inv'
  <2>1. Moved(r, Now)
    BY <1>6 DEF Moved
  <2>2. QED
    BY <1>1, <1>2, <1>6, <2>1, PersonOnBranchKeeps
<1>7. ASSUME NEW r \in Patterns, held' = held \cup {r}, UNCHANGED <<commits, main, branch>>
      PROVE  Inv'
  <2>1. Typed' /\ commits' \in Seq(Commit)
    BY <1>1, <1>2, <1>7 DEF Inv, Typed, RepoTyped
  <2>2. QED
    BY <1>1, <1>7, <2>1, OpsStay, ScreenStays DEF Inv
<1>8. QED
  BY <1>2, <1>4, <1>5, <1>6, <1>7 DEF Interferes

------------------------------------------------------------------------------
(* The invariant is one.                                                      *)

\* Every step of every pattern's operations, and of everybody else, keeps it.
LEMMA StepInv ==
  ASSUME Inv, [Next]_vars
  PROVE  Inv'
<1>1. CASE UNCHANGED vars
  BY <1>1, StutterKeeps
<1>2. ASSUME NEW p \in budget.patterns,
             \/ Preview(p) \/ AcceptBegin(p) \/ Reject(p) \/ Remove(p) \/ Retire(p)
             \/ \E type \in Types : Register(p, type) \/ Rehome(p, type)
             \/ ReviseAsk(p) \/ ReviseCommit(p)
             \/ TickBegin(p) \/ RefineBegin(p)
             \/ Reflect(p) \/ Released(p)
      PROVE  Inv'
  <2>1. p \in Patterns
    BY DEF Inv, Typed, Budget
  <2>2. CASE Preview(p) \/ AcceptBegin(p) \/ Reject(p) \/ Remove(p) \/ Retire(p)
    BY <2>1, <2>2, PreviewKeeps, AcceptBeginKeeps, RejectKeeps, RemoveKeeps, RetireKeeps
  <2>3. CASE \E type \in Types : Register(p, type) \/ Rehome(p, type)
    BY <2>1, <2>3, RegisterKeeps, RehomeKeeps
  <2>4. CASE ReviseAsk(p) \/ ReviseCommit(p) \/ TickBegin(p) \/ RefineBegin(p)
    BY <2>1, <2>4, ReviseAskKeeps, ReviseCommitKeeps, TickBeginKeeps, RefineBeginKeeps
  <2>5. CASE Reflect(p) \/ Released(p)
    BY <2>1, <2>5, ReflectKeeps, ReleasedKeeps
  <2>6. QED
    BY <1>2, <2>2, <2>3, <2>4, <2>5
<1>3. CASE AcceptPrepare \/ AcceptMerge \/ AcceptRefused \/ DropBranch \/ ReviseRefused
  BY <1>3, AcceptPrepareKeeps, AcceptMergeKeeps, GivesUpKeeps, DropBranchKeeps, ReviseRefusedKeeps
<1>4. CASE StageReset \/ StageCommit \/ AutoMerge \/ TickGivesUp \/ Dies \/ Interferes
  BY <1>4, StageResetKeeps, StageCommitKeeps, AutoMergeKeeps, GivesUpKeeps, DiesKeeps,
     InterferesKeeps
<1>5. CASE LooksElsewhere \/ ComesBack
  BY <1>5, LooksElsewhereKeeps, ComesBackKeeps
<1>6. QED
  BY <1>1, <1>2, <1>3, <1>4, <1>5 DEF Next

\* ... so it holds in every state.
LEMMA AlwaysInv == Spec => []Inv
BY InitInv, StepInv, PTL DEF Spec

------------------------------------------------------------------------------
(* Theorems.                                                                  *)

\* Every state of the review is well typed: its branches and the default branch
\* point at commits, and every commit has a row and the artifacts of every
\* pattern.
THEOREM Typing == Spec => []TypeOK
<1>1. Inv => TypeOK
  <2> SUFFICES ASSUME Inv PROVE TypeOK
    OBVIOUS
  <2>1. Typed /\ RepoTyped
    BY DEF Inv, Typed
  <2>2. op.kind \in {"idle", "accept", "drop", "tick"}
    BY <2>1, OpIs
  <2>3. \A c \in DOMAIN commits : \A p \in Patterns :
          Ledger(c)[p].status \in Statuses /\ DOMAIN Files(c)[p] = Types
    BY <2>1, CommitIs DEF Row, Fields, Texts
  <2>4. QED
    BY <2>1, <2>2, <2>3 DEF TypeOK, Typed, RepoTyped
<1>2. QED
  BY <1>1, AlwaysInv, PTL

\* A live row is served by the one file it names, and by a real text; a pattern
\* out of rotation is served by none. No order of accepts, automatic merges,
\* re-homes, retirements, registrations, crashes and corrections on the default
\* branch leaves a second file, an empty one or the stub of a re-home there, for
\* a pattern no tick ever drafted from another branch's row of it.
THEOREM OneFile == Spec => []ServedByOneFile
<1>1. Inv => ServedByOneFile
  <2> SUFFICES ASSUME Inv, NEW p \in Patterns \ astray, NEW t \in Types
               PROVE  IF IsLiveLoop(Live(p)) /\ Live(p).served_by = t
                      THEN IsText(Files(main)[p][t]) ELSE Files(main)[p][t] = NoText
    BY DEF ServedByOneFile
  <2>1. Live(p) \in Row /\ Files(main)[p] \in Texts /\ Served(Live(p), Files(main)[p])
    BY RowsAre, CommitIs DEF Inv, Typed, RepoTyped, Git, MainServed
  <2>2. QED
    BY <2>1, LiveServed
<1>2. QED
  BY <1>1, AlwaysInv, PTL

\* A staged draft that no person touched can be accepted: no other pattern's
\* accept, refusal or draft makes its branch foreign or brings it into conflict.
THEOREM NeverBlocked == Spec => []NeverBlockedByAnother
<1>1. Inv => NeverBlockedByAnother
  <2> SUFFICES ASSUME Inv, NEW p \in Patterns, Exists(p), ~HandIn(p)
               PROVE  ~Foreign(p, main, branch[p]) /\ ~Conflicts(p, main, branch[p])
    BY DEF NeverBlockedByAnother
  <2>1. RepoTyped /\ Git /\ main \in DOMAIN commits /\ branch[p] \in DOMAIN commits
    BY StartIs DEF Inv, Typed, RepoTyped
  <2>2. PICK x, h, b : x = main /\ h = commits /\ b = branch[p]
    OBVIOUS
  <2>3. DAG(h) /\ x \in DOMAIN h /\ b \in DOMAIN h /\ h \in Seq(Commit)
    BY <2>1, <2>2 DEF Git, RepoTyped
  <2>4. PICK m \in DOMAIN h : Fork(h, p, x, b, m, astray)
    BY <2>1, <2>2 DEF Git, Forks
  <2>5. MergeBase(x, b) = m
    BY <2>1, <2>2, <2>3, <2>4, MergeBaseIs DEF Fork
  <2>6. ~PersonOn(h, b, x)
    <3>1. Anc(h, b) \subseteq DOMAIN h
      BY <2>3, NowIsNew DEF DAG
    <3>2. QED
      BY <2>2, <3>1 DEF HandIn, PersonOn, Anc
  <2>7. ~Corrected(h, p)
    BY <2>2 DEF HandIn, Corrected, Files
  <2>8. /\ h[b].extra = h[m].extra /\ h[x].files[p] = h[m].files[p]
        /\ \A q \in Patterns \ {p} : h[b].files[q] = h[m].files[q]
    BY <2>4, <2>6, <2>7 DEF Fork
  <2>9. QED
    BY <2>2, <2>5, <2>8 DEF Foreign, Conflicts, Sides, Files
<1>2. QED
  BY <1>1, AlwaysInv, PTL

\* What a commit says of the repository after it.
LEMMA CommitSays ==
  ASSUME RepoTyped, NEW parents, NEW ledger, NEW files, NEW extra, NEW subject,
         Committed(parents, ledger, files, extra, subject)
  PROVE  commits'[Now].ledger = ledger /\ commits'[Now].files = files
BY DEF Committed, RepoTyped, Now

\* The default branch moves for one pattern at a time: whatever a merged branch
\* carries of other patterns, their rows and artifacts stay.
THEOREM OneAtATime == Spec => OnlyOwnPattern
<1> DEFINE Own(p) == \A q \in Patterns \ {p} :
                       /\ commits'[main'].ledger[q] = Ledger(main)[q]
                       /\ commits'[main'].files[q] = Files(main)[q]
           Step == main' # main => \E p \in Patterns : Own(p)
<1>1. ASSUME Inv, [Next]_vars PROVE Step
  <2>1. /\ RepoTyped /\ budget.patterns \subseteq Patterns
        /\ Ledger(main) \in [Patterns -> Row] /\ Files(main) \in [Patterns -> Texts]
    BY <1>1, CommitIs DEF Inv, Typed, Budget, RepoTyped
  <2>2. ASSUME NEW p \in Patterns, NEW row, OnDefault(p, row) PROVE Own(p)
    <3>1. PICK ledger : ledger = [Ledger(main) EXCEPT ![p] = row]
      OBVIOUS
    <3>2. /\ main' = Now
          /\ Committed(<<main>>, ledger, Files(main), commits[main].extra, "loop")
      BY <2>2, <3>1 DEF OnDefault
    <3>3. commits'[main'].ledger = ledger /\ commits'[main'].files = Files(main)
      BY <2>1, <3>2, CommitSays
    <3>4. \A q \in Patterns \ {p} : ledger[q] = Ledger(main)[q]
      BY <2>1, <3>1
    <3>5. QED
      BY <3>3, <3>4
  <2>3. ASSUME NEW p \in Patterns, Reject(p) PROVE Own(p)
    BY <2>2, <2>3 DEF Reject
  <2>4. ASSUME NEW p \in Patterns, Remove(p) PROVE Own(p)
    BY <2>2, <2>4 DEF Remove
  <2>5. ASSUME NEW p \in Patterns, NEW type \in Types, Register(p, type) PROVE Own(p)
    BY <2>2, <2>5 DEF Register
  <2>6. ASSUME AcceptMerge PROVE \E p \in Patterns : Own(p)
    <3>1. PICK p, made : p \in Patterns /\ p = op.pattern /\ made = op.made
      BY <1>1, <2>6, AcceptMergeIs DEF AcceptOp
    <3>2. \A q \in Patterns \ {p} : Ledger(made)[q] = Live(q) /\ Files(made)[q] = Files(main)[q]
      BY <1>1, <2>6, <3>1, AcceptMergeIs
    <3>3. main' = made /\ commits' = commits
      BY <2>6, <3>1 DEF AcceptMerge
    <3>4. Own(p)
      BY <3>2, <3>3 DEF Live, Ledger, Files
    <3>5. QED
      BY <3>1, <3>4
  <2>7. ASSUME AutoMerge PROVE \E p \in Patterns : Own(p)
    <3>1. PICK p, made : p \in Patterns /\ p = op.pattern /\ made = branch[p]
      BY <1>1, <2>7, AutoMergeIs
    <3>2. \A q \in Patterns \ {p} : Ledger(made)[q] = Live(q) /\ Files(made)[q] = Files(main)[q]
      BY <1>1, <2>7, <3>1, AutoMergeIs
    <3>3. main' = made /\ commits' = commits
      BY <2>7, <3>1 DEF AutoMerge
    <3>4. Own(p)
      BY <3>2, <3>3 DEF Live, Ledger, Files
    <3>5. QED
      BY <3>1, <3>4
  <2>8. ASSUME Interferes PROVE main' = main \/ \E p \in Patterns : Own(p)
    <3>1. CASE /\ Committed(<<main>>, Ledger(main), Files(main), Now, "person")
               /\ main' = Now
      <4>1. commits'[main'].ledger = Ledger(main) /\ commits'[main'].files = Files(main)
        BY <2>1, <3>1, CommitSays
      <4>2. \A p \in Patterns : Own(p)
        BY <4>1
      <4>3. QED
        BY <4>2, ReviewAssumption
    <3>2. ASSUME NEW r \in Patterns,
                 Committed(<<main>>, Ledger(main),
                           [Files(main) EXCEPT ![r][EntryType(Live(r))] = Now],
                           commits[main].extra, "person"),
                 main' = Now
          PROVE  Own(r)
      <4>1. PICK files : files = [Files(main) EXCEPT ![r][EntryType(Live(r))] = Now]
        OBVIOUS
      <4>2. commits'[main'].ledger = Ledger(main) /\ commits'[main'].files = files
        BY <2>1, <3>2, <4>1, CommitSays
      <4>3. \A q \in Patterns \ {r} : files[q] = Files(main)[q]
        BY <2>1, <4>1
      <4>4. QED
        BY <4>2, <4>3
    <3> HIDE DEF Own
    <3>3. QED
      BY <2>1, <2>8, <3>1, <3>2 DEF Interferes
  <2> HIDE DEF Own
  <2>9. ASSUME NEW p \in Patterns,
               \/ Preview(p) \/ AcceptBegin(p) \/ Retire(p) \/ ReviseAsk(p) \/ ReviseCommit(p)
               \/ TickBegin(p) \/ RefineBegin(p) \/ Reflect(p) \/ Released(p)
               \/ \E type \in Types : Rehome(p, type)
        PROVE  main' = main
    BY <2>9 DEF Preview, AcceptBegin, Retire, ReviseAsk, ReviseCommit, TickBegin, RefineBegin,
                Reflect, Released, Rehome, repo
  <2>10. ASSUME \/ AcceptPrepare \/ AcceptRefused \/ DropBranch \/ ReviseRefused \/ StageReset
                \/ StageCommit \/ TickGivesUp \/ Dies \/ LooksElsewhere \/ ComesBack
                \/ UNCHANGED vars
         PROVE  main' = main
    BY <2>10 DEF AcceptPrepare, AcceptRefused, DropBranch, ReviseRefused, StageReset,
                 StageCommit, TickGivesUp, Dies, LooksElsewhere, ComesBack, vars, repo
  <2>11. QED
    BY <1>1, <2>1, <2>3, <2>4, <2>5, <2>6, <2>7, <2>8, <2>9, <2>10 DEF Next
<1>2. Spec => [][Step]_vars
  <2>1. Inv /\ [Next]_vars => [Step]_vars
    BY <1>1
  <2> HIDE DEF Step
  <2>2. QED
    BY <2>1, AlwaysInv, PTL DEF Spec
<1>3. QED
  BY <1>2 DEF OnlyOwnPattern

\* What an accept merges is what the person looked at: the base of the screen is
\* still the default branch, and all that the reviewed commit changed of the
\* artifact is in the merged one.
THEOREM AsReviewed == Spec => MergedAsReviewed
<1> DEFINE Step ==
      op.kind = "accept" /\ op'.kind = "drop" =>
        /\ main = op.seen.base
        /\ \A t \in Types : Sides(op.pattern, t, main, op.seen.tip).ours =>
             commits'[main'].files[op.pattern][t] = Files(op.seen.tip)[op.pattern][t]
<1>1. ASSUME Inv, AcceptMerge PROVE Step
  <2>1. /\ op \in AcceptOp /\ main = op.base /\ op.seen.base = op.base /\ op.seen.tip = op.tip
        /\ op.made \in DOMAIN commits /\ RepoTyped
    BY <1>1, AcceptMergeIs DEF Inv, Typed
  <2>2. PICK p, base, tip, made, h :
          /\ p \in Patterns
          /\ p = op.pattern /\ base = op.base /\ tip = op.tip /\ made = op.made /\ h = commits
    BY <2>1 DEF AcceptOp
  <2>3. PICK m \in DOMAIN h : /\ Reviewed(h, p, base, tip, m, base, astray)
                              /\ Joined(h, p, base, tip, m, base, made, branch[p], astray)
                              /\ MergeBase(base, tip) = m
    BY <1>1, <2>1, <2>2, AcceptMergeIs
  <2>4. main' = made /\ commits' = commits
    BY <1>1, <2>2 DEF AcceptMerge
  <2>5. h[base].files \in [Patterns -> Texts]
    BY <2>1, <2>2, CommitIs DEF RepoTyped, Files
  <2>6. h[made].files[p] = [t \in Types |-> IF h[tip].files[p][t] # h[m].files[p][t]
                                            THEN h[tip].files[p][t] ELSE h[base].files[p][t]]
    BY <2>2, <2>3, <2>5 DEF Joined, TakesOver
  <2>7. ASSUME NEW t \in Types, Sides(p, t, base, tip).ours
        PROVE  h[made].files[p][t] = h[tip].files[p][t]
    <3>1. Files(tip)[p][t] # Files(MergeBase(base, tip))[p][t]
      BY <2>7 DEF Sides
    <3>2. h[tip].files[p][t] # h[m].files[p][t]
      BY <2>2, <2>3, <3>1 DEF Files
    <3>3. QED
      BY <2>6, <3>2
  <2>8. /\ commits'[main'].files[p] = h[made].files[p] /\ Files(tip)[p] = h[tip].files[p]
        /\ main = base /\ op.seen.base = base /\ op.seen.tip = tip
    BY <2>1, <2>2, <2>4 DEF Files
  <2>9. QED
    BY <2>2, <2>7, <2>8
<1>2. ASSUME NEW p,
             \/ Preview(p) \/ AcceptBegin(p) \/ Reject(p) \/ Remove(p) \/ Retire(p)
             \/ \E type \in Types : Register(p, type) \/ Rehome(p, type)
             \/ ReviseAsk(p) \/ ReviseCommit(p)
             \/ TickBegin(p) \/ RefineBegin(p)
             \/ Reflect(p) \/ Released(p)
      PROVE  op' = op \/ op = Idle
  BY <1>2 DEF Preview, AcceptBegin, Reject, Remove, Retire, Register, Rehome, ReviseAsk,
              ReviseCommit, TickBegin, RefineBegin, Reflect, Released, IsIdle
<1>3. ASSUME \/ AcceptRefused \/ DropBranch \/ ReviseRefused \/ AutoMerge
             \/ TickGivesUp \/ Dies \/ Interferes \/ LooksElsewhere \/ ComesBack
             \/ UNCHANGED vars
      PROVE  op' = op \/ op' = Idle
  BY <1>3 DEF AcceptRefused, DropBranch, ReviseRefused, AutoMerge, TickGivesUp, Dies, Interferes,
              LooksElsewhere, ComesBack, vars
<1>4. ASSUME StageReset \/ StageCommit PROVE op.kind = "tick"
  BY <1>4 DEF StageReset, StageCommit
<1>5. ASSUME Inv, AcceptPrepare PROVE op'.kind = "accept"
  <2>1. op \in AcceptOp /\ op' = [op EXCEPT !.step = "merge", !.made = Now]
    BY <1>5, OpIs DEF AcceptPrepare, Inv
  <2>2. QED
    BY <2>1 DEF AcceptOp
<1>6. ASSUME Inv, [Next]_vars PROVE Step
  <2>1. Idle.kind = "idle"
    BY DEF Idle
  <2>2. CASE AcceptMerge
    BY <1>1, <1>6, <2>2
  <2>3. CASE ~AcceptMerge
    BY <1>2, <1>3, <1>4, <1>5, <1>6, <2>1, <2>3 DEF Next
  <2>4. QED
    BY <2>2, <2>3
<1>7. Spec => [][Step]_vars
  <2>1. Inv /\ [Next]_vars => [Step]_vars
    BY <1>6
  <2> HIDE DEF Step
  <2>2. QED
    BY <2>1, AlwaysInv, PTL DEF Spec
<1>8. QED
  BY <1>7 DEF MergedAsReviewed

\* What a human refused, deleted or retired is proposed again only on Threshold
\* reflections more than there were when they did, across merges, re-homes,
\* crashes and drafts of the same pattern, whether or not the refused branch
\* could be deleted, by every tick that plans from the default branch's row.
THEOREM StaysRefused == Spec => NoTreadmill
<1> DEFINE Step ==
      \A p \in Patterns :
        IsIdle /\ op'.kind = "tick" /\ op'.pattern = p /\ op'.action = "promote"
          /\ ~StubStaged(p) /\ Seen(p) = Live(p)
        => count[p] >= refused[p] + Threshold
<1>1. ASSUME Inv, NEW p \in Patterns, TickBegin(p), op'.action = "promote", ~StubStaged(p),
             Seen(p) = Live(p)
      PROVE  op'.pattern = p /\ count[p] >= refused[p] + Threshold
  <2>1. PICK action \in Planned(p) \cap {"promote", "refine"} :
          /\ ~Waits(p, action)
          /\ \E type \in Types, auto \in AutoMerges : DraftBegins(p, action, type, auto)
    BY <1>1 DEF TickBegin
  <2>2. op'.pattern = p /\ op'.action = action
    BY <2>1 DEF DraftBegins
  <2>3. PICK card \in Cards, policy \in RedraftPolicies(Live(p)) :
          PlanAction(Live(p), count[p], StubStaged(p), card, policy) = "promote"
    BY <1>1, <2>1, <2>2 DEF Planned
  <2>4. ~Live(p).inline /\ Staged(p).status # "retired"
    BY <1>1, <2>1 DEF Waits
  <2>5. count[p] - Watermark(Live(p)) >= Threshold
    BY <1>1, <2>3, <2>4 DEF PlanAction, Cards
  <2>6. refused[p] <= Watermark(Live(p))
    BY <1>1, <2>4 DEF Inv, Marks, Mark, Remembers
  <2>7. count[p] \in Nat /\ refused[p] \in Nat /\ Watermark(Live(p)) \in Nat /\ Threshold \in Nat
    BY <1>1, RowsAre, ThresholdAssumption DEF Inv
  <2>8. QED
    BY <2>2, <2>5, <2>6, <2>7
<1>2. ASSUME NEW p, RefineBegin(p) PROVE op'.action = "refine"
  BY <1>2 DEF RefineBegin
<1>3. ASSUME NEW p,
             \/ Preview(p) \/ AcceptBegin(p) \/ Reject(p) \/ Remove(p) \/ Retire(p)
             \/ \E type \in Types : Register(p, type) \/ Rehome(p, type)
             \/ ReviseAsk(p) \/ ReviseCommit(p)
             \/ Reflect(p) \/ Released(p)
      PROVE  op' = op \/ op'.kind # "tick"
  <2>1. Idle.kind = "idle"
    BY DEF Idle
  <2>2. CASE AcceptBegin(p)
    BY <2>2 DEF AcceptBegin
  <2>3. CASE Reject(p)
    BY <2>3 DEF Reject
  <2>4. CASE Remove(p)
    BY <2>1, <2>4 DEF Remove
  <2>5. CASE \/ Preview(p) \/ Retire(p) \/ ReviseAsk(p) \/ ReviseCommit(p) \/ Reflect(p)
             \/ Released(p) \/ \E type \in Types : Register(p, type) \/ Rehome(p, type)
    BY <2>5 DEF Preview, Retire, Register, Rehome, ReviseAsk, ReviseCommit, Reflect, Released
  <2>6. QED
    BY <1>3, <2>2, <2>3, <2>4, <2>5
<1>4. ASSUME \/ AcceptPrepare \/ AcceptMerge \/ AcceptRefused \/ DropBranch \/ ReviseRefused
             \/ StageReset \/ StageCommit \/ AutoMerge \/ TickGivesUp \/ Dies \/ Interferes
             \/ LooksElsewhere \/ ComesBack \/ UNCHANGED vars
      PROVE  op' = op \/ op.kind # "idle" \/ op' = Idle
  BY <1>4 DEF AcceptPrepare, AcceptMerge, AcceptRefused, DropBranch, ReviseRefused, StageReset,
              StageCommit, AutoMerge, TickGivesUp, Dies, Interferes, LooksElsewhere, ComesBack,
              vars
<1>5. ASSUME Inv, [Next]_vars PROVE Step
  <2> SUFFICES ASSUME NEW p \in Patterns, IsIdle, op'.kind = "tick", op'.pattern = p,
                      op'.action = "promote", ~StubStaged(p), Seen(p) = Live(p)
               PROVE  count[p] >= refused[p] + Threshold
    OBVIOUS
  <2>1. op.kind = "idle" /\ op' # op /\ op' # Idle
    BY DEF IsIdle, Idle
  <2>2. PICK q \in budget.patterns : TickBegin(q)
    BY <1>2, <1>3, <1>4, <1>5, <2>1 DEF Next
  <2>3. q \in Patterns
    BY <1>5 DEF Inv, Typed, Budget
  <2>4. q = p
    BY <2>2 DEF TickBegin, DraftBegins
  <2>5. QED
    BY <1>1, <1>5, <2>2, <2>3, <2>4
<1>6. Spec => [][Step]_vars
  <2>1. Inv /\ [Next]_vars => [Step]_vars
    BY <1>5
  <2> HIDE DEF Step
  <2>2. QED
    BY <2>1, AlwaysInv, PTL DEF Spec
<1>7. QED
  BY <1>6 DEF NoTreadmill
=============================================================================
