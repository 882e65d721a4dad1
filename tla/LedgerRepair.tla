---------------------------- MODULE LedgerRepair ----------------------------
(* The forecast of `sil curriculum repair-promoted-at`: the dates and the     *)
(* redraft count of every row, computed again from the history of the ledger  *)
(* and of the artifacts along the default branch's own line.                  *)
EXTENDS Review

SX == INSTANCE SequencesExt

\* A merge that an accept committed continues through its second parent.
LineParent(c) ==
  LET parents == commits[c].parents
  IN  IF Len(parents) > 1 /\ commits[c].subject = "accept" THEN parents[2] ELSE parents[1]

\* The commits of the default branch's own line, oldest first.
DefaultLine ==
  LET line[c \in DOMAIN commits] ==
        IF commits[c].parents = << >> THEN <<c>> ELSE Append(line[LineParent(c)], c)
  IN  line[main]

\* One snapshot for every change of the ledger.
LedgerHistory ==
  LET line == DefaultLine
      changes == {i \in DOMAIN line : i = 1 \/ Ledger(line[i]) # Ledger(line[i - 1])}
  IN  SelectSeq(line, LAMBDA c : \E i \in changes : line[i] = c)

\* The pattern's own artifact in a snapshot that promotes it, NoText without one.
Content(p, c) ==
  LET row == Ledger(c)[p]
  IN  IF row.status = "promoted" /\ row.served_by # None
      THEN Files(c)[p][row.served_by] ELSE NoText

\* A span is a run of promoted snapshots; its versions are the dates at which
\* the artifact said something it did not say before.
NoSpan == [start |-> 0, versions |-> << >>, last |-> NoText]

StartDate(row, c)   == IF row.promoted_at # 0 THEN row.promoted_at ELSE c
VersionDate(row, c) == IF row.revised_at # 0 THEN row.revised_at ELSE StartDate(row, c)

WithVersion(span, date, text) ==
  [span EXCEPT !.versions = Append(@, date), !.last = text]

Extended(span, p, c) ==
  LET row  == Ledger(c)[p]
      from == IF span = NoSpan THEN [NoSpan EXCEPT !.start = StartDate(row, c)] ELSE span
      text == Content(p, c)
  IN  IF text \in {NoText, from.last} THEN from
      ELSE IF from.versions = << >> THEN WithVersion(from, from.start, text)
      ELSE WithVersion(from, VersionDate(row, c), text)

\* The open span of a pattern, and the one its last retirement closed.
Spans(p) ==
  LET Read(spans, c) ==
        CASE Ledger(c)[p].status = "retired" ->
               [open |-> NoSpan,
                closed |-> IF spans.open = NoSpan THEN spans.closed ELSE spans.open]
          [] Ledger(c)[p].status = "promoted" ->
               [spans EXCEPT !.open = Extended(@, p, c)]
          [] OTHER -> spans
  IN  SX!FoldLeft(Read, [open |-> NoSpan, closed |-> NoSpan], LedgerHistory)

Dates(row) == [promoted_at |-> row.promoted_at, revised_at |-> row.revised_at,
               revisions |-> row.revisions]

ComputeRepair(p) ==
  LET current == Live(p)
      span    == IF current.status = "retired" THEN Spans(p).closed ELSE Spans(p).open
      n       == Len(span.versions)
  IN  IF span = NoSpan THEN Dates(current)
      ELSE IF n > 1 THEN [promoted_at |-> span.start, revised_at |-> span.versions[n],
                          revisions |-> n - 1]
      ELSE IF current.revised_at # 0 THEN [Dates(current) EXCEPT !.promoted_at = span.start]
      ELSE [promoted_at |-> span.start, revised_at |-> span.start, revisions |-> 0]

Repairable(p) == Known(Live(p)) /\ ~Live(p).inline /\ Live(p).status # "deleted"

\* The rows that accept, reject, retire and the ticks of today write need no
\* repair: the history says of them what they say.
RepairAgrees ==
  \A p \in Patterns : Repairable(p) => ComputeRepair(p) = Dates(Live(p))
=============================================================================
