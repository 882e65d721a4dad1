-------------------------- MODULE PromotionLedger --------------------------
(* The rows of the promotion ledger: what each write makes of a pattern's    *)
(* row, and what a curriculum tick plans from it. A date is the number of    *)
(* the commit it was taken for, 0 is null.                                   *)
EXTENDS Integers

CONSTANTS Threshold,   \* promotion.threshold
          MaxRewords,  \* promotion.max_rewords
          None

ASSUME ThresholdAssumption == Threshold \in Nat \ {0}

\* An artifact of its own file, and a bullet in the file all patterns share.
Types == {"skill", "rule"}

Statuses == {"none", "staged", "promoted", "retired", "rejected", "deleted"}

\* A pattern that is not in the ledger.
NoRow == [status |-> "none", artifact_type |-> "skill", served_by |-> None,
          promoted_at_count |-> 0, rejected_at_count |-> 0, promoted_at |-> 0,
          revised_at |-> 0, revisions |-> 0, inline |-> FALSE, human |-> FALSE]

Known(row) == row.status # "none"

Larger(a, b) == IF a > b THEN a ELSE b

EntryType(row) == IF row.served_by # None THEN row.served_by ELSE row.artifact_type

\* The branch carries a type change the default branch does not know.
Migrating(staged, prior) ==
  Known(staged) /\ Known(prior) /\ EntryType(staged) # EntryType(prior)

ServedBy(staged, prior) ==
  IF staged.served_by # None THEN staged.served_by ELSE prior.served_by

\* Mutant: what was refused does not count.
WatermarkOfPromotion(row) == row.promoted_at_count

Watermark(row) == Larger(row.promoted_at_count, row.rejected_at_count)

IsLiveLoop(row) == row.status = "promoted" /\ ~row.inline

------------------------------------------------------------------------------
\* What accept records: `entry` is the branch's row, `live` the one at the base.
AcceptedRow(entry, live, now) ==
  LET row         == IF Known(entry) THEN entry ELSE live
      retiring    == entry.status = "retired"
      wasPromoted == live.status = "promoted"
      since       == IF wasPromoted /\ live.promoted_at # 0 THEN live.promoted_at ELSE now
  IN  IF ~Known(row) THEN NoRow
      ELSE IF retiring THEN [row EXCEPT !.served_by = None]
      ELSE [row EXCEPT !.status = "promoted",
                       !.promoted_at = since,
                       !.revised_at = IF wasPromoted THEN now ELSE since,
                       !.revisions = IF wasPromoted THEN live.revisions + 1 ELSE 0]

\* Only the watermark of a known row moves, and never down.
RejectedRow(prior, branchRow, at) ==
  IF Known(prior)
  THEN [prior EXCEPT !.rejected_at_count = Larger(prior.rejected_at_count, at)]
  ELSE [NoRow EXCEPT !.status = "rejected", !.rejected_at_count = at,
                     !.artifact_type = EntryType(branchRow)]

\* The tombstone of a deleted row keeps the marks, the dates and the origin.
TombstoneRow(prior, branchRow, at) ==
  [prior EXCEPT !.status = "deleted", !.served_by = None, !.human = FALSE,
                !.artifact_type = IF Known(prior) THEN prior.artifact_type
                                  ELSE EntryType(branchRow),
                !.rejected_at_count =
                  Larger(Larger(prior.rejected_at_count, branchRow.promoted_at_count), at)]

RehomedRow(row, type) ==
  [row EXCEPT !.artifact_type = type, !.served_by = type, !.status = "staged",
              !.human = TRUE]

RetiredRow(row, at) ==
  [row EXCEPT !.status = "retired", !.served_by = None,
              !.rejected_at_count = Larger(row.rejected_at_count, at)]

RegisteredRow(prior, type, at, now) ==
  LET again == prior.inline /\ prior.status # "deleted"
  IN  [prior EXCEPT !.status = "promoted", !.artifact_type = type, !.served_by = type,
                    !.promoted_at_count = Larger(prior.promoted_at_count, at),
                    !.promoted_at = IF again /\ prior.promoted_at # 0
                                    THEN prior.promoted_at ELSE now,
                    !.revised_at = now,
                    !.revisions = IF again THEN prior.revisions + 1 ELSE 0,
                    !.inline = TRUE, !.human = FALSE]

\* The row of a fresh draft: an automatic merge promotes at once, a staged one
\* carries the live dates until accept decides.
StagedRow(staged, prior, type, count, auto, now) ==
  LET wasPromoted == auto /\ prior.status = "promoted"
      since       == IF ~auto THEN prior.promoted_at
                     ELSE IF wasPromoted /\ prior.promoted_at # 0 THEN prior.promoted_at
                     ELSE now
  IN  [status |-> IF auto THEN "promoted" ELSE "staged",
       artifact_type |-> type, served_by |-> type,
       promoted_at_count |-> Larger(count, prior.promoted_at_count),
       rejected_at_count |-> prior.rejected_at_count,
       promoted_at |-> since,
       revised_at |-> IF ~auto THEN prior.revised_at
                      ELSE IF wasPromoted THEN now ELSE since,
       revisions |-> IF ~auto THEN prior.revisions
                     ELSE IF wasPromoted THEN prior.revisions + 1 ELSE 0,
       inline |-> FALSE,
       human |-> staged.human \/ prior.human]

------------------------------------------------------------------------------
(* The plan of a pattern. `card` is what its scorecard proposes and `held`    *)
(* what the observed sessions say of another redraft.                          *)

Cards == {"keep", "refine", "retire-candidate"}

\* An escalation needs a spent redraft budget.
RedraftPolicies(row) ==
  {"redraft", "observing"} \cup (IF row.revisions >= MaxRewords THEN {"escalate"} ELSE {})

PlanAction(row, count, stub, card, held) ==
  IF row.inline THEN "done"
  ELSE IF count > 0 /\ count - Watermark(row) >= Threshold
       THEN IF row.status = "promoted" /\ held # "redraft" THEN held ELSE "promote"
  ELSE IF count > 0 /\ stub THEN "promote"
  ELSE IF row.status = "promoted" /\ card # "keep" THEN card
  ELSE IF Known(row) THEN "done" ELSE "below-threshold"

\* The evidence a planned action counts; without reflections the row's own.
PlannedCount(row, count) == IF count > 0 THEN count ELSE row.promoted_at_count
=============================================================================
