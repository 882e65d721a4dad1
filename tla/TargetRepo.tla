----------------------------- MODULE TargetRepo -----------------------------
(* The git repository of a world: its commits, the default branch, one branch *)
(* per pattern, and the branches that a worktree holds. A commit carries the  *)
(* ledger, every pattern's artifact in every type, and the last commit that   *)
(* put content in it that is no pattern's.                                    *)
EXTENDS PromotionLedger, Sequences, FiniteSets

CONSTANT Patterns

VARIABLES commits,  \* every commit made, in the order of their making
          main,     \* the commit of the default branch
          branch,   \* the commit of each pattern's branch, 0 without one
          held,     \* the branches checked out in a worktree that outlives its step
          checkout  \* the commit in the target's own checkout, 0 for the default branch

repo == <<commits, main, branch, held, checkout>>

\* What a pattern's artifact says in one type: nothing, the placeholder of a
\* re-home, or the text first written by a commit, named by its number.
NoText == 0
Stub   == -1
IsText(body) == body > 0

Now == Len(commits) + 1

Ledger(c) == commits[c].ledger
Files(c)  == commits[c].files

Live(p)   == Ledger(main)[p]
CheckedOut == IF checkout = 0 THEN main ELSE checkout
Seen(p)   == Ledger(CheckedOut)[p]
Staged(p) == IF branch[p] = 0 THEN NoRow ELSE Ledger(branch[p])[p]
Exists(p) == branch[p] # 0

IsAncestor(a, b) == a \in commits[b].ancestors
Merged(p) == Exists(p) /\ IsAncestor(branch[p], main)

\* The one common ancestor every other one is an ancestor of.
MergeBase(a, b) ==
  LET common == commits[a].ancestors \cap commits[b].ancestors
  IN  CHOOSE c \in common : \A d \in common : IsAncestor(d, c)

\* A commit on top of `parents`. Its subject tells a reviewed accept ("accept")
\* from the loop's other commits ("loop") and a person's ("person").
Committed(parents, ledger, files, extra, subject) ==
  commits' = Append(commits,
    [parents |-> parents,
     ancestors |-> {Now} \cup UNION {commits[parents[i]].ancestors : i \in DOMAIN parents},
     ledger |-> ledger, files |-> files, extra |-> extra, subject |-> subject])

\* git branch -D: refused, and silently so, for a branch a worktree holds.
Dropped(p) == IF p \in held THEN branch ELSE [branch EXCEPT ![p] = 0]

\* Mutant: compared with the default branch itself, not with where it was left.
ForeignToBase(p, base, tip) ==
  \/ commits[tip].extra # commits[base].extra
  \/ \E q \in Patterns \ {p} : Files(tip)[q] # Files(base)[q]

\* What the branch changes since it left the default branch that is not the
\* pattern's: other patterns' artifacts, or content of nobody's.
Foreign(p, base, tip) ==
  LET from == MergeBase(base, tip)
  IN  \/ commits[tip].extra # commits[from].extra
      \/ \E q \in Patterns \ {p} : Files(tip)[q] # Files(from)[q]

\* Git's verdict on one artifact, changed on neither side, on one or on both.
Sides(p, t, base, tip) ==
  LET from == Files(MergeBase(base, tip))[p][t]
  IN  [ours |-> Files(tip)[p][t] # from, theirs |-> Files(base)[p][t] # from]

\* A file of the pattern's own that both sides changed is a person's decision.
Conflicts(p, base, tip) ==
  LET s == Sides(p, "skill", base, tip)
  IN  s.ours /\ s.theirs /\ Files(tip)[p]["skill"] # Files(base)[p]["skill"]

\* The tree of bringing `base` into `tip`: what the branch changed of its own
\* artifact, and the base for everything else. Two bullets at one place of the
\* rules file are resolved the same way.
MergedFiles(p, base, tip) ==
  [Files(base) EXCEPT ![p] = [t \in Types |->
     IF Sides(p, t, base, tip).ours THEN Files(tip)[p][t] ELSE @[t]]]
=============================================================================
