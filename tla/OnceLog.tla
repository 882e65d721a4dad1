------------------------------ MODULE OnceLog ------------------------------
(***************************************************************************)
(* What the loop state promises of the records hooks hand it: each one is  *)
(* stored once, or given up once on purpose, whoever moves it there.       *)
(***************************************************************************)
EXTENDS Naturals

CONSTANT Records

VARIABLES
  waiting,   \* accepted, not in the database yet
  stored,    \* how often each record is in the database
  dropped    \* given up to keep the spill bounded

vars == <<waiting, stored, dropped>>

Init ==
  /\ waiting = {}
  /\ stored = [r \in Records |-> 0]
  /\ dropped = {}

New(r) == r \notin waiting \cup dropped /\ stored[r] = 0

StoreAll(R) == [r \in Records |-> IF r \in R THEN stored[r] + 1 ELSE stored[r]]

\* The database takes a record at once, or it has to wait.
Write(r) == New(r) /\ stored' = StoreAll({r}) /\ UNCHANGED <<waiting, dropped>>

Accept(r) == New(r) /\ waiting' = waiting \cup {r} /\ UNCHANGED <<stored, dropped>>

Import(R) ==
  /\ R \subseteq waiting
  /\ waiting' = waiting \ R
  /\ stored' = StoreAll(R)
  /\ UNCHANGED dropped

Drop(R) ==
  /\ R \subseteq waiting
  /\ waiting' = waiting \ R
  /\ dropped' = dropped \cup R
  /\ UNCHANGED stored

Next ==
  \/ \E r \in Records : Write(r) \/ Accept(r)
  \/ \E R \in SUBSET Records : Import(R) \/ Drop(R)

Spec == Init /\ [][Next]_vars
=============================================================================
