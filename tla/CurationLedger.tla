-------------------------- MODULE CurationLedger --------------------------
(***************************************************************************)
(* What the lesson curation store promises of a request, whatever the      *)
(* request asks for: it is decided once.  A record counts the changes made *)
(* to it; a decided request names the revision it left the record at; a    *)
(* purge closes the record for good and withdraws the receipts of all its  *)
(* requests.  Module Curation implements this.                             *)
(***************************************************************************)
EXTENDS Naturals

CONSTANTS
  Keys,        \* lesson keys
  RequestIds,  \* ids the clients give their requests
  None         \* a request that is not decided

VARIABLES
  revision,  \* changes made to each record
  closed,    \* the records that were purged
  receipt    \* what each request was told: None, or its record, the revision
             \* it left and whether it made it; "purged" withdraws the last two

vars == <<revision, closed, receipt>>

Init ==
  /\ revision = [k \in Keys |-> 0]
  /\ closed = {}
  /\ receipt = [r \in RequestIds |-> None]

Decide(r, k, rev, changed) ==
  /\ receipt[r] = None
  /\ k \notin closed
  /\ receipt' = [receipt EXCEPT ![r] =
       [key |-> k, state |-> "committed", revision |-> rev, changed |-> changed]]

\* The record takes its next revision.
Change(r, k) ==
  /\ Decide(r, k, revision[k] + 1, TRUE)
  /\ revision' = [revision EXCEPT ![k] = @ + 1]
  /\ UNCHANGED closed

\* The record already is what the request asks for.
Keep(r, k) ==
  /\ Decide(r, k, revision[k], FALSE)
  /\ UNCHANGED <<revision, closed>>

Withdrawn(k) == [key |-> k, state |-> "purged", revision |-> None, changed |-> None]

Purge(r, k) ==
  /\ receipt[r] = None
  /\ closed' = closed \cup {k}
  /\ revision' = IF k \in closed THEN revision ELSE [revision EXCEPT ![k] = @ + 1]
  /\ receipt' = [q \in RequestIds |->
       IF q = r \/ (receipt[q] # None /\ receipt[q].key = k)
       THEN Withdrawn(k) ELSE receipt[q]]

Next == \E r \in RequestIds, k \in Keys : Change(r, k) \/ Keep(r, k) \/ Purge(r, k)

Spec == Init /\ [][Next]_vars
=============================================================================
