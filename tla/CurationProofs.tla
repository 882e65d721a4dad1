-------------------------- MODULE CurationProofs --------------------------
(***************************************************************************)
(* For any lessons, scopes, texts, digests and requests: a lesson has one  *)
(* scope, its revisions are each made by one request, a purge leaves       *)
(* nothing behind, baselines were read, and the tables implement the       *)
(* ledger.                                                                 *)
(***************************************************************************)
EXTENDS Curation, TLAPS

Committed(r) ==
  requests[r].state = "committed" /\ requests[r].revision \in Nat /\ requests[r].changed \in BOOLEAN

\* The requests of a record that stands keep what they were told.
OpenCommitted ==
  \A r \in RequestIds : requests[r] # None /\ ~Purged(requests[r].key) => Committed(r)

\* Each part needs the others: a purge withdraws the receipts of one scope
\* because there is one, and a new revision is nobody's because those made so
\* far are 1 .. n.
IInv == TypeOK /\ OneScope /\ RevisionsAccountedFor /\ PurgeLeavesNothing /\ OpenCommitted

\* The parts of RevisionsAccountedFor and PurgeLeavesNothing about one lesson.
Accounted(k) ==
  LET makers == {r \in RequestsOf(k) : requests[r].changed} IN
  /\ revisions[k] = 1 .. Revision(k)
  /\ {requests[r].revision : r \in makers} = revisions[k]
  /\ \A r, q \in makers : requests[r].revision = requests[q].revision => r = q
  /\ \A r \in RequestsOf(k) : requests[r].revision \in 0 .. Revision(k)
Erased(k) ==
  /\ records[k].text = None /\ records[k].baseline = None /\ ~records[k].important
  /\ revisions[k] = {records[k].revision}
  /\ \A r \in RequestsOf(k) : requests[r] = PurgedReceipt(k, records[k].scope)

-----------------------------------------------------------------------------
(* What requests, rows and receipts are made of.                           *)

\* A request that is sent has an id, a lesson, a scope and a change.
LEMMA CallType ==
  ASSUME NEW c \in Calls
  PROVE  /\ c.id \in RequestIds /\ c.key \in Keys /\ c.scope \in Scopes
         /\ c.change \in Changes
         /\ c.change.kind = "capture" => c.key \in Captures
         /\ c.change.kind = "acknowledge-source" => c.key \in Inbox
BY DEF Calls

\* The value of a change is of the kind the change asks for.
LEMMA ChangeType ==
  ASSUME NEW d \in Changes
  PROVE  /\ d.kind \in {"capture", "edit", "important", "acknowledge-source", "purge"}
         /\ d.kind \in {"capture", "edit"} => d.value \in Texts
         /\ d.kind = "important" => d.value \in BOOLEAN
         /\ d.kind = "acknowledge-source" => d.value \in Digests
         /\ d.value \in Texts \cup BOOLEAN \cup Digests \cup {None}
BY DEF Changes

\* The revision of a lesson is a natural number, 0 without a row.
LEMMA RevisionType == ASSUME TypeOK, NEW k \in Keys PROVE Revision(k) \in Nat
BY DEF TypeOK, Revision, Row

\* The receipts the store writes are rows of the table.
LEMMA ReceiptType ==
  ASSUME NEW c \in Calls, NEW n \in Nat, NEW b \in BOOLEAN
  PROVE  Receipt(c, n, b) \in RequestRow
BY CallType, ChangeType DEF Receipt, RequestRow

\* So is a withdrawn one.
LEMMA PurgedReceiptType ==
  ASSUME NEW k \in Keys, NEW s \in Scopes PROVE PurgedReceipt(k, s) \in RequestRow
BY DEF PurgedReceipt, RequestRow

\* A request in the table names a lesson and a scope.
LEMMA RequestType ==
  ASSUME TypeOK, NEW r \in RequestIds, requests[r] # None
  PROVE  requests[r] \in RequestRow /\ requests[r].key \in Keys /\ requests[r].scope \in Scopes
BY DEF TypeOK, RequestRow

\* All requests of a lesson have the scope of a request that is let in.
LEMMA OneScopeAdmits ==
  ASSUME IInv, NEW c \in Calls, InScope(c), NEW r \in RequestsOf(c.key)
  PROVE  requests[r].scope = c.scope
BY DEF IInv, OneScope, InScope, RequestsOf

\* The end of a transaction leaves none open.
LEMMA CloseType == ASSUME Close PROVE tx' \in Transaction \cup {None} /\ sighted' \in Sightings
BY DEF Close, Unseen, Sightings

-----------------------------------------------------------------------------
(* One more request of a lesson.                                           *)

\* The request joins those of its lesson, and nothing else is told anything.
LEMMA OneMoreRequest ==
  ASSUME TypeOK, NEW c \in Calls, Fresh(c), NEW x \in RequestRow, x.key = c.key,
         requests' = [requests EXCEPT ![c.id] = x]
  PROVE  /\ requests' \in [RequestIds -> RequestRow \cup {None}]
         /\ requests'[c.id] = x
         /\ \A r \in RequestIds : r # c.id => requests'[r] = requests[r]
         /\ RequestsOf(c.key)' = RequestsOf(c.key) \cup {c.id}
         /\ c.id \notin RequestsOf(c.key)
         /\ \A k \in Keys : k # c.key => RequestsOf(k)' = RequestsOf(k)
         /\ \A k \in Keys : RequestsOf(k) \subseteq RequestIds
<1>1. x # None
  BY NoneAssumption
<1>2. c.id \in RequestIds /\ c.key \in Keys
  BY CallType
<1>3. /\ requests' \in [RequestIds -> RequestRow \cup {None}]
      /\ requests'[c.id] = x
      /\ \A r \in RequestIds : r # c.id => requests'[r] = requests[r]
  BY <1>2 DEF TypeOK
<1>4. requests[c.id] = None
  BY DEF Fresh
<1> QED
  BY <1>1, <1>2, <1>3, <1>4 DEF RequestsOf

\* A request of the scope the lesson has leaves it with one scope.
LEMMA ScopeKept ==
  ASSUME IInv, NEW c \in Calls, Fresh(c), InScope(c), NEW x \in RequestRow,
         x.key = c.key, x.scope = c.scope, requests' = [requests EXCEPT ![c.id] = x],
         records'[c.key] # None => records'[c.key].scope = c.scope,
         \A k \in Keys : k # c.key => records'[k] = records[k]
  PROVE  OneScope'
<1>1. /\ requests'[c.id] = x
      /\ \A r \in RequestIds : r # c.id => requests'[r] = requests[r]
  BY OneMoreRequest DEF IInv
<1>2. \A r \in RequestIds : requests[r] # None /\ requests[r].key = c.key =>
        requests[r].scope = c.scope
  BY OneScopeAdmits DEF RequestsOf
<1>3. \A r \in RequestIds : requests[r] # None => requests[r].key \in Keys
  BY RequestType DEF IInv
<1>4. \A r \in RequestIds : requests[r] # None /\ records[requests[r].key] # None =>
        records[requests[r].key].scope = requests[r].scope
  BY DEF IInv, OneScope
<1>5. ASSUME NEW r \in RequestIds, requests'[r] # None, records'[requests'[r].key] # None
      PROVE  records'[requests'[r].key].scope = requests'[r].scope
  <2>1. CASE requests'[r].key = c.key
    BY <1>1, <1>2, <1>5, <2>1
  <2>2. CASE requests'[r].key # c.key
    BY <1>1, <1>3, <1>4, <1>5, <2>2
  <2> QED BY <2>1, <2>2
<1>6. ASSUME NEW r \in RequestIds, NEW q \in RequestIds, requests'[r] # None,
             requests'[q] # None, requests'[r].key = requests'[q].key
      PROVE  requests'[r].scope = requests'[q].scope
  <2>1. \A i, j \in RequestIds :
          requests[i] # None /\ requests[j] # None /\ requests[i].key = requests[j].key =>
            requests[i].scope = requests[j].scope
    BY DEF IInv, OneScope
  <2> QED BY <1>1, <1>2, <1>6, <2>1
<1> QED BY <1>5, <1>6 DEF OneScope

\* A lesson none of whose rows changed stays accounted for or erased.
LEMMA UntouchedKept ==
  ASSUME IInv, NEW k \in Keys, records'[k] = records[k], revisions'[k] = revisions[k],
         RequestsOf(k)' = RequestsOf(k), \A r \in RequestsOf(k) : requests'[r] = requests[r]
  PROVE  /\ ~Purged(k)' => Accounted(k)'
         /\ Purged(k)' => Erased(k)'
<1>1. Revision(k)' = Revision(k) /\ Purged(k)' = Purged(k)
  BY DEF Revision, Purged
<1>2. Purged(k)' => Erased(k)'
  <2>1. Purged(k) => Erased(k)
    BY DEF IInv, PurgeLeavesNothing, Erased, PurgedReceipt
  <2> QED BY <1>1, <2>1 DEF Erased, PurgedReceipt
<1>3. ASSUME ~Purged(k)' PROVE Accounted(k)'
  <2> DEFINE old == {r \in RequestsOf(k) : requests[r].changed}
             new == {r \in RequestsOf(k)' : requests'[r].changed}
  <2>1. new = old /\ \A r \in old : requests'[r] = requests[r]
    OBVIOUS
  <2>2. /\ revisions[k] = 1 .. Revision(k)
        /\ {requests[r].revision : r \in old} = revisions[k]
        /\ \A r, q \in old : requests[r].revision = requests[q].revision => r = q
        /\ \A r \in RequestsOf(k) : requests[r].revision \in 0 .. Revision(k)
    BY <1>1, <1>3 DEF IInv, RevisionsAccountedFor
  <2>3. {requests'[r].revision : r \in new} = {requests[r].revision : r \in old}
    BY <2>1
  <2> QED BY <1>1, <2>1, <2>2, <2>3 DEF Accounted
<1> QED BY <1>2, <1>3

\* So do the lessons a request does not name.
LEMMA OthersKept ==
  ASSUME IInv, NEW c \in Calls, Fresh(c), NEW x \in RequestRow, x.key = c.key,
         requests' = [requests EXCEPT ![c.id] = x],
         NEW k \in Keys, k # c.key, records'[k] = records[k], revisions'[k] = revisions[k]
  PROVE  /\ ~Purged(k)' => Accounted(k)'
         /\ Purged(k)' => Erased(k)'
<1>1. c.id \notin RequestsOf(k)
  BY DEF Fresh, RequestsOf
<1>2. RequestsOf(k)' = RequestsOf(k) /\ \A r \in RequestsOf(k) : requests'[r] = requests[r]
  BY <1>1, OneMoreRequest DEF IInv
<1> QED BY <1>2, UntouchedKept

-----------------------------------------------------------------------------
(* The steps of the store.                                                 *)

\* Capture, a first annotation and an update: the next revision of a row.
LEMMA CommitStep ==
  ASSUME IInv, NEW c \in Calls, Fresh(c), InScope(c), ~Purged(c.key),
         NEW row \in Row, row.scope = c.scope, ~row.purged,
         row.revision = Revision(c.key) + 1, Commit(c, row, TRUE)
  PROVE  IInv'
<1> DEFINE k == c.key
           x == Receipt(c, row.revision, TRUE)
           makers == {r \in RequestsOf(k) : requests[r].changed}
<1>1. /\ k \in Keys /\ c.id \in RequestIds
      /\ Revision(k) \in Nat
      /\ records' = [records EXCEPT ![k] = row]
      /\ revisions' = [revisions EXCEPT ![k] = @ \cup {row.revision}]
      /\ requests' = [requests EXCEPT ![c.id] = x]
      /\ UNCHANGED <<source, place>>
      /\ tx' \in Transaction \cup {None} /\ sighted' \in Sightings
  BY CallType, RevisionType, CloseType DEF IInv, Commit, outside
<1>2. /\ x \in RequestRow /\ x.key = k /\ x.scope = c.scope /\ x.state = "committed"
      /\ x.revision = Revision(k) + 1 /\ x.changed = TRUE
      /\ row.revision = Revision(k) + 1
  <2>1. Revision(k) + 1 \in Nat /\ TRUE \in BOOLEAN
    BY <1>1
  <2>2. Receipt(c, Revision(k) + 1, TRUE) \in RequestRow
    BY <2>1, ReceiptType
  <2> QED BY <2>2 DEF Receipt
<1> HIDE DEF x
<1>3. /\ records'[k] = row /\ revisions'[k] = revisions[k] \cup {row.revision}
      /\ \A j \in Keys : j # k => records'[j] = records[j] /\ revisions'[j] = revisions[j]
  BY <1>1 DEF IInv, TypeOK
<1>4. /\ requests' \in [RequestIds -> RequestRow \cup {None}]
      /\ requests'[c.id] = x
      /\ \A r \in RequestIds : r # c.id => requests'[r] = requests[r]
      /\ RequestsOf(k)' = RequestsOf(k) \cup {c.id}
      /\ c.id \notin RequestsOf(k)
      /\ RequestsOf(k) \subseteq RequestIds
  <2> QED BY <1>1, <1>2, OneMoreRequest DEF IInv
<1>5. row # None /\ Revision(k)' = Revision(k) + 1 /\ ~Purged(k)'
  BY <1>3, NoneAssumption DEF Revision, Purged
<1>6. TypeOK'
  <2>1. records' \in [Keys -> Row \cup {None}] /\ revisions' \in [Keys -> SUBSET Nat]
    BY <1>1 DEF IInv, TypeOK
  <2> QED BY <1>1, <1>4, <2>1 DEF IInv, TypeOK
<1>7. OneScope'
  <2> QED BY <1>1, <1>2, <1>3, ScopeKept
<1>8. /\ revisions[k] = 1 .. Revision(k)
      /\ {requests[r].revision : r \in makers} = revisions[k]
      /\ \A r, q \in makers : requests[r].revision = requests[q].revision => r = q
      /\ \A r \in RequestsOf(k) : requests[r].revision \in 0 .. Revision(k)
  BY <1>1 DEF IInv, RevisionsAccountedFor
<1>9. RevisionsAccountedFor'
  <2> SUFFICES ASSUME NEW j \in Keys, ~Purged(j)'
               PROVE Accounted(j)'
    BY DEF RevisionsAccountedFor, Accounted
  <2>1. CASE j # k
    <3> QED BY <1>1, <1>2, <1>3, <2>1, OthersKept
  <2>2. CASE j = k
    <3> DEFINE m == {r \in RequestsOf(k)' : requests'[r].changed}
    <3>1. \A r \in RequestsOf(k) : requests'[r] = requests[r]
      BY <1>4
    <3>2. m = makers \cup {c.id} /\ c.id \notin makers
      BY <1>2, <1>4, <3>1
    <3>3. /\ \A r \in makers : requests'[r].revision = requests[r].revision
          /\ requests'[c.id].revision = Revision(k) + 1
      BY <1>2, <1>4, <3>1
    <3>4. revisions'[k] = 1 .. Revision(k)'
      <4>1. revisions'[k] = (1 .. Revision(k)) \cup {Revision(k) + 1}
        BY <1>2, <1>3, <1>8
      <4>2. Revision(k) \in Nat /\ Revision(k)' = Revision(k) + 1
        BY <1>1, <1>5
      <4> HIDE DEF k
      <4> QED BY <4>1, <4>2
    <3>5. {requests'[r].revision : r \in m} = revisions'[k]
      BY <1>2, <1>3, <1>8, <3>2, <3>3
    <3>6. \A r \in makers : requests[r].revision \in 1 .. Revision(k)
      BY <1>8
    <3>7. \A r, q \in m : requests'[r].revision = requests'[q].revision => r = q
      <4>1. Revision(k) \in Nat
        BY <1>1
      <4>2. \A r, q \in makers : requests[r].revision = requests[q].revision => r = q
        BY <1>8
      <4> HIDE DEF m, makers
      <4> QED BY <3>2, <3>3, <3>6, <4>1, <4>2
    <3>8. \A r \in RequestsOf(k)' : requests'[r].revision \in 0 .. Revision(k)'
      <4>1. Revision(k) \in Nat /\ Revision(k)' = Revision(k) + 1
        BY <1>1, <1>5
      <4>2. \A r \in RequestsOf(k) : requests'[r].revision \in 0 .. Revision(k)
        BY <1>8, <3>1
      <4>3. RequestsOf(k)' = RequestsOf(k) \cup {c.id} /\ requests'[c.id].revision = Revision(k) + 1
        BY <1>4, <3>3
      <4> HIDE DEF k
      <4> QED BY <4>1, <4>2, <4>3
    <3> QED BY <2>2, <3>4, <3>5, <3>7, <3>8 DEF Accounted
  <2> QED BY <2>1, <2>2
<1>10. PurgeLeavesNothing'
  <2> SUFFICES ASSUME NEW j \in Keys, Purged(j)'
               PROVE Erased(j)'
    BY DEF PurgeLeavesNothing, Erased, PurgedReceipt
  <2>1. j # k
    BY <1>5
  <2> QED BY <1>1, <1>2, <1>3, <2>1, OthersKept
<1>11. OpenCommitted'
  <2> SUFFICES ASSUME NEW r \in RequestIds, requests'[r] # None, ~Purged(requests[r].key)'
               PROVE Committed(r)'
    BY DEF OpenCommitted, Purged, Committed
  <2>1. CASE r = c.id
    <3>1. Revision(k) + 1 \in Nat
      BY <1>1
    <3> QED BY <1>2, <1>4, <2>1, <3>1 DEF Committed
  <2>2. CASE r # c.id
    <3>1. requests'[r] = requests[r] /\ requests[r].key \in Keys
      BY <1>4, <2>2, RequestType DEF IInv
    <3>2. ~Purged(requests[r].key)
      BY <1>3, <3>1 DEF Purged
    <3> QED BY <3>1, <3>2 DEF IInv, OpenCommitted, Committed
  <2> QED BY <2>1, <2>2
<1> QED BY <1>6, <1>7, <1>9, <1>10, <1>11 DEF IInv

\* A request that changes nothing is told so, and only it.
LEMMA UnchangedStep ==
  ASSUME IInv, NEW c \in Calls, Unchanged(c)
  PROVE  IInv'
<1> DEFINE k == c.key
           x == Receipt(c, Revision(k), FALSE)
<1>1. /\ k \in Keys /\ c.id \in RequestIds
      /\ Revision(k) \in Nat
      /\ requests' = [requests EXCEPT ![c.id] = x]
      /\ UNCHANGED <<records, revisions, source, place>>
      /\ tx' \in Transaction \cup {None} /\ sighted' \in Sightings
      /\ Fresh(c) /\ InScope(c) /\ ~Purged(k)
  BY CallType, RevisionType, CloseType DEF IInv, Unchanged, Admitted, outside
<1>2. /\ x \in RequestRow /\ x.key = k /\ x.scope = c.scope /\ x.state = "committed"
      /\ x.revision = Revision(k) /\ x.changed = FALSE
  <2>1. Receipt(c, Revision(k), FALSE) \in RequestRow
    BY <1>1, ReceiptType
  <2> QED BY <2>1 DEF Receipt
<1> HIDE DEF x
<1>3. /\ requests' \in [RequestIds -> RequestRow \cup {None}]
      /\ requests'[c.id] = x
      /\ \A r \in RequestIds : r # c.id => requests'[r] = requests[r]
      /\ RequestsOf(k)' = RequestsOf(k) \cup {c.id}
      /\ c.id \notin RequestsOf(k)
      /\ RequestsOf(k) \subseteq RequestIds
  BY <1>1, <1>2, OneMoreRequest DEF IInv
<1>4. Revision(k)' = Revision(k) /\ ~Purged(k)'
  BY <1>1 DEF Revision, Purged
<1>5. TypeOK'
  BY <1>1, <1>3 DEF IInv, TypeOK
<1>6. OneScope'
  <2>1. records'[k] # None => records'[k].scope = c.scope
    BY <1>1 DEF InScope
  <2> QED BY <1>1, <1>2, <2>1, ScopeKept
<1>7. RevisionsAccountedFor'
  <2> SUFFICES ASSUME NEW j \in Keys, ~Purged(j)'
               PROVE Accounted(j)'
    BY DEF RevisionsAccountedFor, Accounted
  <2>1. CASE j # k
    BY <1>1, <1>2, <2>1, OthersKept
  <2>2. CASE j = k
    <3> DEFINE m == {r \in RequestsOf(k)' : requests'[r].changed}
               makers == {r \in RequestsOf(k) : requests[r].changed}
    <3>1. /\ revisions[k] = 1 .. Revision(k)
          /\ {requests[r].revision : r \in makers} = revisions[k]
          /\ \A r, q \in makers : requests[r].revision = requests[q].revision => r = q
          /\ \A r \in RequestsOf(k) : requests[r].revision \in 0 .. Revision(k)
      BY <1>1 DEF IInv, RevisionsAccountedFor
    <3>2. \A r \in RequestsOf(k) : requests'[r] = requests[r]
      BY <1>3
    <3>3. m = makers
      BY <1>2, <1>3, <3>2
    <3>4. {requests'[r].revision : r \in m} = {requests[r].revision : r \in makers}
      BY <3>2, <3>3
    <3>5. \A r \in RequestsOf(k)' : requests'[r].revision \in 0 .. Revision(k)'
      <4>1. Revision(k) \in Nat /\ requests'[c.id].revision = Revision(k)
        BY <1>1, <1>2, <1>3
      <4>2. \A r \in RequestsOf(k) : requests'[r].revision \in 0 .. Revision(k)
        BY <3>1, <3>2
      <4>3. RequestsOf(k)' = RequestsOf(k) \cup {c.id} /\ Revision(k)' = Revision(k)
        BY <1>3, <1>4
      <4> HIDE DEF k
      <4> QED BY <4>1, <4>2, <4>3
    <3>6. \A r \in makers : requests'[r] = requests[r]
      BY <3>2
    <3> QED
      <4> HIDE DEF m, makers
      <4>1. \A r, q \in m : requests'[r].revision = requests'[q].revision => r = q
        BY <3>1, <3>3, <3>6
      <4>2. revisions'[k] = 1 .. Revision(k)'
        BY <1>1, <1>4, <3>1
      <4>3. {requests'[r].revision : r \in m} = revisions'[k]
        BY <1>1, <3>1, <3>4
      <4> QED BY <2>2, <3>5, <4>1, <4>2, <4>3 DEF m, Accounted
  <2> QED BY <2>1, <2>2
<1>8. PurgeLeavesNothing'
  <2> SUFFICES ASSUME NEW j \in Keys, Purged(j)'
               PROVE Erased(j)'
    BY DEF PurgeLeavesNothing, Erased, PurgedReceipt
  <2>1. j # k
    BY <1>4
  <2> QED BY <1>1, <1>2, <2>1, OthersKept
<1>9. OpenCommitted'
  <2> SUFFICES ASSUME NEW r \in RequestIds, requests'[r] # None, ~Purged(requests[r].key)'
               PROVE Committed(r)'
    BY DEF OpenCommitted, Purged, Committed
  <2>1. CASE r = c.id
    BY <1>1, <1>2, <1>3, <2>1 DEF Committed
  <2>2. CASE r # c.id
    <3>1. requests'[r] = requests[r]
      BY <1>3, <2>2
    <3>2. ~Purged(requests[r].key)
      BY <1>1, <3>1 DEF Purged
    <3> QED BY <3>1, <3>2 DEF IInv, OpenCommitted, Committed
  <2> QED BY <2>1, <2>2
<1> QED BY <1>5, <1>6, <1>7, <1>8, <1>9 DEF IInv

\* A purge of a purged lesson gets a withdrawn receipt of its own.
LEMMA PurgeAgainStep ==
  ASSUME IInv, NEW c \in Calls, PurgeAgain(c)
  PROVE  IInv'
<1> DEFINE k == c.key
           x == PurgedReceipt(k, c.scope)
<1>1. /\ k \in Keys /\ c.id \in RequestIds /\ c.scope \in Scopes
      /\ requests' = [requests EXCEPT ![c.id] = x]
      /\ UNCHANGED <<records, revisions, source, place>>
      /\ Fresh(c) /\ InScope(c) /\ Purged(k)
      /\ tx' \in Transaction \cup {None} /\ sighted' \in Sightings
      /\ records[k] # None /\ records[k].scope = c.scope
  BY CallType, CloseType DEF PurgeAgain, outside, Purged, InScope
<1>2. x \in RequestRow /\ x.key = k /\ x.scope = c.scope
  <2>1. PurgedReceipt(k, c.scope) \in RequestRow
    BY <1>1, PurgedReceiptType
  <2> QED BY <2>1 DEF PurgedReceipt
<1>3. x = PurgedReceipt(k, records[k].scope)
  BY <1>1
<1> HIDE DEF x
<1>4. /\ requests' \in [RequestIds -> RequestRow \cup {None}]
      /\ requests'[c.id] = x
      /\ \A r \in RequestIds : r # c.id => requests'[r] = requests[r]
      /\ RequestsOf(k)' = RequestsOf(k) \cup {c.id}
      /\ c.id \notin RequestsOf(k)
      /\ RequestsOf(k) \subseteq RequestIds
  BY <1>1, <1>2, OneMoreRequest DEF IInv
<1>5. Purged(k)'
  BY <1>1 DEF Purged
<1>6. TypeOK'
  BY <1>1, <1>4 DEF IInv, TypeOK
<1>7. OneScope'
  BY <1>1, <1>2, ScopeKept
<1>8. RevisionsAccountedFor'
  <2> SUFFICES ASSUME NEW j \in Keys, ~Purged(j)'
               PROVE Accounted(j)'
    BY DEF RevisionsAccountedFor, Accounted
  <2>1. j # k
    BY <1>5
  <2> QED BY <1>1, <1>2, <2>1, OthersKept
<1>9. PurgeLeavesNothing'
  <2> SUFFICES ASSUME NEW j \in Keys, Purged(j)'
               PROVE Erased(j)'
    BY DEF PurgeLeavesNothing, Erased, PurgedReceipt
  <2>1. CASE j # k
    BY <1>1, <1>2, <2>1, OthersKept
  <2>2. CASE j = k
    <3>1. /\ records[k].text = None /\ records[k].baseline = None /\ ~records[k].important
          /\ revisions[k] = {records[k].revision}
          /\ \A r \in RequestsOf(k) : requests[r] = PurgedReceipt(k, records[k].scope)
      BY <1>1 DEF IInv, PurgeLeavesNothing
    <3>2. \A r \in RequestsOf(k)' : requests'[r] = PurgedReceipt(k, records[k].scope)
      BY <1>3, <1>4, <3>1
    <3> QED BY <1>1, <2>2, <3>1, <3>2 DEF Erased, PurgedReceipt
  <2> QED BY <2>1, <2>2
<1>10. OpenCommitted'
  <2> SUFFICES ASSUME NEW r \in RequestIds, requests'[r] # None, ~Purged(requests[r].key)'
               PROVE Committed(r)'
    BY DEF OpenCommitted, Purged, Committed
  <2>1. r # c.id
    BY <1>1, <1>2, <1>4 DEF Purged
  <2>2. requests'[r] = requests[r]
    BY <1>4, <2>1
  <2>3. ~Purged(requests[r].key)
    BY <1>1, <2>2 DEF Purged
  <2> QED BY <2>2, <2>3 DEF IInv, OpenCommitted, Committed
<1> QED BY <1>6, <1>7, <1>8, <1>9, <1>10 DEF IInv

\* A purge leaves a tombstone and withdraws every receipt of the lesson.
LEMMA PurgeStep ==
  ASSUME IInv, NEW c \in Calls, Purge(c)
  PROVE  IInv'
<1> DEFINE k == c.key
           x == PurgedReceipt(k, c.scope)
           row == Tombstone(c, Revision(k) + 1)
<1>1. /\ k \in Keys /\ c.id \in RequestIds /\ c.scope \in Scopes
      /\ Revision(k) \in Nat
      /\ records' = [records EXCEPT ![k] = row]
      /\ revisions' = [revisions EXCEPT ![k] = {Revision(k) + 1}]
      /\ Retire(c)
      /\ UNCHANGED <<source, place>>
      /\ tx' \in Transaction \cup {None} /\ sighted' \in Sightings
      /\ Fresh(c) /\ InScope(c)
  BY CallType, RevisionType, CloseType DEF IInv, Purge, Admitted, outside
<1>2. x \in RequestRow /\ x.key = k /\ x.scope = c.scope /\ x # None
  <2>1. PurgedReceipt(k, c.scope) \in RequestRow
    BY <1>1, PurgedReceiptType
  <2> QED BY <2>1, NoneAssumption DEF PurgedReceipt
<1>3. /\ row \in Row /\ row.scope = c.scope /\ row.purged /\ row # None
      /\ row.text = None /\ row.baseline = None /\ ~row.important
      /\ row.revision = Revision(k) + 1
  <2>1. Revision(k) + 1 \in Nat \ {0}
    BY <1>1
  <2>2. Tombstone(c, Revision(k) + 1) \in Row
    BY <1>1, <2>1 DEF Tombstone, Row
  <2> QED BY <2>2, NoneAssumption DEF Tombstone
<1>4. \A r \in RequestIds :
        requests'[r] = IF r \in RequestsOf(k) \cup {c.id} THEN x ELSE requests[r]
  <2>1. \A r \in RequestsOf(k) : requests[r].scope = c.scope
    BY <1>1, OneScopeAdmits
  <2> QED BY <1>1, <2>1 DEF Retire
<1>5. requests' = [r \in RequestIds |-> requests'[r]]
  BY <1>1 DEF Retire
<1> HIDE DEF x, row
<1>6. /\ RequestsOf(k)' = RequestsOf(k) \cup {c.id}
      /\ \A j \in Keys : j # k => RequestsOf(j)' = RequestsOf(j)
      /\ \A j \in Keys : j # k => \A r \in RequestsOf(j) : requests'[r] = requests[r]
  BY <1>1, <1>2, <1>4 DEF RequestsOf, Fresh
<1>7. /\ records'[k] = row /\ revisions'[k] = {Revision(k) + 1}
      /\ \A j \in Keys : j # k => records'[j] = records[j] /\ revisions'[j] = revisions[j]
  BY <1>1 DEF IInv, TypeOK
<1>8. Purged(k)'
  BY <1>3, <1>7 DEF Purged
<1>9. TypeOK'
  <2>1. records' \in [Keys -> Row \cup {None}] /\ revisions' \in [Keys -> SUBSET Nat]
    BY <1>1, <1>3 DEF IInv, TypeOK
  <2>2. \A r \in RequestIds : requests'[r] \in RequestRow \cup {None}
    BY <1>2, <1>4 DEF IInv, TypeOK
  <2>3. requests' \in [RequestIds -> RequestRow \cup {None}]
    BY <1>5, <2>2
  <2> QED BY <1>1, <2>1, <2>3 DEF IInv, TypeOK
<1>10. OneScope'
  <2>1. \A r \in RequestIds : requests'[r] # None /\ requests'[r].key = k => requests'[r] = x
    BY <1>4 DEF RequestsOf
  <2>2. \A r \in RequestIds : requests'[r] # None /\ requests'[r].key # k =>
          requests'[r] = requests[r] /\ requests[r].key \in Keys
    BY <1>2, <1>4, RequestType DEF IInv
  <2>3. ASSUME NEW r \in RequestIds, requests'[r] # None, records'[requests'[r].key] # None
        PROVE  records'[requests'[r].key].scope = requests'[r].scope
    <3>1. CASE requests'[r].key = k
      BY <1>2, <1>3, <1>7, <2>1, <2>3, <3>1
    <3>2. CASE requests'[r].key # k
      BY <1>7, <2>2, <2>3, <3>2 DEF IInv, OneScope
    <3> QED BY <3>1, <3>2
  <2>4. ASSUME NEW r \in RequestIds, NEW q \in RequestIds, requests'[r] # None,
               requests'[q] # None, requests'[r].key = requests'[q].key
        PROVE  requests'[r].scope = requests'[q].scope
    <3>1. CASE requests'[r].key = k
      BY <2>1, <2>4, <3>1
    <3>2. CASE requests'[r].key # k
      BY <2>2, <2>4, <3>2 DEF IInv, OneScope
    <3> QED BY <3>1, <3>2
  <2> QED BY <2>3, <2>4 DEF OneScope
<1>11. RevisionsAccountedFor'
  <2> SUFFICES ASSUME NEW j \in Keys, ~Purged(j)'
               PROVE Accounted(j)'
    BY DEF RevisionsAccountedFor, Accounted
  <2>1. j # k
    BY <1>8
  <2> QED BY <1>6, <1>7, <2>1, UntouchedKept
<1>12. PurgeLeavesNothing'
  <2> SUFFICES ASSUME NEW j \in Keys, Purged(j)'
               PROVE Erased(j)'
    BY DEF PurgeLeavesNothing, Erased, PurgedReceipt
  <2>1. CASE j # k
    BY <1>6, <1>7, <2>1, UntouchedKept
  <2>2. CASE j = k
    <3>1. \A r \in RequestsOf(k)' : requests'[r] = x
      BY <1>4, <1>6 DEF RequestsOf
    <3>2. x = PurgedReceipt(k, records'[k].scope)
      BY <1>3, <1>7 DEF x
    <3> QED BY <1>3, <1>7, <2>2, <3>1, <3>2 DEF Erased, PurgedReceipt
  <2> QED BY <2>1, <2>2
<1>13. OpenCommitted'
  <2> SUFFICES ASSUME NEW r \in RequestIds, requests'[r] # None, ~Purged(requests[r].key)'
               PROVE Committed(r)'
    BY DEF OpenCommitted, Purged, Committed
  <2>1. requests'[r].key # k
    BY <1>3, <1>7 DEF Purged
  <2>2. requests'[r] = requests[r] /\ requests[r].key \in Keys
    BY <1>2, <1>4, <2>1, RequestType DEF IInv
  <2>3. ~Purged(requests[r].key)
    BY <1>7, <2>1, <2>2 DEF Purged
  <2> QED BY <2>2, <2>3 DEF IInv, OpenCommitted, Committed
<1> QED BY <1>9, <1>10, <1>11, <1>12, <1>13 DEF IInv

-----------------------------------------------------------------------------
(* What the rows of a commit look like.                                    *)

\* A capture makes the first revision of a row with no source.
LEMMA CaptureRow ==
  ASSUME IInv, NEW c \in Calls, Capture(c)
  PROVE  \E row \in Row :
           /\ row.scope = c.scope /\ ~row.purged /\ row.revision = Revision(c.key) + 1
           /\ row.baseline = None
           /\ Fresh(c) /\ InScope(c) /\ ~Purged(c.key) /\ c.key \in Captures
           /\ Commit(c, row, TRUE)
<1> DEFINE row == NewRow(c, 1, FALSE, c.change.value, None)
<1>1. c.change.value \in Texts /\ c.scope \in Scopes /\ c.key \in Captures
  BY CallType, ChangeType DEF Capture
<1>2. row \in Row /\ row.scope = c.scope /\ ~row.purged /\ row.revision = 1 /\ row.baseline = None
  BY <1>1 DEF NewRow, Row
<1>3. Revision(c.key) = 0 /\ ~Purged(c.key)
  BY DEF Capture, Revision, Purged
<1>4. Fresh(c) /\ InScope(c) /\ Commit(c, row, TRUE)
  BY DEF Capture
<1> HIDE DEF row
<1>5. /\ row \in Row /\ row.scope = c.scope /\ ~row.purged
      /\ row.revision = Revision(c.key) + 1
  BY <1>2, <1>3
<1> QED BY <1>1, <1>2, <1>3, <1>4, <1>5, Zenon

\* A first annotation makes the first revision of a row, with the digest and
\* in the scope its transaction has read.
LEMMA AnnotateRow ==
  ASSUME IInv, NEW c \in Calls, Annotate(c)
  PROVE  \E row \in Row :
           /\ row.scope = c.scope /\ ~row.purged /\ row.revision = Revision(c.key) + 1
           /\ tx # None /\ c.key = tx.key /\ row.baseline = tx.digest /\ tx.digest # None
           /\ tx.scope = c.scope
           /\ Fresh(c) /\ InScope(c) /\ ~Purged(c.key)
           /\ Commit(c, row, TRUE)
<1> DEFINE important == c.change.kind = "important"
           text == IF c.change.kind = "edit" THEN c.change.value ELSE None
           row == NewRow(c, 1, important, text, tx.digest)
<1>1. /\ Fresh(c) /\ InScope(c) /\ ~Purged(c.key)
      /\ tx # None /\ tx.key = c.key /\ tx.digest # None /\ tx.scope = c.scope
      /\ Commit(c, row, TRUE)
  BY CurationAssumption, CallType DEF Annotate, Admitted, Sourced, NeedsSource, Keys
<1>2. c.scope \in Scopes /\ important \in BOOLEAN /\ text \in Texts \cup {None}
  BY CallType, ChangeType
<1>3. tx.digest \in Digests \cup {None}
  BY <1>1 DEF IInv, TypeOK, Transaction
<1> HIDE DEF important, text
<1>4. /\ row \in Row /\ row.scope = c.scope /\ ~row.purged /\ row.revision = 1
      /\ row.baseline = tx.digest
  BY <1>2, <1>3 DEF NewRow, Row
<1> HIDE DEF row
<1>5. row.revision = Revision(c.key) + 1
  BY <1>4 DEF Annotate, Revision
<1> QED BY <1>1, <1>4, <1>5, Zenon

\* A row with a new revision and one new value is a row.
LEMMA RowUpdated ==
  ASSUME NEW old \in Row
  PROVE  /\ old.revision \in Nat
         /\ \A t \in Texts : [old EXCEPT !.revision = old.revision + 1, !.text = t] \in Row
         /\ \A b \in BOOLEAN : [old EXCEPT !.revision = old.revision + 1, !.important = b] \in Row
         /\ \A d \in Digests : [old EXCEPT !.revision = old.revision + 1, !.baseline = d] \in Row
<1>1. old.revision \in Nat /\ old.revision + 1 \in Nat \ {0}
  BY DEF Row
<1>2. \A n \in Nat \ {0}, t \in Texts : [old EXCEPT !.revision = n, !.text = t] \in Row
  BY DEF Row
<1>3. \A n \in Nat \ {0}, b \in BOOLEAN : [old EXCEPT !.revision = n, !.important = b] \in Row
  BY DEF Row
<1>4. \A n \in Nat \ {0}, d \in Digests : [old EXCEPT !.revision = n, !.baseline = d] \in Row
  BY DEF Row
<1> QED BY <1>1, <1>2, <1>3, <1>4

\* An update makes the next revision of the row, and of the baseline at most
\* the digest its transaction has read.
LEMMA UpdateRow ==
  ASSUME IInv, NEW c \in Calls, Update(c)
  PROVE  \E row \in Row :
           /\ row.scope = c.scope /\ ~row.purged /\ row.revision = Revision(c.key) + 1
           /\ records[c.key] # None
           /\ \/ row.baseline = records[c.key].baseline
              \/ tx # None /\ tx.key = c.key /\ tx.digest # None /\ row.baseline = tx.digest
           /\ Fresh(c) /\ InScope(c) /\ ~Purged(c.key)
           /\ Commit(c, row, TRUE)
<1> DEFINE row == Updated(c)
           old == records[c.key]
           read(d) == tx # None /\ tx.key = c.key /\ tx.digest # None /\ d = tx.digest
<1>1. /\ Fresh(c) /\ InScope(c) /\ ~Purged(c.key) /\ old # None
      /\ c.change.kind = "acknowledge-source" =>
           tx # None /\ tx.key = c.key /\ tx.digest # None /\ tx.digest = c.change.value
      /\ Commit(c, row, TRUE)
  BY DEF Update, Admitted, Sourced, NeedsSource
<1>2. /\ c.key \in Keys
      /\ c.change.kind \in {"edit", "important", "acknowledge-source"}
      /\ c.change.kind = "edit" => c.change.value \in Texts
      /\ c.change.kind = "important" => c.change.value \in BOOLEAN
      /\ c.change.kind = "acknowledge-source" => c.change.value \in Digests
  BY CallType, ChangeType DEF Update
<1>3. old \in Row
  BY <1>1, <1>2 DEF IInv, TypeOK
<1>4. old.scope = c.scope /\ ~old.purged /\ Revision(c.key) = old.revision
  BY <1>1 DEF InScope, Purged, Revision
<1>5. /\ row \in Row /\ row.scope = old.scope /\ row.purged = old.purged
      /\ row.revision = old.revision + 1
      /\ row.baseline = old.baseline \/ read(row.baseline)
  <2>1. CASE c.change.kind = "edit"
    <3> DEFINE new == [old EXCEPT !.revision = old.revision + 1, !.text = c.change.value]
    <3>1. row = new
      BY <2>1 DEF Updated
    <3>2. new \in Row
      BY <1>2, <1>3, <2>1, RowUpdated
    <3>3. new.scope = old.scope /\ new.purged = old.purged /\ new.revision = old.revision + 1
          /\ new.baseline = old.baseline
      BY <1>3 DEF Row
    <3> HIDE DEF new, row, old
    <3> QED BY <3>1, <3>2, <3>3
  <2>2. CASE c.change.kind = "important"
    <3> DEFINE new == [old EXCEPT !.revision = old.revision + 1, !.important = c.change.value]
    <3>1. row = new
      BY <2>2 DEF Updated
    <3>2. new \in Row
      BY <1>2, <1>3, <2>2, RowUpdated
    <3>3. new.scope = old.scope /\ new.purged = old.purged /\ new.revision = old.revision + 1
          /\ new.baseline = old.baseline
      BY <1>3 DEF Row
    <3> HIDE DEF new, row, old
    <3> QED BY <3>1, <3>2, <3>3
  <2>3. CASE c.change.kind = "acknowledge-source"
    <3> DEFINE new == [old EXCEPT !.revision = old.revision + 1, !.baseline = c.change.value]
    <3>1. row = new
      BY <2>3 DEF Updated
    <3>2. new \in Row
      BY <1>2, <1>3, <2>3, RowUpdated
    <3>3. new.scope = old.scope /\ new.purged = old.purged /\ new.revision = old.revision + 1
          /\ read(new.baseline)
      BY <1>1, <1>3, <2>3 DEF Row
    <3> HIDE DEF new, row, old
    <3> QED BY <3>1, <3>2, <3>3
  <2> QED BY <1>2, <2>1, <2>2, <2>3
<1> HIDE DEF row
<1>6. row.scope = c.scope /\ row.revision = Revision(c.key) + 1
  BY <1>4, <1>5
<1>7. ~row.purged
  BY <1>4, <1>5, Zenon
<1>8. row \in Row /\ (row.baseline = records[c.key].baseline \/ read(row.baseline))
  BY <1>5
<1> QED BY <1>1, <1>6, <1>7, <1>8, Zenon

-----------------------------------------------------------------------------
(* The invariant.                                                          *)

\* Empty tables satisfy it.
LEMMA InitHolds == ASSUME Init PROVE IInv
<1>1. \A k \in Keys : records[k] = None /\ revisions[k] = {}
  BY DEF Init
<1>2. \A r \in RequestIds : requests[r] = None
  BY DEF Init
<1>3. TypeOK
  BY DEF Init, TypeOK, Unseen, Sightings
<1>4. OneScope /\ OpenCommitted /\ PurgeLeavesNothing
  BY <1>1, <1>2 DEF OneScope, OpenCommitted, PurgeLeavesNothing, Purged
<1>5. RevisionsAccountedFor
  <2>1. \A k \in Keys : RequestsOf(k) = {} /\ Revision(k) = 0
    BY <1>1, <1>2 DEF RequestsOf, Revision
  <2>2. 1 .. 0 = {}
    OBVIOUS
  <2>3. ASSUME NEW k \in Keys PROVE Accounted(k)
    BY <1>1, <2>1, <2>2, <2>3 DEF Accounted
  <2> QED BY <2>3 DEF RevisionsAccountedFor, Accounted
<1> QED BY <1>3, <1>4, <1>5 DEF IInv

\* Every step keeps it.
LEMMA NextKeeps == ASSUME IInv, [Next]_vars PROVE IInv'
<1>1. ASSUME NEW c \in Calls, Write(c) PROVE IInv'
  <2>1. CASE Capture(c)
    BY <2>1, CaptureRow, CommitStep
  <2>2. CASE Unchanged(c)
    BY <2>2, UnchangedStep
  <2>3. CASE Annotate(c)
    BY <2>3, AnnotateRow, CommitStep
  <2>4. CASE Update(c)
    BY <2>4, UpdateRow, CommitStep
  <2>5. CASE Purge(c)
    BY <2>5, PurgeStep
  <2>6. CASE PurgeAgain(c)
    BY <2>6, PurgeAgainStep
  <2> QED BY <1>1, <2>1, <2>2, <2>3, <2>4, <2>5, <2>6 DEF Write
<1>2. ASSUME UNCHANGED tables,
             source' \in [Inbox -> Digests \cup {None}], place' \in [Inbox -> Scopes],
             tx' \in Transaction \cup {None}, sighted' \in Sightings
      PROVE IInv'
  BY <1>2 DEF tables, IInv, TypeOK, OneScope, RevisionsAccountedFor, PurgeLeavesNothing,
    OpenCommitted, Committed, Purged, Revision, RequestsOf, PurgedReceipt
<1>3. ASSUME NEW k \in Inbox, SourceChanges(k) \/ SourceMoves(k) PROVE IInv'
  <2>1. UNCHANGED <<tables, tx>> /\ Sight(k)
    BY <1>3 DEF SourceChanges, SourceMoves
  <2>2. source' \in [Inbox -> Digests \cup {None}] /\ place' \in [Inbox -> Scopes]
    BY <1>3 DEF SourceChanges, SourceMoves, IInv, TypeOK
  <2>3. sighted' \in Sightings
    BY <2>1, <2>2 DEF Sight, Sightings, IInv, TypeOK
  <2> QED BY <1>2, <2>1, <2>2, <2>3 DEF IInv, TypeOK
<1>4. ASSUME (\E k \in Inbox : Begin(k)) \/ ReadSource \/ ReadPlace \/ Rollback PROVE IInv'
  <2>1. UNCHANGED <<tables, source, place>>
    BY <1>4 DEF Begin, ReadSource, ReadPlace, Rollback, outside
  <2>2. tx' \in Transaction \cup {None} /\ sighted' \in Sightings
    BY <1>4, CloseType
    DEF Begin, ReadSource, ReadPlace, Rollback, Transaction, Sightings, IInv, TypeOK
  <2> QED BY <1>2, <2>1, <2>2 DEF IInv, TypeOK
<1>5. CASE UNCHANGED vars
  BY <1>2, <1>5 DEF vars, tables, IInv, TypeOK
<1> QED BY <1>1, <1>3, <1>4, <1>5 DEF Next

\* The strengthened invariant holds of every reachable state.
THEOREM Invariance == Spec => []IInv
<1>1. Init => IInv
  BY InitHolds
<1>2. IInv /\ [Next]_vars => IInv'
  BY NextKeeps
<1> QED BY <1>1, <1>2, PTL DEF Spec

\* The tables hold rows of their schemas.
THEOREM Typing == Spec => []TypeOK
BY Invariance, PTL DEF IInv

\* A lesson has one scope, in its record and in every request that named it.
THEOREM Scoped == Spec => []OneScope
BY Invariance, PTL DEF IInv

\* Each revision of a record that stands was made by exactly one request.
THEOREM RevisionsMadeOnce == Spec => []RevisionsAccountedFor
BY Invariance, PTL DEF IInv

\* After a purge nothing of the lesson is left in any table.
THEOREM PurgedForGood == Spec => []PurgeLeavesNothing
BY Invariance, PTL DEF IInv

\* What the open transaction has read, and what is there now, has been seen
\* since its BEGIN.
Witnessed ==
  tx # None =>
    /\ source[tx.key] \in sighted.digests /\ place[tx.key] \in sighted.scopes
    /\ tx.digest # None => tx.digest \in sighted.digests
    /\ tx.scope # None => tx.scope \in sighted.scopes

\* A reader takes what is there; a writer of the source is sighted.
LEMMA WitnessedStep == ASSUME IInv, Witnessed, [Next]_vars PROVE Witnessed'
<1> USE DEF IInv, TypeOK, Witnessed
<1>1. ASSUME NEW c \in Calls, Write(c) PROVE tx' = None
  BY <1>1 DEF Write, Capture, Unchanged, Annotate, Update, Purge, PurgeAgain, Commit, Close
<1>2. ASSUME NEW k \in Inbox, Begin(k) PROVE Witnessed'
  BY <1>2 DEF Begin, outside
<1>3. CASE ReadSource \/ ReadPlace
  BY <1>3 DEF ReadSource, ReadPlace, outside, Transaction
<1>4. ASSUME NEW k \in Inbox, SourceChanges(k) \/ SourceMoves(k) PROVE Witnessed'
  <2>1. CASE tx = None
    BY <1>4, <2>1 DEF SourceChanges, SourceMoves
  <2>2. CASE tx # None
    <3>1. tx.key \in Inbox /\ tx' = tx /\ Sight(k)
      BY <1>4, <2>2 DEF SourceChanges, SourceMoves, Transaction
    <3>2. CASE tx.key = k
      BY <2>2, <3>1, <3>2 DEF Sight
    <3>3. CASE tx.key # k
      <4>1. source'[tx.key] = source[tx.key] /\ place'[tx.key] = place[tx.key]
        BY <1>4, <3>1, <3>3 DEF SourceChanges, SourceMoves
      <4> QED BY <2>2, <3>1, <3>3, <4>1 DEF Sight
    <3> QED BY <3>2, <3>3
  <2> QED BY <2>1, <2>2
<1>5. CASE Rollback
  BY <1>5 DEF Rollback, Close
<1>6. CASE UNCHANGED vars
  BY <1>6 DEF vars
<1> QED BY <1>1, <1>2, <1>3, <1>4, <1>5, <1>6 DEF Next

\* A step that sets a baseline has read it in its own transaction.
LEMMA BaselineStep ==
  ASSUME IInv, Witnessed, [Next]_vars, NEW k \in Inbox, records'[k] # None,
         ~records'[k].purged
  PROVE  \/ records[k] # None /\ records'[k].baseline = records[k].baseline
         \/ /\ records'[k].baseline \in sighted.digests \ {None}
            /\ records[k] = None => records'[k].scope \in sighted.scopes
<1> DEFINE kept == records[k] # None /\ records'[k].baseline = records[k].baseline
           seen == /\ records'[k].baseline \in sighted.digests \ {None}
                   /\ records[k] = None => records'[k].scope \in sighted.scopes
<1> USE DEF IInv, TypeOK
<1>1. k \in Keys /\ k \notin Captures
  BY CurationAssumption DEF Keys
<1>2. ASSUME NEW c \in Calls, NEW row \in Row, Commit(c, row, TRUE), c.key # k
      PROVE  records'[k] = records[k]
  BY <1>1, <1>2, CallType DEF Commit
<1>3. ASSUME NEW c \in Calls, NEW row \in Row, Commit(c, row, TRUE), c.key = k
      PROVE  records'[k] = row
  BY <1>1, <1>3, CallType DEF Commit
<1>4. ASSUME records' = records
      PROVE  kept
  BY <1>4
<1>5. ASSUME NEW c \in Calls, Capture(c)
      PROVE  kept
  BY <1>1, <1>2, <1>5, CaptureRow
<1>6. ASSUME NEW c \in Calls, Annotate(c)
      PROVE  kept \/ seen
  <2>1. PICK row \in Row : /\ row.scope = c.scope
                           /\ tx # None /\ row.baseline = tx.digest /\ tx.digest # None
                           /\ tx.scope = c.scope
                           /\ Commit(c, row, TRUE)
    BY <1>6, AnnotateRow
  <2>2. CASE c.key # k
    BY <1>2, <2>1, <2>2
  <2>3. CASE c.key = k
    <3>1. records'[k] = row
      BY <1>3, <2>1, <2>3
    <3>2. tx.scope # None
      BY <2>1, CallType, NoneAssumption
    <3> QED BY <2>1, <3>1, <3>2 DEF Witnessed
  <2> QED BY <2>2, <2>3
<1>7. ASSUME NEW c \in Calls, Update(c)
      PROVE  kept \/ seen
  <2>1. PICK row \in Row : /\ records[c.key] # None
                           /\ \/ row.baseline = records[c.key].baseline
                              \/ tx # None /\ tx.digest # None /\ row.baseline = tx.digest
                           /\ Commit(c, row, TRUE)
    BY <1>7, UpdateRow
  <2>2. CASE c.key # k
    BY <1>2, <2>1, <2>2
  <2>3. CASE c.key = k
    BY <1>3, <2>1, <2>3 DEF Witnessed
  <2> QED BY <2>2, <2>3
<1>8. ASSUME NEW c \in Calls, Purge(c)
      PROVE  kept
  BY <1>1, <1>8, CallType DEF Purge, Tombstone
<1>9. CASE UNCHANGED vars
  BY <1>4, <1>9 DEF vars
<1> QED BY <1>4, <1>5, <1>6, <1>7, <1>8, <1>9
  DEF Next, Write, Unchanged, PurgeAgain, Begin, ReadSource, ReadPlace, Rollback,
      SourceChanges, SourceMoves, tables

\* No record rests on a source that only a client, or an earlier transaction,
\* has seen.
THEOREM BaselinesRead == Spec => BaselineWasRead
<1>1. Init => Witnessed
  BY DEF Init, Witnessed
<1>2. IInv /\ Witnessed /\ [Next]_vars => Witnessed'
  BY WitnessedStep
<1>3. IInv /\ Witnessed /\ [Next]_vars =>
        [\A k \in Inbox : records'[k] # None /\ ~records'[k].purged =>
           \/ records[k] # None /\ records'[k].baseline = records[k].baseline
           \/ /\ records'[k].baseline \in sighted.digests \ {None}
              /\ records[k] = None => records'[k].scope \in sighted.scopes]_vars
  BY BaselineStep
<1> QED BY <1>1, <1>2, <1>3, Invariance, PTL DEF Spec, BaselineWasRead

-----------------------------------------------------------------------------
(* The tables implement the ledger.                                        *)

\* A request is decided in the ledger when it is in the table.
LEMMA Decided ==
  ASSUME IInv, NEW r \in RequestIds
  PROVE  /\ requests[r] = None => ReceiptOf(r) = None
         /\ requests[r] # None =>
              /\ ReceiptOf(r) # None
              /\ ReceiptOf(r).key = requests[r].key
              /\ ReceiptOf(r) = [key |-> requests[r].key, state |-> requests[r].state,
                                 revision |-> requests[r].revision,
                                 changed |-> requests[r].changed]
<1>1. CASE requests[r] = None
  BY <1>1 DEF ReceiptOf
<1>2. CASE requests[r] # None
  <2> DEFINE v == [key |-> requests[r].key, state |-> requests[r].state,
                   revision |-> requests[r].revision, changed |-> requests[r].changed]
  <2>1. ReceiptOf(r) = v /\ v.key = requests[r].key
    BY <1>2 DEF ReceiptOf
  <2>2. v \in ReceiptView
    BY <1>2, RequestType DEF IInv, RequestRow, ReceiptView
  <2>3. v # None
    BY <2>2, NoneAssumption
  <2> HIDE DEF v
  <2> QED BY <1>2, <2>1, <2>3 DEF v
<1> QED BY <1>1, <1>2

\* A withdrawn receipt says nothing but its lesson.
LEMMA WithdrawnView ==
  ASSUME NEW r \in RequestIds, NEW k \in Keys, NEW s \in Scopes,
         requests[r] = PurgedReceipt(k, s)
  PROVE  ReceiptOf(r) = Ledger!Withdrawn(k)
<1>1. requests[r] # None
  BY PurgedReceiptType, NoneAssumption
<1> QED BY <1>1 DEF ReceiptOf, PurgedReceipt, Ledger!Withdrawn

\* A commit of a new revision is a change in the ledger.
LEMMA CommitIsChange ==
  ASSUME IInv, IInv', NEW c \in Calls, Fresh(c), ~Purged(c.key),
         NEW row \in Row, ~row.purged, row.revision = Revision(c.key) + 1,
         Commit(c, row, TRUE)
  PROVE  Ledger!Next
<1> DEFINE k == c.key
           x == Receipt(c, row.revision, TRUE)
<1>1. /\ k \in Keys /\ c.id \in RequestIds /\ Revision(k) \in Nat
      /\ records' = [records EXCEPT ![k] = row]
      /\ requests' = [requests EXCEPT ![c.id] = x]
      /\ requests[c.id] = None
  BY CallType, RevisionType DEF IInv, Commit, Fresh
<1>2. x.key = k /\ x.state = "committed" /\ x.revision = Revision(k) + 1 /\ x.changed = TRUE
  BY DEF Receipt
<1> HIDE DEF x
<1>3. /\ records'[k] = row /\ row # None
      /\ \A j \in Keys : j # k => records'[j] = records[j]
      /\ requests'[c.id] = x
      /\ \A r \in RequestIds : r # c.id => requests'[r] = requests[r]
  BY <1>1, NoneAssumption DEF IInv, TypeOK
<1>4. x # None
  <2>1. x \in RequestRow
    <3>1. row.revision \in Nat /\ TRUE \in BOOLEAN
      BY DEF Row
    <3> QED BY <3>1, ReceiptType DEF x
  <2> QED BY <2>1, NoneAssumption
<1>5. \A j \in Keys : Revision(j)' = IF j = k THEN Revision(k) + 1 ELSE Revision(j)
  BY <1>3 DEF Revision
<1>6. \A j \in Keys : Purged(j)' <=> Purged(j)
  BY <1>3 DEF Purged
<1>7. \A r \in RequestIds : ReceiptOf(r)' =
        IF r = c.id THEN [key |-> k, state |-> "committed",
                          revision |-> Revision(k) + 1, changed |-> TRUE]
        ELSE ReceiptOf(r)
  BY <1>2, <1>3, <1>4 DEF ReceiptOf
<1>8. Ledger!Decide(c.id, k, Revision(k) + 1, TRUE)
  BY <1>1, <1>7, Decided DEF Ledger!Decide
<1>9. Ledger!Change(c.id, k)
  BY <1>1, <1>5, <1>6, <1>8 DEF Ledger!Change
<1> QED BY <1>1, <1>9 DEF Ledger!Next

\* A request that changes nothing keeps the record in the ledger.
LEMMA UnchangedIsKeep ==
  ASSUME IInv, NEW c \in Calls, Unchanged(c)
  PROVE  Ledger!Next
<1> DEFINE k == c.key
           x == Receipt(c, Revision(k), FALSE)
<1>1. /\ k \in Keys /\ c.id \in RequestIds /\ Revision(k) \in Nat
      /\ requests' = [requests EXCEPT ![c.id] = x]
      /\ requests[c.id] = None /\ ~Purged(k)
      /\ records' = records
  BY CallType, RevisionType DEF IInv, Unchanged, Admitted, Fresh
<1>2. x.key = k /\ x.state = "committed" /\ x.revision = Revision(k) /\ x.changed = FALSE
  BY DEF Receipt
<1>3. x # None
  BY <1>1, ReceiptType, NoneAssumption
<1> HIDE DEF x
<1>4. /\ requests'[c.id] = x
      /\ \A r \in RequestIds : r # c.id => requests'[r] = requests[r]
  BY <1>1 DEF IInv, TypeOK
<1>5. \A j \in Keys : Revision(j)' = Revision(j) /\ (Purged(j)' <=> Purged(j))
  BY <1>1 DEF Revision, Purged
<1>6. \A r \in RequestIds : ReceiptOf(r)' =
        IF r = c.id THEN [key |-> k, state |-> "committed",
                          revision |-> Revision(k), changed |-> FALSE]
        ELSE ReceiptOf(r)
  BY <1>2, <1>3, <1>4 DEF ReceiptOf
<1>7. Ledger!Decide(c.id, k, Revision(k), FALSE)
  BY <1>1, <1>6, Decided DEF Ledger!Decide
<1>8. Ledger!Keep(c.id, k)
  BY <1>1, <1>5, <1>7 DEF Ledger!Keep
<1> QED BY <1>1, <1>8 DEF Ledger!Next

\* Both purges are purges of the ledger: the first closes the record, a later
\* one finds it closed.
LEMMA PurgeIsPurge ==
  ASSUME IInv, IInv', NEW c \in Calls, Purge(c) \/ PurgeAgain(c)
  PROVE  Ledger!Next
<1> DEFINE k == c.key
<1>1. k \in Keys /\ c.id \in RequestIds /\ c.scope \in Scopes /\ requests[c.id] = None
  BY CallType DEF Purge, PurgeAgain, Admitted, Fresh
<1>2. ReceiptOf(c.id) = None
  BY <1>1, Decided
<1>3. Purged(k)' /\ (\A j \in Keys : j # k => (Purged(j)' <=> Purged(j)))
  <2>1. CASE Purge(c)
    <3>1. /\ records'[k] = Tombstone(c, Revision(k) + 1)
          /\ \A j \in Keys : j # k => records'[j] = records[j]
      BY <1>1, <2>1 DEF Purge, IInv, TypeOK
    <3>2. records'[k] # None /\ records'[k].purged
      <4>1. Tombstone(c, Revision(k) + 1) \in Row
        BY <1>1, RevisionType DEF Tombstone, Row, IInv
      <4>2. Tombstone(c, Revision(k) + 1).purged
        BY DEF Tombstone
      <4>3. Tombstone(c, Revision(k) + 1) # None
        BY <4>1, NoneAssumption
      <4> QED BY <3>1, <4>2, <4>3
    <3> QED BY <3>1, <3>2 DEF Purged
  <2>2. CASE PurgeAgain(c)
    BY <2>2 DEF PurgeAgain, Purged
  <2> QED BY <2>1, <2>2
<1>4. \A j \in Keys : Revision(j)' = IF j = k /\ ~Purged(k) THEN Revision(j) + 1 ELSE Revision(j)
  <2>1. CASE Purge(c)
    <3>1. /\ records'[k] = Tombstone(c, Revision(k) + 1)
          /\ \A j \in Keys : j # k => records'[j] = records[j]
          /\ ~Purged(k)
      BY <1>1, <2>1 DEF Purge, Admitted, IInv, TypeOK
    <3>2. Revision(k)' = Revision(k) + 1
      BY <1>3, <3>1 DEF Revision, Purged, Tombstone
    <3> QED BY <3>1, <3>2 DEF Revision
  <2>2. CASE PurgeAgain(c)
    BY <2>2 DEF PurgeAgain, Revision
  <2> QED BY <2>1, <2>2
<1>5. \A q \in RequestIds : ReceiptOf(q)' =
        IF q = c.id \/ (ReceiptOf(q) # None /\ ReceiptOf(q).key = k)
        THEN Ledger!Withdrawn(k) ELSE ReceiptOf(q)
  <2> SUFFICES ASSUME NEW q \in RequestIds
               PROVE ReceiptOf(q)' =
                 IF q = c.id \/ (ReceiptOf(q) # None /\ ReceiptOf(q).key = k)
                 THEN Ledger!Withdrawn(k) ELSE ReceiptOf(q)
    OBVIOUS
  <2>1. CASE q = c.id
    <3>1. requests'[q] = PurgedReceipt(k, c.scope)
      BY <1>1, <2>1 DEF Purge, PurgeAgain, Retire, IInv, TypeOK
    <3>2. requests'[q] # None
      BY <1>1, <3>1, PurgedReceiptType, NoneAssumption
    <3> QED BY <2>1, <3>1, <3>2 DEF ReceiptOf, PurgedReceipt, Ledger!Withdrawn
  <2>2. CASE q # c.id /\ requests[q] # None /\ requests[q].key = k
    <3>1. ReceiptOf(q) # None /\ ReceiptOf(q).key = k
      BY <2>2, Decided
    <3>2. requests'[q] # None /\ requests'[q].key = k
      <4>1. requests[q].scope \in Scopes
        BY <2>2, RequestType DEF IInv
      <4>2. CASE Purge(c)
        <5>1. requests'[q] = PurgedReceipt(k, requests[q].scope)
          BY <2>2, <4>2 DEF Purge, Retire, RequestsOf
        <5> QED BY <1>1, <4>1, <5>1, PurgedReceiptType, NoneAssumption DEF PurgedReceipt
      <4>3. CASE PurgeAgain(c)
        BY <1>1, <2>2, <4>3 DEF PurgeAgain, IInv, TypeOK
      <4> QED BY <4>2, <4>3
    <3>3. requests'[q] = PurgedReceipt(k, records'[k].scope)
      <4>1. Erased(k)'
        BY <1>1, <1>3 DEF IInv, PurgeLeavesNothing, Erased, PurgedReceipt
      <4> QED BY <3>2, <4>1 DEF Erased, RequestsOf, PurgedReceipt
    <3> QED BY <2>2, <3>1, <3>2, <3>3 DEF ReceiptOf, PurgedReceipt, Ledger!Withdrawn
  <2>3. CASE q # c.id /\ ~(requests[q] # None /\ requests[q].key = k)
    <3>1. ~(ReceiptOf(q) # None /\ ReceiptOf(q).key = k)
      BY <2>3, Decided
    <3>2. requests'[q] = requests[q]
      BY <2>3 DEF Purge, PurgeAgain, Retire, RequestsOf, IInv, TypeOK
    <3> QED BY <2>3, <3>1, <3>2 DEF ReceiptOf
  <2> QED BY <2>1, <2>2, <2>3
<1>6. Ledger!Purge(c.id, k)
  BY <1>1, <1>2, <1>3, <1>4, <1>5 DEF Ledger!Purge
<1> QED BY <1>1, <1>6 DEF Ledger!Next

\* Empty tables are an empty ledger.
LEMMA LedgerInit == ASSUME Init PROVE Ledger!Init
BY DEF Init, Ledger!Init, Revision, Purged, ReceiptOf

\* A step of the store is a step of the ledger or leaves it as it was.
LEMMA LedgerStep == ASSUME IInv, IInv', [Next]_vars PROVE [Ledger!Next]_(Ledger!vars)
<1>1. ASSUME NEW c \in Calls, Write(c) PROVE Ledger!Next
  <2>1. CASE Capture(c)
    BY <2>1, CaptureRow, CommitIsChange
  <2>2. CASE Unchanged(c)
    BY <2>2, UnchangedIsKeep
  <2>3. CASE Annotate(c)
    BY <2>3, AnnotateRow, CommitIsChange
  <2>4. CASE Update(c)
    BY <2>4, UpdateRow, CommitIsChange
  <2>5. CASE Purge(c) \/ PurgeAgain(c)
    BY <2>5, PurgeIsPurge
  <2> QED BY <1>1, <2>1, <2>2, <2>3, <2>4, <2>5 DEF Write
<1>2. CASE UNCHANGED <<records, requests>>
  BY <1>2 DEF Ledger!vars, Revision, Purged, ReceiptOf
<1> QED BY <1>1, <1>2
  DEF Next, Begin, ReadSource, ReadPlace, Rollback, SourceChanges, SourceMoves, tables, vars

\* The tables implement the ledger: a request is decided once, and its
\* receipt stays what it was until a purge withdraws it.
THEOREM Refinement == Spec => DecidedOnce
<1>1. Init => Ledger!Init
  BY LedgerInit
<1>2. IInv /\ IInv' /\ [Next]_vars => [Ledger!Next]_(Ledger!vars)
  BY LedgerStep
<1> QED BY <1>1, <1>2, Invariance, PTL DEF Spec, DecidedOnce, Ledger!Spec
=============================================================================
