-------------------------- MODULE SpillImportProofs --------------------------
(***************************************************************************)
(* For any hooks, exports, importers and bounds: a record that a hook      *)
(* hands to the stream is stored once, and once more at most for each      *)
(* rotation of the previous release that kept its line; the bound drops    *)
(* the oldest segments; and unless one of the accepted races is lost no    *)
(* record is left where no importer looks.  Without rotations the whole    *)
(* stream is one log that stores a record once or gives it up once.        *)
(***************************************************************************)
EXTENDS SpillImport, FiniteSetTheorems, TLAPS

-----------------------------------------------------------------------------
(* Least members and ranks.                                                *)

\* A set of naturals that is not empty has a least member.
LEMMA LeastMember ==
  ASSUME NEW S \in SUBSET Nat, S # {}
  PROVE  \E n \in S : \A m \in S : n <= m
<1>1. PICK n \in S : \A m \in S : ~(<<m, n>> \in OpToRel(<, Nat))
  BY NatLessThanWellFounded, WFMin
<1>2. \A m \in S : ~(m < n)
  BY <1>1 DEF OpToRel
<1>3. QED
  BY <1>2

\* applyBound unlinks a segment that it listed.
LEMMA MinIsMember ==
  ASSUME NEW S \in SUBSET Nat, S # {}
  PROVE  Min(S) \in S
BY LeastMember DEF Min

\* How many members of S are before n.
Rank(S, n) == Cardinality({m \in S : m < n})

\* Every place of the ascending order of a finite set of naturals is taken.
LEMMA RankTaken ==
  ASSUME NEW S \in SUBSET Nat, IsFiniteSet(S), NEW i \in 1..Cardinality(S)
  PROVE  \E n \in S : Rank(S, n) = i - 1
<1> DEFINE T == {j \in 1..Cardinality(S) : ~ \E n \in S : Rank(S, n) = j - 1}
<1>0. Cardinality(S) \in Nat /\ \A m \in S : m \in Nat
  BY FS_CardinalityType
<1>1. SUFFICES ASSUME T # {} PROVE FALSE
  OBVIOUS
<1>2. PICK j \in T : \A k \in T : j <= k
  <2>1. T \in SUBSET Nat
    BY <1>0
  <2>2. QED
    BY <1>1, <2>1, LeastMember
<1>3. j \in 1..Cardinality(S) /\ ~ \E n \in S : Rank(S, n) = j - 1
  BY <1>2
<1>4. CASE j = 1
  <2>1. S # {}
    BY <1>0, <1>4, <1>3, FS_EmptySet
  <2>2. PICK n \in S : \A m \in S : n <= m
    BY <2>1, LeastMember
  <2>3. {m \in S : m < n} = {}
    <3>1. \A m \in S : ~(m < n)
      BY <2>2, <1>0
    <3>2. QED
      BY <3>1, Zenon
  <2>4. Rank(S, n) = 0
    BY <2>3, FS_EmptySet DEF Rank
  <2>5. QED
    BY <2>4, <1>3, <1>4
<1>5. CASE j # 1
  <2>1. j - 1 \in 1..Cardinality(S) /\ j - 1 \notin T
    BY <1>0, <1>2, <1>3, <1>5
  <2>2. PICK n \in S : Rank(S, n) = j - 2
    BY <2>1, <1>0
  <2> DEFINE below == {m \in S : m < n}
             upto == {m \in S : m <= n}
             above == {m \in S : m > n}
  <2>3. upto = below \cup {n} /\ n \notin below /\ IsFiniteSet(below)
    <3>1. below \in SUBSET S
      OBVIOUS
    <3>2. IsFiniteSet(below)
      BY <3>1, FS_Subset
    <3>3. n \notin below
      BY <1>0
    <3>4. \A m \in S : m <= n <=> m < n \/ m = n
      BY <1>0
    <3>5. upto = below \cup {n}
      BY <3>4, Zenon
    <3>6. QED
      BY <3>2, <3>3, <3>5
  <2>4. Cardinality(upto) = j - 1 /\ IsFiniteSet(upto)
    <3>1. Cardinality(below) = j - 2
      BY <2>2 DEF Rank
    <3> HIDE DEF below, upto
    <3>2. IsFiniteSet(upto) /\ Cardinality(upto) = Cardinality(below) + 1
      BY <2>3, FS_AddElement
    <3>3. QED
      BY <3>1, <3>2, <1>3, <1>0
  <2>5. above # {}
    <3>1. SUFFICES ASSUME above = {} PROVE FALSE
      OBVIOUS
    <3>2. \A m \in S : m <= n
      BY <3>1, <1>0
    <3>3. upto = S
      BY <3>2, Zenon
    <3>4. QED
      BY <3>3, <2>4, <1>3, <1>0
  <2>6. PICK m \in above : \A k \in above : m <= k
    BY <2>5, LeastMember
  <2>7. {k \in S : k < m} = upto
    <3>1. \A k \in S : k < m <=> k <= n
      BY <2>6, <1>0
    <3>2. QED
      BY <3>1, Zenon
  <2>8. Rank(S, m) = j - 1
    BY <2>7, <2>4 DEF Rank
  <2>9. QED
    BY <2>8, <1>3
<1>6. QED
  BY <1>4, <1>5

\* The listing of the spill directory names files that are there.
LEMMA AscendingMember ==
  ASSUME NEW S \in SUBSET Nat, IsFiniteSet(S), NEW i \in 1..Cardinality(S)
  PROVE  Ascending(S)[i] \in S
<1>1. \E n \in S : Cardinality({m \in S : m < n}) = i - 1
  BY RankTaken DEF Rank
<1>2. QED
  BY <1>1 DEF Ascending

\* The segments are numbered from one, between the old path and the open file.
LEMMA NamesAre ==
  /\ Cardinality(NewHooks) \in Nat
  /\ Names \in SUBSET Nat /\ IsFiniteSet(Names)
  /\ Segments \subseteq Names /\ Main \in Names /\ Open \in Names
  /\ Main \notin Segments /\ Open \notin Segments /\ Main # Open
<1>1. Cardinality(NewHooks) \in Nat
  BY SpillAssumption, FS_CardinalityType
<1>2. Names = 0..Cardinality(NewHooks) + 1
  BY <1>1 DEF Names, Main, Open, Segments
<1>3. IsFiniteSet(Names)
  BY <1>1, <1>2, FS_Interval
<1>4. QED
  BY <1>1, <1>2, <1>3 DEF Names, Main, Open, Segments

-----------------------------------------------------------------------------
(* Who changes what.                                                       *)

\* The actions of an importing process.
ImporterActs(p) ==
  ImporterStep(p) \/ StartExport(p) \/ StageExport(p) \/ PlaceExport(p) \/ Migrate(p)
  \/ ImporterDies(p)

\* An importer leaves the hooks alone, and seals nothing.
LEMMA ImporterKeeps ==
  ASSUME NEW p \in Importers, ImporterActs(p)
  PROVE  UNCHANGED <<hook, segments>>
BY DEF ImporterActs, ImporterStep, StartImport, Begin, Busy, ListSpill, ClaimFile, ImportClaim,
   Finalize, Backup, StartExport, StageExport, PlaceExport, Migrate, ImporterDies, segments

\* A hook leaves the importers alone, and what the database says of files.
LEMMA HookKeeps ==
  ASSUME NEW h \in Records, HookStep(h) \/ HookDies(h)
  PROVE  UNCHANGED <<rows, sqlite, suspended, importer>>
BY DEF HookStep, WriteDb, Spill, CheckSeal, Stamp, Seal, OpenSpill, CheckMain, ReadTail,
   Rotate, OpenMain, OpenForAppend, AppendLine, ListVictims, UnlinkVictim, HookDies

\* A step is one of a hook or one of an importer.
LEMMA StepCases ==
  ASSUME Next
  PROVE  \/ \E h \in Records : HookStep(h) \/ HookDies(h)
         \/ \E p \in Importers : ImporterActs(p)
BY Zenon DEF Next, ImporterActs

-----------------------------------------------------------------------------
(* Types.                                                                  *)

\* What a hook in the middle of an append or a seal has in hand.
OldLabel == {"start", "read", "replace", "open", "append", "end"}
HookInHand ==
  /\ \A h \in Records : hook[h].at = "append" => hook[h].fd \in Files
  /\ \A h \in Records : hook[h].at = "rename" => hook[h].stamp \in Segments
  /\ \A h \in OldHooks : hook[h].at \in OldLabel /\ ~hook[h].sealed

\* What an importer in the middle of a pass or an export has in hand.
Filing == {"import", "finalize", "stat", "backup"}
ImporterInHand ==
  \A p \in Importers :
    /\ importer[p].at \in {"begin", "claim"} \cup Filing => importer[p].todo # <<>>
    /\ importer[p].at \in Filing => importer[p].file \in Files
    /\ importer[p].at = "rename" => importer[p].file \in Exports

\* A hook takes the time for a segment at most once.
PastLabel == {"rename", "open", "append", "list", "unlink", "end"}
Past == {h \in NewHooks : hook[h].at \in PastLabel}
StampedOnce == stamps <= Cardinality(Past)

HooksTyped == hook \in [Records -> HookState] /\ HookInHand
ImportersTyped == importer \in [Importers -> ImporterState] /\ ImporterInHand
DiskTyped ==
  /\ place \in [Files -> Place]
  /\ content \in [Files -> SUBSET Records]
  /\ rows \in [Files -> {None} \cup SUBSET Records]
  /\ db \in [Records -> Nat]
  /\ sqlite \in Importers \cup {None}
  /\ suspended \in BOOLEAN
  /\ stamps \in 0..Cardinality(NewHooks)
  /\ sealed \subseteq Segments
  /\ later \in [Segments -> SUBSET Segments]
  /\ kept \in [Files -> SUBSET Records]
  /\ mishaps \in 0..MaxMishaps
  /\ StampedOnce

Typed == HooksTyped /\ ImportersTyped /\ DiskTyped

\* A hook that has not begun, or has ended.
LEMMA IdleHooks ==
  \A label \in HookLabel : IdleHook(label) \in HookState /\ IdleHook(label).at = label
                             /\ ~IdleHook(label).sealed
BY NamesAre DEF HookState, IdleHook

\* A hook that moves on stays a hook.
LEMMA HookMoves ==
  ASSUME HooksTyped, NEW h \in Records, NEW r \in HookState,
         hook' = [hook EXCEPT ![h] = r],
         r.at = "append" => r.fd \in Files,
         r.at = "rename" => r.stamp \in Segments,
         h \in OldHooks => r.at \in OldLabel /\ ~r.sealed
  PROVE  HooksTyped'
BY DEF HooksTyped, HookInHand, Records

\* The only file at a path is a file.
LEMMA FileThere ==
  ASSUME NEW state, NEW name, Exists(state, name)
  PROVE  /\ TheFile(state, name) \in Files
         /\ place[TheFile(state, name)] = At(state, name)
         /\ place[TheFile(state, name)].at = state
         /\ place[TheFile(state, name)].name = name
<1>1. TheFile(state, name) \in Files /\ place[TheFile(state, name)] = At(state, name)
  BY DEF Exists, TheFile, FilesAt
<1>2. At(state, name).at = state /\ At(state, name).name = name
  BY DEF At
<1>3. QED
  BY <1>1, <1>2

\* The hooks past their stamp are finitely many, and at most all of them.
LEMMA PastFinite ==
  IsFiniteSet(Past) /\ Cardinality(Past) \in Nat
  /\ Cardinality(Past) <= Cardinality(NewHooks)
BY SpillAssumption, FS_Subset, FS_CardinalityType DEF Past

\* There is a name for the segment of a hook that has none yet.
LEMMA StampFits ==
  ASSUME Typed, NEW h \in NewHooks, hook[h].at = "stamp"
  PROVE  stamps + 1 \in Segments
<1>1. h \notin Past
  BY DEF Past, PastLabel
<1>2. IsFiniteSet(Past \cup {h}) /\ Cardinality(Past \cup {h}) = Cardinality(Past) + 1
  BY <1>1, PastFinite, FS_AddElement
<1>3. Cardinality(Past) + 1 <= Cardinality(NewHooks)
  <2>1. Past \cup {h} \in SUBSET NewHooks
    BY DEF Past
  <2>2. QED
    BY <1>2, <2>1, SpillAssumption, FS_Subset
<1>4. stamps \in Nat /\ stamps <= Cardinality(Past) /\ Cardinality(NewHooks) \in Nat
      /\ Cardinality(Past) \in Nat
  BY NamesAre, PastFinite DEF Typed, DiskTyped, StampedOnce
<1>5. QED
  BY <1>3, <1>4 DEF Segments

\* Every step keeps the hooks typed.
LEMMA HooksStayTyped ==
  ASSUME Typed, [Next]_vars
  PROVE  HooksTyped'
<1> USE DEF HookLabel, OldLabel
<1>0. HooksTyped
  BY DEF Typed
<1>1. CASE UNCHANGED vars
  BY <1>0, <1>1 DEF vars, HooksTyped, HookInHand
<1>2. ASSUME NEW p \in Importers, ImporterActs(p) PROVE HooksTyped'
  BY <1>0, <1>2, ImporterKeeps DEF HooksTyped, HookInHand
<1>3. ASSUME NEW h \in Records, HookStep(h) \/ HookDies(h) PROVE HooksTyped'
  <2>0. hook[h] \in HookState /\ hook \in [Records -> HookState]
    BY <1>0 DEF HooksTyped
  <2>1. h \in OldHooks => /\ hook[h].at \in OldLabel /\ ~hook[h].sealed
                          /\ h \notin NewHooks
    BY <1>0, SpillAssumption DEF HooksTyped, HookInHand
  <2>2. CASE WriteDb(h) \/ HookDies(h)
    <3>1. IdleHook("end") \in HookState /\ IdleHook("end").at = "end" /\ ~IdleHook("end").sealed
      BY IdleHooks
    <3>2. hook' = [hook EXCEPT ![h] = IdleHook("end")]
      BY <2>2 DEF WriteDb, HookDies
    <3>3. QED
      BY <3>1, <3>2, <1>0, HookMoves
  <2>3. CASE Spill(h)
    <3> DEFINE r == [hook[h] EXCEPT !.at = "seal"]
    <3>1. r \in HookState /\ r.at = "seal"
      BY <2>0 DEF HookState
    <3>2. hook' = [hook EXCEPT ![h] = r] /\ h \in NewHooks
      BY <2>0, <2>3 DEF Spill
    <3>3. QED
      BY <3>1, <3>2, <2>1, <1>0, HookMoves
  <2>4. CASE CheckSeal(h)
    <3> DEFINE full == \E f \in FilesAt("live", Open) : Cardinality(content[f]) >= SealAt
               r == [hook[h] EXCEPT !.at = IF full THEN "stamp" ELSE "open"]
    <3>1. r \in HookState /\ r.at \in {"stamp", "open"}
      BY <2>0 DEF HookState
    <3>2. hook' = [hook EXCEPT ![h] = r] /\ hook[h].at = "seal"
      BY <2>0, <2>4 DEF CheckSeal
    <3>3. QED
      BY <3>1, <3>2, <2>1, <1>0, HookMoves
  <2>5. CASE Seal(h)
    <3> DEFINE r == IF Exists("live", Open) THEN [hook[h] EXCEPT !.at = "open", !.sealed = TRUE]
                    ELSE [hook[h] EXCEPT !.at = "open"]
    <3>1. r \in HookState /\ r.at = "open"
      BY <2>0 DEF HookState
    <3>2. hook' = [hook EXCEPT ![h] = r] /\ hook[h].at = "rename"
      BY <2>0, <2>5 DEF Seal
    <3>3. QED
      BY <3>1, <3>2, <2>1, <1>0, HookMoves
  <2>6. ASSUME NEW name, OpenForAppend(h, name) PROVE HooksTyped'
    <3> DEFINE file == IF Exists("live", name) THEN TheFile("live", name) ELSE h
               r == [hook[h] EXCEPT !.at = "append", !.fd = file]
    <3>1. file \in Files
      BY FileThere DEF Files
    <3>2. r \in HookState /\ r.at = "append" /\ r.fd = file /\ r.sealed = hook[h].sealed
      BY <2>0, <3>1 DEF HookState
    <3>3. hook' = [hook EXCEPT ![h] = r]
      BY <2>0, <2>6 DEF OpenForAppend
    <3> HIDE DEF file, r
    <3>4. QED
      BY <3>1, <3>2, <3>3, <2>1, <1>0, HookMoves
  <2>7. CASE AppendLine(h)
    <3> DEFINE label == IF hook[h].sealed THEN "list" ELSE "end"
               r == [hook[h] EXCEPT !.at = label, !.fd = None]
    <3>1. r \in HookState /\ r.at = label /\ r.sealed = hook[h].sealed
      BY <2>0 DEF HookState
    <3>2. hook' = [hook EXCEPT ![h] = r] /\ hook[h].at = "append"
      BY <2>0, <2>7 DEF AppendLine
    <3>3. label \in {"list", "end"} /\ (h \in OldHooks => label = "end")
      BY <2>1
    <3> HIDE DEF r, label
    <3>4. QED
      BY <3>1, <3>2, <3>3, <2>1, <1>0, HookMoves
  <2>8. CASE ListVictims(h)
    <3> DEFINE r == [hook[h] EXCEPT !.at = "unlink", !.victims = Victims]
    <3>1. Victims \in SUBSET Segments
      BY DEF Victims, SealedSegments
    <3>2. r \in HookState /\ r.at = "unlink"
      BY <2>0, <3>1 DEF HookState
    <3>3. hook' = [hook EXCEPT ![h] = r] /\ hook[h].at = "list"
      BY <2>0, <2>8 DEF ListVictims
    <3>4. QED
      BY <3>2, <3>3, <2>1, <1>0, HookMoves
  <2>9. CASE UnlinkVictim(h)
    <3> DEFINE r == IF hook[h].victims = {} THEN [hook[h] EXCEPT !.at = "end"]
                    ELSE [hook[h] EXCEPT !.victims = @ \ {Min(hook[h].victims)}]
    <3>1. hook[h].victims \in SUBSET Segments
      BY <2>0 DEF HookState
    <3>2. r \in HookState /\ r.at \in {"end", "unlink"}
      BY <2>0, <2>9, <3>1 DEF HookState, UnlinkVictim
    <3>3. hook' = [hook EXCEPT ![h] = r] /\ hook[h].at = "unlink"
      BY <2>0, <2>9 DEF UnlinkVictim
    <3>4. QED
      BY <3>2, <3>3, <2>1, <1>0, HookMoves
  <2>10. CASE Stamp(h)
    <3> DEFINE r == [hook[h] EXCEPT !.at = "rename", !.stamp = stamps + 1]
    <3>1. hook' = [hook EXCEPT ![h] = r] /\ hook[h].at = "stamp"
      BY <2>0, <2>10 DEF Stamp
    <3>2. h \in NewHooks
      BY <2>1, <3>1 DEF Records
    <3>3. stamps + 1 \in Segments
      BY <3>1, <3>2, StampFits
    <3>4. r \in HookState /\ r.at = "rename" /\ r.stamp = stamps + 1
      <4>1. \A n \in Segments : n \in 0..Cardinality(NewHooks)
        BY NamesAre DEF Segments
      <4>2. stamps + 1 \in 0..Cardinality(NewHooks)
        BY <3>3, <4>1
      <4>3. QED
        BY <2>0, <4>2 DEF HookState
    <3> HIDE DEF r
    <3>5. QED
      BY <3>1, <3>2, <3>3, <3>4, <2>1, <1>0, HookMoves
  <2>11. CASE CheckMain(h)
    <3> DEFINE full == \E f \in FilesAt("live", Main) : Cardinality(content[f]) >= RotateAt
               r == [hook[h] EXCEPT !.at = IF full THEN "read" ELSE "open"]
    <3>1. r \in HookState /\ r.at \in {"read", "open"} /\ r.sealed = hook[h].sealed
      BY <2>0 DEF HookState
    <3>2. hook' = [hook EXCEPT ![h] = r]
      BY <2>0, <2>11 DEF CheckMain
    <3> HIDE DEF r
    <3>3. QED
      BY <3>1, <3>2, <2>1, <1>0, HookMoves
  <2>12. CASE ReadTail(h)
    <3>1. ASSUME NEW T \in SUBSET Records,
                 hook' = [hook EXCEPT ![h].at = "replace", ![h].tail = T]
          PROVE  HooksTyped'
      <4> DEFINE r == [hook[h] EXCEPT !.at = "replace", !.tail = T]
      <4>1. r \in HookState /\ r.at = "replace" /\ r.sealed = hook[h].sealed
        BY <2>0 DEF HookState
      <4>2. hook' = [hook EXCEPT ![h] = r]
        BY <2>0, <3>1
      <4> HIDE DEF r
      <4>3. QED
        BY <4>1, <4>2, <2>1, <1>0, HookMoves
    <3>2. CASE hook' = [hook EXCEPT ![h].at = "open"]
      <4> DEFINE r == [hook[h] EXCEPT !.at = "open"]
      <4>1. r \in HookState /\ r.at = "open" /\ r.sealed = hook[h].sealed
        BY <2>0 DEF HookState
      <4>2. hook' = [hook EXCEPT ![h] = r]
        BY <2>0, <3>2
      <4> HIDE DEF r
      <4>3. QED
        BY <4>1, <4>2, <2>1, <1>0, HookMoves
    <3>3. Exists("live", Main) => content[TheFile("live", Main)] \in SUBSET Records
      BY FileThere DEF Typed, DiskTyped
    <3>4. QED
      BY <2>12, <3>1, <3>2, <3>3 DEF ReadTail
  <2>13. CASE Rotate(h)
    <3> DEFINE r == [hook[h] EXCEPT !.at = "open", !.tail = {}]
    <3>1. r \in HookState /\ r.at = "open" /\ r.sealed = hook[h].sealed
      BY <2>0 DEF HookState
    <3>2. hook' = [hook EXCEPT ![h] = r]
      BY <2>0, <2>13 DEF Rotate
    <3> HIDE DEF r
    <3>3. QED
      BY <3>1, <3>2, <2>1, <1>0, HookMoves
  <2>14. QED
    BY <1>3, <2>2, <2>3, <2>4, <2>5, <2>6, <2>7, <2>8, <2>9, <2>10, <2>11, <2>12, <2>13
    DEF HookStep, OpenSpill, OpenMain
<1>4. QED
  BY <1>1, <1>2, <1>3, StepCases

\* What an importer at r needs in hand.
Handed(r) ==
  /\ r.at \in {"begin", "claim"} \cup Filing => r.todo # <<>>
  /\ r.at \in Filing => r.file \in Files
  /\ r.at = "rename" => r.file \in Exports

\* An importer that moves on stays an importer.
LEMMA ImporterMoves ==
  ASSUME ImportersTyped, NEW p \in Importers, NEW r \in ImporterState, Handed(r),
         importer' = [importer EXCEPT ![p] = r]
  PROVE  ImportersTyped'
BY DEF ImportersTyped, ImporterInHand, Handed

\* A claim left over, or a source, of some name is a target.
LEMMA Targets ==
  ASSUME NEW name \in Names PROVE ClaimOnly(name) \in Target /\ ToClaim(name) \in Target
BY DEF ClaimOnly, ToClaim, Target

\* An importer that begins a pass, and one that has nothing to do.
LEMMA Passes ==
  /\ \A export \in BOOLEAN : Pass(export) \in ImporterState /\ Handed(Pass(export))
  /\ IdleImporter \in ImporterState /\ Handed(IdleImporter)
<1>1. <<ClaimOnly(Main)>> \in Seq(Target) /\ <<ClaimOnly(Main)>> # <<>>
  BY NamesAre, Targets
<1>2. \A export \in BOOLEAN : Pass(export) \in ImporterState /\ Handed(Pass(export))
  BY <1>1 DEF Pass, ImporterState, ImporterLabel, Handed, Filing
<1>3. <<>> \in Seq(Target)
  OBVIOUS
<1>4. IdleImporter \in ImporterState /\ Handed(IdleImporter)
  BY <1>3 DEF IdleImporter, ImporterState, ImporterLabel, Handed, Filing
<1>5. QED
  BY <1>2, <1>4

\* The pass of an export goes on with the export.
LEMMA PassEnds ==
  ASSUME ImportersTyped, NEW p \in Importers
  PROVE  EndPass(p) \in ImporterState /\ Handed(EndPass(p)) /\ EndPass(p).at \in {"idle", "stage"}
<1>1. <<>> \in Seq(Target)
  OBVIOUS
<1>2. QED
  BY <1>1 DEF EndPass, IdleImporter, ImporterState, ImporterLabel, Handed, Filing

\* The file after the one that is done is of the pass.
LEMMA Advances ==
  ASSUME ImportersTyped, NEW p \in Importers, importer[p].todo # <<>>
  PROVE  Advance(p) \in ImporterState /\ Handed(Advance(p))
         /\ Advance(p).at \in {"begin", "list", "idle", "stage"}
<1> DEFINE rest == Tail(importer[p].todo)
<1>1. importer[p] \in ImporterState
  BY DEF ImportersTyped
<1>2. importer[p].todo \in Seq(Target) /\ rest \in Seq(Target) /\ <<>> \in Seq(Target)
  BY <1>1 DEF ImporterState
<1>3. CASE rest # <<>>
  <2>1. Advance(p) = [importer[p] EXCEPT !.at = "begin", !.todo = rest, !.file = None]
    BY <1>3 DEF Advance
  <2>2. QED
    BY <1>1, <1>2, <1>3, <2>1 DEF ImporterState, ImporterLabel, Handed, Filing
<1>4. CASE rest = <<>> /\ importer[p].todo = <<ClaimOnly(Main)>>
  <2>1. Advance(p) = [importer[p] EXCEPT !.at = "list", !.todo = <<>>, !.file = None]
    BY <1>4 DEF Advance
  <2>2. QED
    BY <1>1, <1>2, <2>1 DEF ImporterState, ImporterLabel, Handed, Filing
<1>5. CASE rest = <<>> /\ importer[p].todo # <<ClaimOnly(Main)>>
  BY <1>5, PassEnds DEF Advance
<1>6. QED
  BY <1>3, <1>4, <1>5

\* A function of the first n positive numbers is a sequence.
LEMMA FunctionSeq ==
  ASSUME NEW S, NEW n \in Nat, NEW s \in [1..n -> S]
  PROVE  s \in Seq(S)
OBVIOUS

\* The list of a pass: claims left over, segments and the open file, the old path.
LEMMA Listed ==
  ASSUME NEW claims \in SUBSET Names, NEW sources \in SUBSET Names
  PROVE  LET todo == [i \in 1..Cardinality(claims) |-> ClaimOnly(Ascending(claims)[i])]
                     \o [i \in 1..Cardinality(sources) |-> ToClaim(Ascending(sources)[i])]
                     \o <<ToClaim(Main)>>
         IN  todo \in Seq(Target) /\ todo # <<>>
<1> DEFINE left == [i \in 1..Cardinality(claims) |-> ClaimOnly(Ascending(claims)[i])]
           work == [i \in 1..Cardinality(sources) |-> ToClaim(Ascending(sources)[i])]
<1>1. /\ IsFiniteSet(claims) /\ claims \in SUBSET Nat /\ Cardinality(claims) \in Nat
      /\ IsFiniteSet(sources) /\ sources \in SUBSET Nat /\ Cardinality(sources) \in Nat
  BY NamesAre, FS_Subset, FS_CardinalityType
<1>2. \A i \in 1..Cardinality(claims) : Ascending(claims)[i] \in Names
  BY <1>1, AscendingMember
<1>3. \A i \in 1..Cardinality(sources) : Ascending(sources)[i] \in Names
  BY <1>1, AscendingMember
<1>4. left \in [1..Cardinality(claims) -> Target]
  BY <1>2, Targets
<1>5. work \in [1..Cardinality(sources) -> Target]
  BY <1>3, Targets
<1>6. left \in Seq(Target) /\ work \in Seq(Target)
  <2> HIDE DEF left, work
  <2>1. QED
    BY <1>1, <1>4, <1>5, FunctionSeq
<1>7. <<ToClaim(Main)>> \in Seq(Target) /\ Len(<<ToClaim(Main)>>) = 1
  BY NamesAre, Targets
<1> HIDE DEF left, work
<1>8. left \o work \in Seq(Target)
  BY <1>6
<1>9. (left \o work) \o <<ToClaim(Main)>> \in Seq(Target)
      /\ Len((left \o work) \o <<ToClaim(Main)>>) > 0
  BY <1>7, <1>8
<1>10. QED
  BY <1>9 DEF left, work

\* Every step keeps the importers typed.
LEMMA ImportersStayTyped ==
  ASSUME Typed, [Next]_vars
  PROVE  ImportersTyped'
<1>0. ImportersTyped
  BY DEF Typed
<1>1. CASE UNCHANGED vars
  BY <1>0, <1>1 DEF vars, ImportersTyped, ImporterInHand
<1>2. ASSUME NEW h \in Records, HookStep(h) \/ HookDies(h) PROVE ImportersTyped'
  BY <1>0, <1>2, HookKeeps DEF ImportersTyped, ImporterInHand
<1>3. ASSUME NEW p \in Importers, ImporterActs(p) PROVE ImportersTyped'
  <2>0. importer[p] \in ImporterState /\ importer \in [Importers -> ImporterState]
    BY <1>0 DEF ImportersTyped
  <2>1. Handed(importer[p])
    BY <1>0 DEF ImportersTyped, ImporterInHand, Handed
  <2>2. CASE StartImport(p) \/ StartExport(p) \/ Migrate(p)
    <3>1. PICK export \in BOOLEAN : importer' = [importer EXCEPT ![p] = Pass(export)]
      BY <2>2 DEF StartImport, StartExport, Migrate
    <3>2. QED
      BY <3>1, <1>0, Passes, ImporterMoves
  <2>3. CASE Busy(p) \/ PlaceExport(p) \/ ImporterDies(p)
    <3>1. importer' = [importer EXCEPT ![p] = IdleImporter]
      BY <2>3 DEF Busy, PlaceExport, ImporterDies
    <3>2. QED
      BY <3>1, <1>0, Passes, ImporterMoves
  <2>4. CASE Begin(p)
    <3> DEFINE r == [importer[p] EXCEPT !.at = IF @ = "begin" THEN "claim" ELSE "stat"]
    <3>1. r \in ImporterState
      BY <2>0 DEF ImporterState, ImporterLabel
    <3>2. Handed(r)
      BY <2>0, <2>1, <2>4 DEF ImporterState, Handed, Filing, Begin
    <3>3. importer' = [importer EXCEPT ![p] = r]
      BY <2>0, <2>4 DEF Begin
    <3>4. QED
      BY <3>1, <3>2, <3>3, <1>0, ImporterMoves
  <2>5. CASE ListSpill(p)
    <3> DEFINE claims == {n \in Names \ {Main} : Exists("claimed", n)}
               sources == SealedSegments \cup {Open}
               todo == [i \in 1..Cardinality(claims) |-> ClaimOnly(Ascending(claims)[i])]
                       \o [i \in 1..Cardinality(sources) |-> ToClaim(Ascending(sources)[i])]
                       \o <<ToClaim(Main)>>
               r == [importer[p] EXCEPT !.at = "begin", !.todo = todo]
    <3>1. claims \in SUBSET Names /\ sources \in SUBSET Names
      BY NamesAre DEF SealedSegments
    <3>2. importer' = [importer EXCEPT ![p] = r]
      BY <2>0, <2>5 DEF ListSpill
    <3> HIDE DEF claims, sources
    <3>3. todo \in Seq(Target) /\ todo # <<>>
      BY <3>1, Listed
    <3> HIDE DEF todo
    <3>4. r \in ImporterState /\ r.at = "begin" /\ r.todo = todo
      BY <2>0, <3>3 DEF ImporterState, ImporterLabel
    <3>5. Handed(r)
      BY <3>3, <3>4 DEF Handed, Filing
    <3>6. QED
      BY <3>2, <3>4, <3>5, <1>0, ImporterMoves
  <2>6. CASE ClaimFile(p)
    <3>0. importer[p].todo # <<>>
      BY <2>1, <2>6 DEF ClaimFile, Handed
    <3>1. ASSUME NEW f \in Files, importer' = [importer EXCEPT ![p].at = "import", ![p].file = f]
          PROVE  ImportersTyped'
      <4> DEFINE r == [importer[p] EXCEPT !.at = "import", !.file = f]
      <4>1. r \in ImporterState /\ Handed(r)
        BY <2>0, <3>0 DEF ImporterState, ImporterLabel, Handed, Filing
      <4>2. importer' = [importer EXCEPT ![p] = r]
        BY <2>0, <3>1
      <4>3. QED
        BY <4>1, <4>2, <1>0, ImporterMoves
    <3>2. ASSUME importer' = [importer EXCEPT ![p] = EndPass(p)] PROVE ImportersTyped'
      BY <3>2, <1>0, PassEnds, ImporterMoves
    <3>3. ASSUME importer' = [importer EXCEPT ![p] = Advance(p)] PROVE ImportersTyped'
      BY <3>0, <3>3, <1>0, Advances, ImporterMoves
    <3>4. QED
      BY <2>6, <3>1, <3>2, <3>3, FileThere DEF ClaimFile
  <2>7. CASE ImportClaim(p)
    <3> DEFINE r == [importer[p] EXCEPT !.at = "finalize"]
    <3>1. r \in ImporterState /\ Handed(r)
      BY <2>0, <2>1, <2>7 DEF ImporterState, ImporterLabel, Handed, Filing, ImportClaim
    <3>2. importer' = [importer EXCEPT ![p] = r]
      BY <2>0, <2>7 DEF ImportClaim
    <3>3. QED
      BY <3>1, <3>2, <1>0, ImporterMoves
  <2>8. CASE Finalize(p)
    <3>0. importer[p].todo # <<>>
      BY <2>1, <2>8 DEF Finalize, Handed, Filing
    <3>1. ASSUME NEW label \in {"finalize", "backup"},
                 importer' = [importer EXCEPT ![p].at = label]
          PROVE  ImportersTyped'
      <4> DEFINE r == [importer[p] EXCEPT !.at = label]
      <4>1. r \in ImporterState /\ Handed(r)
        BY <2>0, <2>1, <2>8 DEF ImporterState, ImporterLabel, Handed, Filing, Finalize
      <4>2. importer' = [importer EXCEPT ![p] = r]
        BY <2>0, <3>1
      <4>3. QED
        BY <4>1, <4>2, <1>0, ImporterMoves
    <3>2. ASSUME importer' = [importer EXCEPT ![p] = Advance(p)] PROVE ImportersTyped'
      BY <3>0, <3>2, <1>0, Advances, ImporterMoves
    <3>3. QED
      BY <2>8, <3>1, <3>2 DEF Finalize
  <2>9. CASE Backup(p)
    <3>1. importer[p].todo # <<>>
      BY <2>1, <2>9 DEF Backup, Handed, Filing
    <3>2. importer' = [importer EXCEPT ![p] = Advance(p)]
      BY <2>9 DEF Backup
    <3>3. QED
      BY <3>1, <3>2, <1>0, Advances, ImporterMoves
  <2>10. CASE StageExport(p)
    <3>1. ASSUME NEW e \in Exports, importer' = [importer EXCEPT ![p].at = "rename", ![p].file = e]
          PROVE  ImportersTyped'
      <4> DEFINE r == [importer[p] EXCEPT !.at = "rename", !.file = e]
      <4>1. r \in ImporterState /\ Handed(r)
        BY <2>0 DEF ImporterState, ImporterLabel, Handed, Filing, Files
      <4>2. importer' = [importer EXCEPT ![p] = r]
        BY <2>0, <3>1
      <4>3. QED
        BY <4>1, <4>2, <1>0, ImporterMoves
    <3>2. ASSUME importer' = [importer EXCEPT ![p] = IdleImporter] PROVE ImportersTyped'
      BY <3>2, <1>0, Passes, ImporterMoves
    <3>3. QED
      BY <2>10, <3>1, <3>2 DEF StageExport, Unused
  <2>11. QED
    BY <1>3, <2>2, <2>3, <2>4, <2>5, <2>6, <2>7, <2>8, <2>9, <2>10
    DEF ImporterActs, ImporterStep
<1>4. QED
  BY <1>1, <1>2, <1>3, StepCases

\* What a verified row covers is a set of records.
LEMMA CoveredRecords ==
  ASSUME DiskTyped, NEW f \in Files
  PROVE  Covered(f) \in SUBSET Records
BY DEF DiskTyped, Covered

\* A process that imports lines leaves rows and counts.
LEMMA LinesTyped ==
  ASSUME DiskTyped, NEW f \in Files, ImportLines(f)
  PROVE  /\ rows' \in [Files -> {None} \cup SUBSET Records]
         /\ db' \in [Records -> Nat]
<1>1. content[f] \in SUBSET Records /\ rows \in [Files -> {None} \cup SUBSET Records]
      /\ db \in [Records -> Nat]
  BY DEF DiskTyped
<1>2. rows' = [rows EXCEPT ![f] = content[f]]
  BY DEF ImportLines
<1>3. \A r \in Records : (IF r \in content[f] \ Covered(f) THEN db[r] + 1 ELSE db[r]) \in Nat
  BY <1>1
<1>4. QED
  BY <1>1, <1>2, <1>3 DEF ImportLines

\* The names of files, moved by a rename.
LEMMA PlacesTyped ==
  ASSUME NEW state \in FileState, NEW name \in Names
  PROVE  At(state, name) \in Place
BY DEF At, Place

\* A hook that is past its stamp stays so, and a stamp adds one hook to them.
LEMMA PastGrows ==
  ASSUME Typed, NEW h \in Records, HookStep(h) \/ HookDies(h)
  PROVE  Past \subseteq Past'
<1>0. hook \in [Records -> HookState]
  BY DEF Typed, HooksTyped
<1>1. \A g \in Records \ {h} : hook'[g] = hook[g]
  BY <1>0 DEF HookStep, WriteDb, Spill, CheckSeal, Stamp, Seal, OpenSpill, CheckMain, ReadTail,
     Rotate, OpenMain, OpenForAppend, AppendLine, ListVictims, UnlinkVictim, HookDies
<1>2. hook[h].at \in PastLabel /\ h \in NewHooks => hook'[h].at \in PastLabel
  <2>1. h \in NewHooks => h \notin OldHooks
    BY SpillAssumption
  <2>2. QED
    BY <1>0, <2>1 DEF PastLabel, HookState, HookStep, WriteDb, Spill, CheckSeal, Stamp, Seal,
       OpenSpill, CheckMain, ReadTail, Rotate, OpenMain, OpenForAppend, AppendLine, ListVictims,
       UnlinkVictim, HookDies, IdleHook
<1>3. QED
  BY <1>1, <1>2 DEF Past, Records

\* Every step of a hook keeps the count of stamps: a stamp adds one.
LEMMA HookKeepsStamps ==
  ASSUME Typed, NEW h \in Records, HookStep(h) \/ HookDies(h)
  PROVE  stamps' \in 0..Cardinality(NewHooks) /\ StampedOnce'
<1>0. /\ stamps \in 0..Cardinality(NewHooks) /\ StampedOnce
      /\ Cardinality(NewHooks) \in Nat
  BY NamesAre DEF Typed, DiskTyped
<1>1. Cardinality(Past) \in Nat /\ Cardinality(Past') \in Nat
      /\ Cardinality(Past) <= Cardinality(Past')
      /\ Cardinality(Past') <= Cardinality(NewHooks) /\ IsFiniteSet(Past')
  <2>1. IsFiniteSet(Past') /\ Cardinality(Past') \in Nat
        /\ Cardinality(Past') <= Cardinality(NewHooks)
    BY SpillAssumption, FS_Subset, FS_CardinalityType DEF Past
  <2>2. QED
    BY <2>1, PastFinite, PastGrows, FS_Subset
<1>2. CASE stamps' = stamps
  BY <1>0, <1>1, <1>2 DEF StampedOnce
<1>3. CASE stamps' # stamps
  <2>1. Stamp(h)
    BY <1>3 DEF HookStep, WriteDb, Spill, CheckSeal, Seal, OpenSpill, CheckMain, ReadTail, Rotate,
       OpenMain, OpenForAppend, AppendLine, ListVictims, UnlinkVictim, HookDies, segments
  <2>2. stamps' = stamps + 1 /\ hook[h].at = "stamp"
    BY <2>1 DEF Stamp
  <2>3. h \in NewHooks /\ h \notin Past
    BY <2>2 DEF Past, PastLabel, OldLabel, Typed, HooksTyped, HookInHand, Records
  <2>4. h \in Past'
    <3>1. hook'[h].at = "rename"
      BY <2>1 DEF Stamp, Typed, HooksTyped, HookState
    <3>2. QED
      BY <3>1, <2>3 DEF Past, PastLabel
  <2>5. Cardinality(Past) + 1 <= Cardinality(Past')
    <3>1. Past \cup {h} \in SUBSET (Past')
      BY <2>1, <2>4, PastGrows DEF HookStep
    <3>2. Cardinality(Past \cup {h}) = Cardinality(Past) + 1
      BY <2>3, PastFinite, FS_AddElement
    <3>3. Cardinality(Past \cup {h}) <= Cardinality(Past')
      BY <1>1, <3>1, FS_Subset
    <3>4. QED
      BY <3>2, <3>3
  <2>6. QED
    BY <1>0, <1>1, <2>2, <2>5 DEF StampedOnce
<1>4. QED
  BY <1>2, <1>3

\* Every step of a hook leaves each file at a name.
LEMMA HookKeepsPlaces ==
  ASSUME Typed, NEW h \in Records, HookStep(h) \/ HookDies(h)
  PROVE  place' \in [Files -> Place]
<1>0. place \in [Files -> Place] /\ h \in Files
  BY DEF Typed, DiskTyped, Files
<1>1. ASSUME NEW name \in Names, OpenForAppend(h, name) PROVE place' \in [Files -> Place]
  BY <1>0, <1>1, PlacesTyped DEF OpenForAppend, FileState
<1>2. CASE UnlinkVictim(h)
  <2>1. CASE UNCHANGED place
    BY <1>0, <2>1
  <2>2. CASE ~UNCHANGED place
    <3> DEFINE n == Min(hook[h].victims)
    <3>1. hook[h].victims \in SUBSET Segments /\ hook[h].victims # {}
      BY <1>2, <2>2 DEF UnlinkVictim, Typed, HooksTyped, HookState
    <3>2. n \in Names
      BY <3>1, MinIsMember, NamesAre
    <3> HIDE DEF n
    <3>3. At("unlinked", n) \in Place
      BY <3>2, PlacesTyped DEF FileState
    <3>4. QED
      BY <1>0, <1>2, <2>2, <3>3 DEF UnlinkVictim, n
  <2>3. QED
    BY <2>1, <2>2
<1>3. CASE Seal(h)
  <2>1. At("live", hook[h].stamp) \in Place
    BY <1>3, NamesAre, PlacesTyped DEF Seal, FileState, Typed, HooksTyped, HookInHand
  <2>2. QED
    BY <1>0, <1>3, <2>1 DEF Seal
<1>4. CASE Rotate(h)
  <2>1. At("live", Main) \in Place /\ At("rotated", Main) \in Place
    BY NamesAre, PlacesTyped DEF FileState
  <2>2. QED
    BY <1>0, <1>4, <2>1 DEF Rotate
<1>5. QED
  BY <1>0, <1>1, <1>2, <1>3, <1>4, NamesAre DEF HookStep, WriteDb, Spill, CheckSeal, Stamp,
     OpenSpill, CheckMain, ReadTail, OpenMain, AppendLine, ListVictims, HookDies

\* Every step of a hook keeps the files and the database typed.
LEMMA HookKeepsDisk ==
  ASSUME Typed, NEW h \in Records, HookStep(h) \/ HookDies(h)
  PROVE  DiskTyped'
<1>0. /\ place \in [Files -> Place] /\ content \in [Files -> SUBSET Records]
      /\ db \in [Records -> Nat] /\ sealed \subseteq Segments /\ kept \in [Files -> SUBSET Records]
      /\ later \in [Segments -> SUBSET Segments]
      /\ mishaps \in 0..MaxMishaps /\ MaxMishaps \in Nat
      /\ hook[h].tail \in SUBSET Records
  BY SpillAssumption DEF Typed, DiskTyped, HooksTyped, HookState
<1>1. /\ rows' \in [Files -> {None} \cup SUBSET Records] /\ sqlite' \in Importers \cup {None}
      /\ suspended' \in BOOLEAN
  BY HookKeeps DEF Typed, DiskTyped
<1>2. content' \in [Files -> SUBSET Records] /\ kept' \in [Files -> SUBSET Records]
  <2>1. CASE AppendLine(h)
    BY <1>0, <2>1 DEF AppendLine
  <2>2. CASE Rotate(h)
    BY <1>0, <2>2 DEF Rotate
  <2>3. QED
    BY <1>0, <2>1, <2>2 DEF HookStep, WriteDb, Spill, CheckSeal, Stamp, Seal, OpenSpill,
       CheckMain, ReadTail, OpenMain, OpenForAppend, ListVictims, UnlinkVictim, HookDies, segments
<1>3. db' \in [Records -> Nat] /\ mishaps' \in 0..MaxMishaps
  BY <1>0 DEF HookStep, WriteDb, Spill, CheckSeal, Stamp, Seal, OpenSpill, CheckMain, ReadTail,
     Rotate, OpenMain, OpenForAppend, AppendLine, ListVictims, UnlinkVictim, HookDies
<1>4. sealed' \subseteq Segments /\ later' \in [Segments -> SUBSET Segments]
  <2>1. CASE Seal(h)
    <3>1. hook[h].stamp \in Segments
      BY <2>1 DEF Seal, Typed, HooksTyped, HookInHand
    <3>2. QED
      BY <1>0, <2>1, <3>1 DEF Seal
  <2>2. QED
    BY <1>0, <2>1 DEF HookStep, WriteDb, Spill, CheckSeal, Stamp, OpenSpill, CheckMain, ReadTail,
       Rotate, OpenMain, OpenForAppend, AppendLine, ListVictims, UnlinkVictim, HookDies, segments
<1>5. QED
  BY <1>1, <1>2, <1>3, <1>4, HookKeepsStamps, HookKeepsPlaces DEF DiskTyped

\* Every step of an importer keeps the files and the database typed.
LEMMA ImporterKeepsDisk ==
  ASSUME Typed, NEW p \in Importers, ImporterActs(p)
  PROVE  DiskTyped'
<1>0. /\ place \in [Files -> Place] /\ content \in [Files -> SUBSET Records]
      /\ rows \in [Files -> {None} \cup SUBSET Records]
      /\ db \in [Records -> Nat] /\ sqlite \in Importers \cup {None}
      /\ suspended \in BOOLEAN
      /\ mishaps \in 0..MaxMishaps /\ MaxMishaps \in Nat /\ kept \in [Files -> SUBSET Records]
  BY SpillAssumption DEF Typed, DiskTyped
<1>1. /\ stamps' \in 0..Cardinality(NewHooks) /\ StampedOnce'
      /\ sealed' \subseteq Segments /\ later' \in [Segments -> SUBSET Segments]
  BY ImporterKeeps DEF Typed, DiskTyped, StampedOnce, Past, segments
<1>2. suspended' \in BOOLEAN /\ mishaps' \in 0..MaxMishaps /\ sqlite' \in Importers \cup {None}
  <2> USE DEF ImporterActs, ImporterStep, StartImport, Begin, Busy, ListSpill, ClaimFile,
     ImportClaim, Finalize, Backup, StartExport, StageExport, PlaceExport, Migrate, ImporterDies
  <2>1. suspended' \in BOOLEAN
    BY <1>0
  <2>2. mishaps' \in 0..MaxMishaps
    <3>1. mishaps' = mishaps \/ (mishaps < MaxMishaps /\ mishaps' = mishaps + 1)
      BY Zenon
    <3>2. QED
      BY <1>0, <3>1
  <2>3. sqlite' \in Importers \cup {None}
    BY <1>0
  <2>4. QED
    BY <2>1, <2>2, <2>3
<1>3. /\ rows' \in [Files -> {None} \cup SUBSET Records] /\ db' \in [Records -> Nat]
      /\ content' \in [Files -> SUBSET Records] /\ kept' \in [Files -> SUBSET Records]
  <2>1. ASSUME NEW f \in Files, ImportLines(f), UNCHANGED <<content, kept>>
        PROVE  /\ rows' \in [Files -> {None} \cup SUBSET Records] /\ db' \in [Records -> Nat]
               /\ content' \in [Files -> SUBSET Records] /\ kept' \in [Files -> SUBSET Records]
    BY <1>0, <2>1, LinesTyped DEF Typed
  <2>2. CASE ImportClaim(p) \/ Finalize(p)
    <3>1. importer[p].file \in Files
      BY <2>2 DEF Typed, ImportersTyped, ImporterInHand, Filing, ImportClaim, Finalize
    <3>2. QED
      BY <1>0, <2>1, <2>2, <3>1 DEF ImportClaim, Finalize
  <2>3. CASE StageExport(p)
    <3>1. Stored \in SUBSET Records
      BY DEF Stored
    <3>2. QED
      BY <1>0, <2>3, <3>1 DEF StageExport, RecordExport
  <2>4. CASE UNCHANGED <<rows, db, content, kept>>
    BY <1>0, <2>4
  <2>5. QED
    BY <2>2, <2>3, <2>4 DEF ImporterActs, ImporterStep, StartImport, Begin, Busy, ListSpill,
       ClaimFile, Backup, StartExport, PlaceExport, Migrate, ImporterDies
<1>4. place' \in [Files -> Place]
  <2>1. CASE ClaimFile(p)
    <3>1. CASE UNCHANGED place
      BY <1>0, <3>1
    <3>2. CASE ~UNCHANGED place
      <4> DEFINE name == Head(importer[p].todo).name
      <4>1. Exists("live", name)
            /\ place' = [place EXCEPT ![TheFile("live", name)] = At("claimed", name)]
        BY <2>1, <3>2 DEF ClaimFile
      <4> HIDE DEF name
      <4>2. name \in Names
        <5>1. At("live", name) \in Place
          BY <1>0, <4>1, FileThere
        <5>2. QED
          BY <5>1 DEF At, Place
      <4>3. QED
        BY <1>0, <4>1, <4>2, PlacesTyped DEF FileState
    <3>3. QED
      BY <3>1, <3>2
  <2>2. CASE Backup(p)
    BY <1>0, <2>2 DEF Backup, Place, FileState
  <2>3. CASE StageExport(p)
    BY <1>0, <2>3, NamesAre, PlacesTyped DEF StageExport, FileState
  <2>4. CASE PlaceExport(p)
    BY <1>0, <2>4, NamesAre, PlacesTyped DEF PlaceExport, FileState
  <2>5. QED
    BY <1>0, <2>1, <2>2, <2>3, <2>4 DEF ImporterActs, ImporterStep, StartImport, Begin, Busy,
       ListSpill, ImportClaim, Finalize, StartExport, Migrate, ImporterDies
<1>5. QED
  BY <1>1, <1>2, <1>3, <1>4 DEF DiskTyped

\* The types hold at the start.
LEMMA InitTyped == Init => Typed
<1> SUFFICES ASSUME Init PROVE Typed
  OBVIOUS
<1>1. HooksTyped
  BY IdleHooks DEF Init, HooksTyped, HookInHand, HookLabel, OldLabel, Records
<1>2. ImportersTyped
  BY Passes DEF Init, ImportersTyped, ImporterInHand, Handed
<1>3. At("absent", Main) \in Place
  BY NamesAre, PlacesTyped DEF FileState
<1>4. 0 <= Cardinality(Past) /\ 0 \in 0..Cardinality(NewHooks) /\ 0 \in 0..MaxMishaps
  BY PastFinite, NamesAre, SpillAssumption
<1>5. DiskTyped
  BY <1>3, <1>4 DEF Init, DiskTyped, StampedOnce
<1>6. QED
  BY <1>1, <1>2, <1>5 DEF Typed

\* ... and every step keeps them.
LEMMA StepTyped == Typed /\ [Next]_vars => Typed'
<1> SUFFICES ASSUME Typed, [Next]_vars PROVE Typed'
  OBVIOUS
<1>1. DiskTyped'
  <2>1. CASE UNCHANGED vars
    BY <2>1 DEF vars, Typed, DiskTyped, StampedOnce, Past
  <2>2. QED
    BY <2>1, StepCases, HookKeepsDisk, ImporterKeepsDisk
<1>2. QED
  BY <1>1, HooksStayTyped, ImportersStayTyped DEF Typed

\* Every variable of the pipeline has its type, whatever importers and hooks
\* of either release do to the files of the stream.
THEOREM Typing == Spec => []TypeOK
<1>1. Typed => TypeOK
  BY DEF Typed, HooksTyped, ImportersTyped, DiskTyped, TypeOK
<1>2. QED
  BY <1>1, InitTyped, StepTyped, PTL DEF Spec

-----------------------------------------------------------------------------
(* What a step does to files, in a few cases.                              *)

BeforeOpen == {"start", "seal", "stamp", "rename", "read", "replace", "open"}

\* A hook that is done, with its append at least.
Ended == {"list", "unlink", "end"}

\* A rotation puts the lines it read where nothing was.
RotatesTo(h, f) ==
  /\ f \in Rotations /\ place[f].at = "absent" /\ place'[f] = At("live", Main)
  /\ content' = [content EXCEPT ![f] = hook[h].tail] /\ kept' = [kept EXCEPT ![f] = hook[h].tail]

\* A hook moves a live file, unlinks or replaces one, or creates its own.
LEMMA HookFiles ==
  ASSUME Typed, NEW h \in Records, HookStep(h) \/ HookDies(h), NEW f \in Files
  PROVE  \/ place'[f] = place[f]
         \/ place[f].at = "live" /\ place'[f].at \in {"live", "unlinked", "rotated"}
         \/ /\ f = h /\ hook[h].at \in BeforeOpen /\ hook'[h].at = "append"
            /\ place'[f].at = "live"
         \/ Rotate(h) /\ RotatesTo(h, f)
<1>0. place \in [Files -> Place] /\ hook \in [Records -> HookState]
  BY DEF Typed, DiskTyped, HooksTyped
<1>1. \A name : Exists("live", name) => /\ TheFile("live", name) \in Files
                                        /\ place[TheFile("live", name)].at = "live"
  BY FileThere
<1>2. CASE Seal(h)
  <2>1. UNCHANGED place \/ (/\ Exists("live", Open)
                            /\ place' = [place EXCEPT ![TheFile("live", Open)] =
                                            At("live", hook[h].stamp)])
    BY <1>2 DEF Seal
  <2>2. QED
    BY <1>0, <1>1, <2>1 DEF At
<1>3. CASE UnlinkVictim(h)
  <2>1. UNCHANGED place \/ \E name : /\ Exists("live", name)
                                     /\ place' = [place EXCEPT ![TheFile("live", name)] =
                                                     At("unlinked", name)]
    BY <1>3 DEF UnlinkVictim
  <2>2. QED
    BY <1>0, <1>1, <2>1 DEF At
<1>4. ASSUME NEW name, OpenForAppend(h, name), hook[h].at \in BeforeOpen
      PROVE  \/ place'[f] = place[f]
             \/ /\ f = h /\ hook[h].at \in BeforeOpen /\ hook'[h].at = "append"
                /\ place'[f].at = "live"
  BY <1>0, <1>4 DEF OpenForAppend, HookState, At, Files
<1>5. CASE Rotate(h)
  BY <1>0, <1>5 DEF Rotate, Spare, RotatesTo, At
<1>6. QED
  BY <1>2, <1>3, <1>4, <1>5 DEF HookStep, WriteDb, Spill, CheckSeal, Stamp, OpenSpill,
     CheckMain, ReadTail, Rotate, OpenMain, AppendLine, ListVictims, HookDies, BeforeOpen

\* A hook writes its record to the database, or to a file, or lines it read to
\* the file of a rotation, or nothing; a file that it opens is there.
LEMMA HookWrites ==
  ASSUME Typed, NEW h \in Records, HookStep(h) \/ HookDies(h)
  PROVE  /\ \A g \in Records \ {h} : hook'[g] = hook[g]
         /\ hook[h].at \in Ended => hook'[h].at \in Ended
         /\ hook'[h].tail # hook[h].tail => hook'[h].tail \subseteq Accepted
         /\ \/ /\ db' = [db EXCEPT ![h] = @ + 1] /\ UNCHANGED <<content, kept, place>>
               /\ hook[h].at = "start" /\ hook'[h].at = "end"
            \/ /\ content' = [content EXCEPT ![hook[h].fd] = @ \cup {h}] /\ UNCHANGED <<db, kept>>
               /\ hook[h].at = "append" /\ hook'[h].at \in {"list", "end"} /\ UNCHANGED place
            \/ /\ \E f \in Files : RotatesTo(h, f)
               /\ UNCHANGED db /\ hook[h].at = "replace" /\ hook'[h].at = "open"
            \/ /\ UNCHANGED <<db, content, kept>>
               /\ hook'[h].at \in BeforeOpen => hook[h].at \in BeforeOpen
               /\ hook'[h].at = "append" =>
                    /\ hook[h].at \in BeforeOpen
                    /\ hook'[h].fd \in Files /\ place'[hook'[h].fd].at = "live"
                    /\ hook'[h].fd = h \/ place[hook'[h].fd] = place'[hook'[h].fd]
<1>0. hook \in [Records -> HookState] /\ place \in [Files -> Place]
  BY DEF Typed, HooksTyped, DiskTyped
<1>1. ASSUME NEW name, OpenForAppend(h, name)
      PROVE  hook'[h].at = "append" /\ hook'[h].fd \in Files /\ place'[hook'[h].fd].at = "live"
             /\ (hook'[h].fd = h \/ place[hook'[h].fd] = place'[hook'[h].fd])
  <2>1. hook'[h].at = "append"
        /\ hook'[h].fd = IF Exists("live", name) THEN TheFile("live", name) ELSE h
    BY <1>0, <1>1 DEF OpenForAppend, HookState
  <2>2. CASE Exists("live", name)
    BY <1>1, <2>1, <2>2, FileThere DEF OpenForAppend
  <2>3. CASE ~Exists("live", name)
    BY <1>0, <1>1, <2>1, <2>3 DEF OpenForAppend, At, Files
  <2>4. QED
    BY <2>2, <2>3
<1>2. \A g \in Records \ {h} : hook'[g] = hook[g]
  BY <1>0 DEF HookStep, WriteDb, Spill, CheckSeal, Stamp, Seal, OpenSpill, CheckMain, ReadTail,
     Rotate, OpenMain, OpenForAppend, AppendLine, ListVictims, UnlinkVictim, HookDies
<1>3. hook[h].at \in Ended => hook'[h].at \in Ended
  <2>1. hook[h].at \in Ended => h \notin OldHooks
                                \/ hook[h].at = "end"
    BY DEF Ended, OldLabel, Typed, HooksTyped, HookInHand
  <2>2. QED
    BY <1>0, <2>1 DEF Ended, HookState, HookStep, WriteDb, Spill, CheckSeal, Stamp, Seal,
       OpenSpill, CheckMain, ReadTail, Rotate, OpenMain, OpenForAppend, AppendLine, ListVictims,
       UnlinkVictim, HookDies, IdleHook
<1>4. hook'[h].tail # hook[h].tail => hook'[h].tail \subseteq Accepted
  <2>1. CASE ReadTail(h)
    <3>1. Exists("live", Main) => content[TheFile("live", Main)] \subseteq Accepted
      BY FileThere DEF Accepted
    <3>2. ASSUME NEW T, hook' = [hook EXCEPT ![h].at = "replace", ![h].tail = T]
          PROVE  hook'[h].tail = T
      BY <1>0, <3>2 DEF HookState
    <3>3. hook' = [hook EXCEPT ![h].at = "open"] => hook'[h].tail = hook[h].tail
      BY <1>0 DEF HookState
    <3>4. QED
      BY <2>1, <3>1, <3>2, <3>3 DEF ReadTail
  <2>2. QED
    BY <1>0, <2>1 DEF HookState, HookStep, WriteDb, Spill, CheckSeal, Stamp, Seal, OpenSpill,
       CheckMain, Rotate, OpenMain, OpenForAppend, AppendLine, ListVictims,
       UnlinkVictim, HookDies, IdleHook
<1>5. CASE WriteDb(h)
  <2>1. UNCHANGED <<content, kept, place>> /\ db' = [db EXCEPT ![h] = @ + 1]
        /\ hook[h].at = "start" /\ hook'[h].at = "end"
    BY <1>0, <1>5 DEF WriteDb, IdleHook
  <2>2. QED
    BY <1>2, <1>3, <1>4, <2>1
<1>6. CASE AppendLine(h)
  <2>1. /\ content' = [content EXCEPT ![hook[h].fd] = @ \cup {h}] /\ UNCHANGED <<db, kept>>
        /\ hook[h].at = "append" /\ hook'[h].at \in {"list", "end"} /\ UNCHANGED place
    BY <1>0, <1>6 DEF AppendLine, HookState
  <2>2. QED
    BY <1>2, <1>3, <1>4, <2>1
<1>7. CASE OpenSpill(h) \/ OpenMain(h)
  <2>1. UNCHANGED <<db, content, kept>> /\ hook[h].at \in BeforeOpen
    BY <1>7 DEF OpenSpill, OpenMain, OpenForAppend, BeforeOpen
  <2>2. QED
    BY <1>1, <1>2, <1>3, <1>4, <1>7, <2>1 DEF OpenSpill, OpenMain, BeforeOpen
<1>8. CASE Rotate(h)
  <2>1. hook[h].at = "replace" /\ hook'[h].at = "open" /\ UNCHANGED db
    BY <1>0, <1>8 DEF Rotate, HookState
  <2>2. CASE Spare = {}
    <3>1. UNCHANGED <<content, kept>>
      BY <1>8, <2>2 DEF Rotate
    <3>2. QED
      BY <1>2, <1>3, <1>4, <2>1, <3>1 DEF BeforeOpen
  <2>3. CASE Spare # {}
    <3>1. \E f \in Files : RotatesTo(h, f)
      BY <1>0, <1>8, <2>3 DEF Rotate, Spare, RotatesTo, Files
    <3>2. QED
      BY <1>2, <1>3, <1>4, <2>1, <3>1
  <2>4. QED
    BY <2>2, <2>3
<1>9. CASE Spill(h) \/ CheckSeal(h) \/ Stamp(h) \/ Seal(h) \/ CheckMain(h) \/ ReadTail(h)
           \/ ListVictims(h) \/ UnlinkVictim(h) \/ HookDies(h)
  <2>1. UNCHANGED <<db, content, kept>>
    BY <1>9 DEF Spill, CheckSeal, Stamp, Seal, CheckMain, ReadTail, ListVictims, UnlinkVictim,
       HookDies
  <2>2. hook'[h].at # "append" /\ (hook'[h].at \in BeforeOpen => hook[h].at \in BeforeOpen)
    BY <1>0, <1>9 DEF Spill, CheckSeal, Stamp, Seal, CheckMain, ReadTail, ListVictims,
       UnlinkVictim, HookDies, BeforeOpen, HookState, IdleHook
  <2>3. QED
    BY <1>2, <1>3, <1>4, <2>1, <2>2
<1>10. QED
  BY <1>5, <1>6, <1>7, <1>8, <1>9 DEF HookStep

\* A claim is of a live file, which keeps its name, or of one claimed before.
LEMMA Claims ==
  ASSUME NEW p \in Importers, ClaimFile(p)
  PROVE  \/ /\ UNCHANGED place
            /\ \/ importer' = [importer EXCEPT ![p] = EndPass(p)]
               \/ importer' = [importer EXCEPT ![p] = Advance(p)]
         \/ \E f \in Files :
              /\ importer' = [importer EXCEPT ![p].at = "import", ![p].file = f]
              /\ \/ UNCHANGED place /\ place[f].at = "claimed"
                 \/ /\ place[f].at = "live"
                    /\ place' = [place EXCEPT ![f] = At("claimed", place[f].name)]
<1> DEFINE name == Head(importer[p].todo).name
<1>1. CASE suspended
  BY <1>1 DEF ClaimFile
<1>2. CASE ~suspended /\ Exists("claimed", name)
  BY <1>2, FileThere DEF ClaimFile
<1>3. CASE ~suspended /\ ~Exists("claimed", name)
           /\ (Head(importer[p].todo).claimOnly \/ ~Exists("live", name))
  BY <1>3 DEF ClaimFile
<1>4. CASE ~suspended /\ ~Exists("claimed", name) /\ ~Head(importer[p].todo).claimOnly
           /\ Exists("live", name)
  BY <1>4, FileThere DEF ClaimFile
<1>5. QED
  BY <1>1, <1>2, <1>3, <1>4

\* An importer claims or replaces a live file, finishes the one it has in
\* hand, or writes an export.
LEMMA ImporterFiles ==
  ASSUME Typed, NEW p \in Importers, ImporterActs(p), NEW f \in Files
  PROVE  \/ place'[f] = place[f]
         \/ place[f].at = "live" /\ place'[f].at = "claimed" /\ place'[f].name = place[f].name
         \/ place[f] = At("live", Main) /\ place'[f] = At("unlinked", Main)
            /\ importer[p].at = "rename"
         \/ /\ importer[p].at = "backup" /\ f = importer[p].file
            /\ place'[f].at = "backup" /\ place'[f].name = place[f].name
         \/ /\ f \in Exports /\ place[f].at = "absent" /\ place'[f] = At("temp", Main)
            /\ content' = [content EXCEPT ![f] = Stored] /\ rows' = RecordExport(f)
         \/ /\ importer[p].at = "rename" /\ f = importer[p].file
            /\ f \in Exports /\ place'[f] = At("live", Main)
<1>0. place \in [Files -> Place]
  BY DEF Typed, DiskTyped
<1>1. CASE ClaimFile(p)
  <2>1. UNCHANGED place \/ \E g \in Files :
          place[g].at = "live" /\ place' = [place EXCEPT ![g] = At("claimed", place[g].name)]
    BY <1>1, Claims
  <2>2. QED
    BY <1>0, <2>1 DEF At
<1>2. CASE Backup(p)
  BY <1>0, <1>2 DEF Backup, Place
<1>3. CASE StageExport(p)
  BY <1>0, <1>3 DEF StageExport, Unused
<1>4. CASE PlaceExport(p)
  BY <1>0, <1>4 DEF PlaceExport, Typed, ImportersTyped, ImporterInHand
<1>5. QED
  BY <1>1, <1>2, <1>3, <1>4 DEF ImporterActs, ImporterStep, StartImport, Begin, Busy, ListSpill,
     ImportClaim, Finalize, StartExport, Migrate, ImporterDies

\* It imports lines of a file that it has in hand, stages an export, or writes
\* no records.
LEMMA ImporterWrites ==
  ASSUME Typed, NEW p \in Importers, ImporterActs(p)
  PROVE  \/ /\ importer[p].at \in {"import", "stat"} /\ importer[p].file \in Files
            /\ ImportLines(importer[p].file) /\ UNCHANGED <<content, kept, place>>
         \/ \E e \in Exports :
              /\ place[e].at = "absent" /\ place' = [place EXCEPT ![e] = At("temp", Main)]
              /\ content' = [content EXCEPT ![e] = Stored] /\ rows' = RecordExport(e)
              /\ kept' = [kept EXCEPT ![e] = Stored] /\ UNCHANGED db
         \/ UNCHANGED <<rows, db, content, kept>>
<1>1. CASE ImportClaim(p) \/ Finalize(p)
  <2>1. importer[p].file \in Files
    BY <1>1 DEF Typed, ImportersTyped, ImporterInHand, Filing, ImportClaim, Finalize
  <2>2. QED
    BY <1>1, <2>1 DEF ImportClaim, Finalize
<1>2. CASE StageExport(p)
  BY <1>2 DEF StageExport, Unused
<1>3. QED
  BY <1>1, <1>2 DEF ImporterActs, ImporterStep, StartImport, Begin, Busy, ListSpill, ClaimFile,
     Backup, StartExport, PlaceExport, Migrate, ImporterDies

\* The file an importer has in hand was there when it claimed it.
LEMMA ImporterHolds ==
  ASSUME Typed, NEW p \in Importers, ImporterActs(p), NEW q \in Importers,
         importer'[q].at \in Filing
  PROVE  \/ importer[q].at \in Filing /\ importer'[q].file = importer[q].file
         \/ q = p /\ importer'[q].file \in Files /\ place'[importer'[q].file].at = "claimed"
<1>0. importer \in [Importers -> ImporterState] /\ place \in [Files -> Place]
  BY DEF Typed, ImportersTyped, DiskTyped
<1>1. CASE q # p
  BY <1>0, <1>1 DEF ImporterActs, ImporterStep, StartImport, Begin, Busy, ListSpill, ClaimFile,
     ImportClaim, Finalize, Backup, StartExport, StageExport, PlaceExport, Migrate, ImporterDies
<1>2. CASE q = p
  <2>0. /\ IdleImporter.at \notin Filing
        /\ \A export : Pass(export).at \notin Filing
        /\ EndPass(p).at \notin Filing
        /\ importer[p].todo # <<>> => Advance(p).at \notin Filing
    BY Advances, PassEnds DEF IdleImporter, Pass, Filing, Typed
  <2>1. CASE ClaimFile(p)
    <3>1. importer[p].todo # <<>>
      BY <2>1 DEF ClaimFile, Typed, ImportersTyped, ImporterInHand
    <3>2. ASSUME NEW f \in Files, importer' = [importer EXCEPT ![p].at = "import", ![p].file = f],
                 \/ UNCHANGED place /\ place[f].at = "claimed"
                 \/ place' = [place EXCEPT ![f] = At("claimed", place[f].name)]
          PROVE  importer'[q].file \in Files /\ place'[importer'[q].file].at = "claimed"
      <4>1. importer'[q].file = f
        BY <1>0, <1>2, <3>2 DEF ImporterState
      <4>2. place'[f].at = "claimed"
        BY <1>0, <3>2 DEF At
      <4>3. QED
        BY <4>1, <4>2
    <3>3. CASE importer' = [importer EXCEPT ![p] = EndPass(p)]
               \/ importer' = [importer EXCEPT ![p] = Advance(p)]
      BY <1>0, <1>2, <2>0, <3>1, <3>3
    <3>4. QED
      BY <1>2, <2>1, <3>2, <3>3, Claims
  <2>2. CASE Backup(p) \/ Finalize(p)
    <3>1. importer[p].todo # <<>> /\ importer[p].at \in Filing
      BY <2>2 DEF Backup, Finalize, Filing, Typed, ImportersTyped, ImporterInHand
    <3>2. QED
      BY <1>0, <1>2, <2>0, <2>2, <3>1 DEF Backup, Finalize, ImporterState
  <2>3. CASE ImportClaim(p) \/ Begin(p)
    BY <1>0, <1>2, <2>3 DEF ImportClaim, Begin, ImporterState, Filing
  <2>4. CASE ListSpill(p) \/ StageExport(p)
    BY <1>0, <1>2, <2>0, <2>4 DEF ListSpill, StageExport, ImporterState, Filing
  <2>5. CASE StartImport(p) \/ Busy(p) \/ StartExport(p) \/ PlaceExport(p) \/ Migrate(p)
             \/ ImporterDies(p)
    BY <1>0, <1>2, <2>0, <2>5 DEF StartImport, Busy, StartExport, PlaceExport, Migrate,
       ImporterDies
  <2>6. QED
    BY <2>1, <2>2, <2>3, <2>4, <2>5 DEF ImporterActs, ImporterStep
<1>3. QED
  BY <1>1, <1>2

\* An importer's step is its own.
LEMMA OthersStay ==
  ASSUME Typed, NEW p \in Importers, ImporterActs(p), NEW q \in Importers \ {p}
  PROVE  importer'[q] = importer[q]
<1>1. importer \in [Importers -> ImporterState]
  BY DEF Typed, ImportersTyped
<1>2. QED
  BY <1>1 DEF ImporterActs, ImporterStep, StartImport, Begin, Busy, ListSpill, ClaimFile,
     ImportClaim, Finalize, Backup, StartExport, StageExport, PlaceExport, Migrate, ImporterDies

\* An export that is about to be placed was staged by the same process, when
\* the file at the old path could be replaced.
LEMMA ImporterStages ==
  ASSUME Typed, NEW p \in Importers, ImporterActs(p), NEW q \in Importers,
         importer'[q].at = "rename"
  PROVE  \/ q # p /\ importer[q].at = "rename" /\ importer'[q].file = importer[q].file
         \/ /\ q = p /\ importer'[q].file \in Exports
            /\ place[importer'[q].file].at = "absent"
            /\ place' = [place EXCEPT ![importer'[q].file] = At("temp", Main)]
            /\ content' = [content EXCEPT ![importer'[q].file] = Stored]
            /\ rows' = RecordExport(importer'[q].file)
            /\ \A f \in FilesAt("live", Main) : NoWriter(f) \/ "clobber" \in Windows
            /\ Exists("live", Main) => Replaceable
<1>0. importer \in [Importers -> ImporterState]
  BY DEF Typed, ImportersTyped
<1>1. CASE q # p
  BY <1>1, OthersStay
<1>2. CASE q = p
  <2>0. /\ IdleImporter.at # "rename" /\ \A export : Pass(export).at # "rename"
        /\ EndPass(p).at # "rename"
        /\ importer[p].todo # <<>> => Advance(p).at # "rename"
    BY Advances, PassEnds DEF IdleImporter, Pass, Typed
  <2>1. CASE StageExport(p)
    <3>1. importer' # [importer EXCEPT ![p] = IdleImporter]
      BY <1>0, <1>2, <2>0
    <3>2. PICK e \in Unused :
            /\ \A f \in FilesAt("live", Main) : NoWriter(f) \/ "clobber" \in Windows
            /\ place' = [place EXCEPT ![e] = At("temp", Main)]
            /\ content' = [content EXCEPT ![e] = Stored]
            /\ rows' = RecordExport(e)
            /\ importer' = [importer EXCEPT ![p].at = "rename", ![p].file = e]
      BY <2>1, <3>1 DEF StageExport
    <3>3. Exists("live", Main) => Replaceable
      BY <2>1, <3>1 DEF StageExport
    <3>4. importer'[p].file = e
      BY <1>0, <3>2 DEF ImporterState
    <3>5. e \in Exports /\ place[e].at = "absent"
      BY <3>2 DEF Unused
    <3>6. QED
      BY <1>2, <3>2, <3>3, <3>4, <3>5
  <2>2. CASE ClaimFile(p) \/ Backup(p) \/ Finalize(p)
    <3>1. importer[p].todo # <<>> /\ importer[p].at # "rename"
      BY <2>2 DEF ClaimFile, Backup, Finalize, Filing, Typed, ImportersTyped, ImporterInHand
    <3>2. CASE ClaimFile(p)
      <4>1. ASSUME NEW f, importer' = [importer EXCEPT ![p].at = "import", ![p].file = f]
            PROVE  importer'[p].at # "rename"
        BY <1>0, <4>1 DEF ImporterState
      <4>2. QED
        BY <1>0, <1>2, <2>0, <3>1, <3>2, <4>1, Claims
    <3>3. CASE Backup(p) \/ Finalize(p)
      BY <1>0, <1>2, <2>0, <3>1, <3>3 DEF Backup, Finalize, ImporterState
    <3>4. QED
      BY <2>2, <3>2, <3>3
  <2>3. CASE ImportClaim(p) \/ Begin(p) \/ ListSpill(p)
    BY <1>0, <1>2, <2>3 DEF ImportClaim, Begin, ListSpill, ImporterState
  <2>4. CASE StartImport(p) \/ Busy(p) \/ StartExport(p) \/ PlaceExport(p) \/ Migrate(p)
             \/ ImporterDies(p)
    BY <1>0, <1>2, <2>0, <2>4 DEF StartImport, Busy, StartExport, PlaceExport, Migrate,
       ImporterDies
  <2>5. QED
    BY <2>1, <2>2, <2>3, <2>4 DEF ImporterActs, ImporterStep
<1>3. QED
  BY <1>1, <1>2

-----------------------------------------------------------------------------
(* A record is in the database once, and once more for a rotation that kept *)
(* its line.                                                               *)

\* A hook that has not written its record: the record is nowhere, and before
\* it opens a file, nor is the file that it may create.
Unwritten ==
  \A h \in Records :
    /\ hook[h].at \in BeforeOpen \cup {"append"} =>
         /\ db[h] = 0 /\ \A f \in Files : h \notin content[f]
         /\ \A g \in Records : h \notin hook[g].tail
    /\ hook[h].at \in BeforeOpen => place[h].at = "absent"

\* A file that is not there holds nothing, and nobody has it open.
Uncreated == \A f \in Files : place[f].at = "absent" => content[f] = {} /\ NoWriter(f)

\* The file that an importer has in hand is claimed, or somebody has finished it.
InPlace ==
  \A p \in Importers : importer[p].at \in Filing =>
    place[importer[p].file].at \in {"claimed", "backup"}

\* An export that is not placed yet is of one process.
StagedApart ==
  \A p \in Importers : importer[p].at = "rename" =>
    /\ place[importer[p].file].at = "temp"
    /\ \A q \in Importers \ {p} : importer[q].at = "rename" => importer[q].file # importer[p].file

\* A row covers lines of its file that the database has.
RowsSound == \A f \in Files : Covered(f) \subseteq content[f] \cap Stored

Filed == Unwritten /\ Uncreated /\ InPlace /\ StagedApart /\ RowsSound

\* A file that nobody touches keeps its writers.
LEMMA WritersSame ==
  ASSUME hook' = hook, NEW f PROVE NoWriter(f)' = NoWriter(f)
BY DEF NoWriter

\* The steps of hooks keep the files apart from what is not written yet.
LEMMA HookKeepsFiled ==
  ASSUME Typed, Filed, NEW h \in Records, HookStep(h) \/ HookDies(h)
  PROVE  Filed'
<1>0. /\ place \in [Files -> Place] /\ content \in [Files -> SUBSET Records]
      /\ db \in [Records -> Nat] /\ hook \in [Records -> HookState] /\ h \in Files
  BY DEF Typed, DiskTyped, HooksTyped, Files
<1>1. /\ \A g \in Records \ {h} : hook'[g] = hook[g]
      /\ UNCHANGED <<rows, importer>>
  BY HookWrites, HookKeeps
<1>2. \A f \in Files :
        \/ place'[f] = place[f]
        \/ place[f].at = "live" /\ place'[f].at \in {"live", "unlinked", "rotated"}
        \/ /\ f = h /\ hook[h].at \in BeforeOpen /\ hook'[h].at = "append"
           /\ place'[f].at = "live"
        \/ f \in Rotations /\ place[f].at = "absent" /\ place'[f].at = "live"
  BY HookFiles DEF RotatesTo, At
<1>3. InPlace' /\ StagedApart'
  <2>1. \A f \in Files : place[f].at \in {"temp", "claimed", "backup"} => place'[f] = place[f]
    BY <1>2 DEF Filed, Unwritten
  <2>2. \A p \in Importers :
          /\ importer[p].at \in Filing => importer[p].file \in Files
          /\ importer[p].at = "rename" => importer[p].file \in Files
    BY DEF Typed, ImportersTyped, ImporterInHand, Files
  <2>3. InPlace'
    BY <1>1, <2>1, <2>2 DEF Filed, InPlace
  <2>4. StagedApart'
    BY <1>1, <2>1, <2>2 DEF Filed, StagedApart
  <2>5. QED
    BY <2>3, <2>4
<1>4. \A g \in Records \ {h} : hook'[g].at \in BeforeOpen => place'[g].at = "absent"
  BY <1>0, <1>1, <1>2, SpillAssumption DEF Filed, Unwritten, Files, Records
<1> DEFINE Early(label) == label \in BeforeOpen \cup {"append"}
<1>5. \A r \in Records : Early(hook'[r].at) => Early(hook[r].at)
  BY <1>1, HookWrites DEF BeforeOpen
<1>6. \A r \in Records : Early(hook'[r].at) => \A g \in Records : r \notin hook'[g].tail
  <2>1. ASSUME NEW r \in Records, Early(hook'[r].at)
        PROVE  r \notin Accepted /\ \A g \in Records : r \notin hook[g].tail
    BY <1>5, <2>1 DEF Filed, Unwritten, Accepted
  <2>2. QED
    BY <1>1, <2>1, HookWrites
<1>7. \A f \in Files : Covered(f)' = Covered(f)
  BY <1>1 DEF Covered
<1>8. CASE db' = [db EXCEPT ![h] = @ + 1] /\ UNCHANGED <<content, kept, place>>
           /\ hook[h].at = "start" /\ hook'[h].at = "end"
  <2>0. db[h] = 0 /\ (\A f \in Files : h \notin content[f])
    BY <1>8 DEF Filed, Unwritten, BeforeOpen
  <2>1. db'[h] = 1 /\ \A r \in Records \ {h} : db'[r] = db[r]
    BY <1>0, <1>8, <2>0
  <2>2. Unwritten'
    BY <1>4, <1>5, <1>6, <1>8, <2>1 DEF Filed, Unwritten, BeforeOpen
  <2>3. Uncreated'
    BY <1>0, <1>1, <1>2, <1>8 DEF Filed, Uncreated, NoWriter
  <2>4. Stored' = Stored \cup {h}
    BY <1>0, <2>0, <2>1 DEF Stored
  <2>5. RowsSound'
    BY <1>7, <1>8, <2>4 DEF Filed, RowsSound
  <2>6. QED
    BY <1>3, <2>2, <2>3, <2>5 DEF Filed
<1>9. CASE content' = [content EXCEPT ![hook[h].fd] = @ \cup {h}] /\ UNCHANGED <<db, kept>>
           /\ hook[h].at = "append" /\ hook'[h].at \in {"list", "end"} /\ UNCHANGED place
  <2> DEFINE fd == hook[h].fd
  <2>0. fd \in Files /\ place[fd].at # "absent"
    BY <1>9 DEF Filed, Uncreated, NoWriter, Typed, HooksTyped, HookInHand
  <2>1. content'[fd] = content[fd] \cup {h} /\ \A f \in Files \ {fd} : content'[f] = content[f]
    BY <1>0, <1>9, <2>0
  <2> HIDE DEF fd
  <2>2. Unwritten'
    <3>1. ~Early(hook'[h].at)
      BY <1>9 DEF BeforeOpen
    <3>2. QED
      BY <1>0, <1>4, <1>5, <1>6, <1>9, <2>0, <2>1, <3>1 DEF Filed, Unwritten
  <2>3. Uncreated'
    BY <1>0, <1>1, <1>9, <2>0, <2>1 DEF Filed, Uncreated, NoWriter
  <2>4. RowsSound'
    <3>1. Stored' = Stored
      BY <1>9 DEF Stored
    <3>2. QED
      BY <1>7, <3>1, <2>1 DEF Filed, RowsSound
  <2>5. QED
    BY <1>3, <2>2, <2>3, <2>4 DEF Filed
<1>10. CASE /\ \E f \in Files : RotatesTo(h, f)
            /\ UNCHANGED db /\ hook[h].at = "replace" /\ hook'[h].at = "open"
  <2>1. PICK f \in Files : RotatesTo(h, f)
    BY <1>10
  <2>2. /\ content[f] = {} /\ content'[f] = hook[h].tail /\ place'[f].at = "live"
        /\ \A g \in Files \ {f} : content'[g] = content[g]
    BY <1>0, <2>1 DEF RotatesTo, Filed, Uncreated, At
  <2>3. Unwritten'
    <3>1. place'[h].at = "absent"
      BY <1>0, <1>2, <1>10, SpillAssumption DEF Filed, Unwritten, BeforeOpen, Records
    <3>2. QED
      BY <1>4, <1>5, <1>6, <1>10, <2>2, <3>1 DEF Filed, Unwritten
  <2>4. Uncreated'
    <3>1. \A g \in Files : place'[g].at = "absent" => g # f /\ place[g].at = "absent"
      BY <1>2, <2>2
    <3>2. QED
      BY <1>1, <1>10, <2>2, <3>1 DEF Filed, Uncreated, NoWriter
  <2>5. RowsSound'
    <3>1. Stored' = Stored
      BY <1>10 DEF Stored
    <3>2. QED
      BY <1>7, <2>2, <3>1 DEF Filed, RowsSound
  <2>6. QED
    BY <1>3, <2>3, <2>4, <2>5 DEF Filed
<1>11. CASE /\ UNCHANGED <<db, content, kept>>
            /\ hook'[h].at \in BeforeOpen => hook[h].at \in BeforeOpen
            /\ hook'[h].at = "append" =>
                 /\ hook[h].at \in BeforeOpen
                 /\ hook'[h].fd \in Files /\ place'[hook'[h].fd].at = "live"
                 /\ hook'[h].fd = h \/ place[hook'[h].fd] = place'[hook'[h].fd]
  <2>1. hook'[h].at \in BeforeOpen => place'[h].at = "absent"
    BY <1>0, <1>2, <1>11, SpillAssumption DEF Filed, Unwritten, BeforeOpen, Records
  <2>2. Unwritten'
    BY <1>4, <1>5, <1>6, <1>11, <2>1 DEF Filed, Unwritten
  <2>3. Uncreated'
    BY <1>0, <1>1, <1>2, <1>11 DEF Filed, Uncreated, NoWriter
  <2>4. RowsSound'
    BY <1>7, <1>11 DEF Filed, RowsSound, Stored
  <2>5. QED
    BY <1>3, <2>2, <2>3, <2>4 DEF Filed
<1>12. QED
  BY <1>8, <1>9, <1>10, <1>11, HookWrites

\* What an import does to the counts and to the row of its file.
LEMMA LinesStored ==
  ASSUME Typed, NEW f \in Files, ImportLines(f)
  PROVE  /\ \A r \in Records : db'[r] = IF r \in content[f] \ Covered(f) THEN db[r] + 1 ELSE db[r]
         /\ Stored' = Stored \cup (content[f] \ Covered(f))
         /\ \A g \in Files : rows'[g] = IF g = f THEN content[f] ELSE rows[g]
<1>0. /\ content \in [Files -> SUBSET Records] /\ rows \in [Files -> {None} \cup SUBSET Records]
      /\ db \in [Records -> Nat]
  BY DEF Typed, DiskTyped
<1>1. \A r \in Records : db'[r] = IF r \in content[f] \ Covered(f) THEN db[r] + 1 ELSE db[r]
  BY <1>0 DEF ImportLines
<1>2. Stored' = Stored \cup (content[f] \ Covered(f))
  BY <1>0, <1>1 DEF Stored
<1>3. QED
  BY <1>0, <1>1, <1>2 DEF ImportLines

\* A row names a set of records, or there is none.
LEMMA RowCovers ==
  ASSUME NEW f, rows[f] \in SUBSET Records PROVE Covered(f) = rows[f]
BY SpillAssumption DEF Covered, Records

\* The row of a file that an import has read covers the whole file.
LEMMA ImportCovers ==
  ASSUME Typed, NEW f \in Files, ImportLines(f), UNCHANGED content
  PROVE  /\ Covered(f)' = content[f]
         /\ \A g \in Files \ {f} : Covered(g)' = Covered(g)
<1>1. content[f] \in SUBSET Records
  BY DEF Typed, DiskTyped
<1>2. rows'[f] = content[f] /\ \A g \in Files \ {f} : rows'[g] = rows[g]
  BY LinesStored
<1>3. QED
  BY <1>1, <1>2, SpillAssumption DEF Covered, Records

\* The row of an export covers what it wrote.
LEMMA ExportCovers ==
  ASSUME Typed, NEW e \in Exports, rows' = RecordExport(e)
  PROVE  /\ Covered(e)' = Stored
         /\ \A g \in Files \ {e} : Covered(g)' = Covered(g)
<1>1. rows \in [Files -> {None} \cup SUBSET Records] /\ e \in Files /\ Stored \in SUBSET Records
  BY DEF Typed, DiskTyped, Files, Stored
<1>2. rows'[e] = Stored /\ \A g \in Files \ {e} : rows'[g] = rows[g]
  BY <1>1 DEF RecordExport
<1>3. QED
  BY <1>1, <1>2, SpillAssumption DEF Covered, Records

\* A file that an importer has claimed, or an export that is not placed yet,
\* stays so while a process has it in hand.
LEMMA FilesInHand ==
  ASSUME Typed, Filed, NEW p \in Importers, ImporterActs(p)
  PROVE  InPlace' /\ StagedApart'
<1>0. /\ place \in [Files -> Place]
      /\ \A q \in Importers : importer[q].at \in Filing => importer[q].file \in Files
      /\ \A q \in Importers : importer[q].at = "rename" =>
            importer[q].file \in Exports /\ place[importer[q].file].at = "temp"
      /\ Exports \subseteq Files
  BY DEF Filed, StagedApart, Typed, DiskTyped, ImportersTyped, ImporterInHand, Files
<1>1. \A f \in Files :
        place[f].at \in {"claimed", "backup"} => place'[f].at \in {"claimed", "backup"}
  BY <1>0, ImporterFiles DEF At
<1>2. InPlace'
  BY <1>0, <1>1, ImporterHolds DEF Filed, InPlace
<1>3. ASSUME NEW q \in Importers, importer'[q].at = "rename"
      PROVE  \/ q # p /\ importer[q].at = "rename" /\ importer'[q].file = importer[q].file
             \/ /\ q = p /\ importer'[q].file \in Exports /\ place[importer'[q].file].at = "absent"
                /\ place'[importer'[q].file].at = "temp"
  BY <1>0, <1>3, ImporterStages DEF At
<1>4. ASSUME NEW q \in Importers, importer'[q].at = "rename"
      PROVE  place'[importer'[q].file].at = "temp"
  <2>1. CASE q # p /\ importer[q].at = "rename" /\ importer'[q].file = importer[q].file
    <3>1. PICK e \in Exports : e = importer[q].file /\ place[e].at = "temp"
      BY <1>0, <2>1
    <3>2. importer[p].at = "rename" => importer[p].file # e
      BY <2>1, <3>1 DEF Filed, StagedApart
    <3>3. importer[p].at = "backup" => importer[p].file # e
      BY <3>1 DEF Filed, InPlace, Filing
    <3>4. place'[e] = place[e]
      BY <1>0, <3>1, <3>2, <3>3, ImporterFiles DEF At
    <3>5. QED
      BY <2>1, <3>1, <3>4
  <2>2. QED
    BY <1>3, <1>4, <2>1
<1>5. ASSUME NEW q \in Importers, importer'[q].at = "rename",
             NEW r \in Importers \ {q}, importer'[r].at = "rename"
      PROVE  importer'[r].file # importer'[q].file
  BY <1>0, <1>3, <1>5 DEF Filed, StagedApart
<1>6. StagedApart'
  BY <1>4, <1>5 DEF StagedApart
<1>7. QED
  BY <1>2, <1>6

\* ... and so do the steps of importers.
LEMMA ImporterKeepsFiled ==
  ASSUME Typed, Filed, NEW p \in Importers, ImporterActs(p)
  PROVE  Filed'
<1>0. /\ place \in [Files -> Place] /\ content \in [Files -> SUBSET Records]
      /\ db \in [Records -> Nat] /\ rows \in [Files -> {None} \cup SUBSET Records]
      /\ hook' = hook
  BY ImporterKeeps DEF Typed, DiskTyped
<1>1. \A f \in Files :
         \/ place'[f] = place[f]
         \/ place[f].at # "absent" /\ place'[f].at # "absent"
         \/ f \in Exports /\ place[f].at = "absent" /\ place'[f].at # "absent"
         \/ f \in Exports /\ importer[p].at = "rename" /\ place'[f].at # "absent"
  <2>1. importer[p].at = "backup" => place[importer[p].file].at # "absent"
    BY DEF Filed, InPlace, Filing
  <2>2. QED
    BY <1>0, <2>1, ImporterFiles DEF At
<1>2. InPlace' /\ StagedApart'
  BY FilesInHand
<1>3. \A h \in Records : hook'[h].at \in BeforeOpen => place'[h].at = "absent"
  BY <1>0, <1>1, SpillAssumption DEF Filed, Unwritten, Files, Records
<1>4. ASSUME NEW f \in Files, ImportLines(f), UNCHANGED <<content, kept, place>>
      PROVE  Filed'
  <2>1. /\ \A r \in Records : r \notin content[f] => db'[r] = db[r]
        /\ Stored' = Stored \cup (content[f] \ Covered(f))
    BY <1>4, LinesStored
  <2>2. Unwritten'
    BY <1>0, <1>3, <1>4, <2>1 DEF Filed, Unwritten
  <2>3. Uncreated'
    BY <1>0, <1>4 DEF Filed, Uncreated, NoWriter
  <2>4. RowsSound'
    BY <1>4, <2>1, ImportCovers DEF Filed, RowsSound
  <2>5. QED
    BY <1>2, <2>2, <2>3, <2>4 DEF Filed
<1>5. ASSUME NEW e \in Exports, place[e].at = "absent",
             place' = [place EXCEPT ![e] = At("temp", Main)],
             content' = [content EXCEPT ![e] = Stored], rows' = RecordExport(e), UNCHANGED db
      PROVE  Filed'
  <2>1. e \in Files /\ Stored' = Stored
    BY <1>5 DEF Files, Stored
  <2>2. content'[e] = Stored /\ \A f \in Files \ {e} : content'[f] = content[f]
    BY <1>0, <1>5, <2>1
  <2>3. Unwritten'
    BY <1>0, <1>3, <1>5, <2>1, <2>2 DEF Filed, Unwritten, Stored
  <2>4. Uncreated'
    BY <1>0, <1>1, <1>5, <2>1, <2>2 DEF Filed, Uncreated, NoWriter, At
  <2>5. RowsSound'
    BY <1>5, <2>1, <2>2, ExportCovers DEF Filed, RowsSound
  <2>6. QED
    BY <1>2, <2>3, <2>4, <2>5 DEF Filed
<1>6. CASE UNCHANGED <<rows, db, content>>
  <2>1. Unwritten'
    BY <1>0, <1>3, <1>6 DEF Filed, Unwritten
  <2>2. Uncreated'
    BY <1>0, <1>1, <1>6 DEF Filed, Uncreated, NoWriter
  <2>3. RowsSound'
    BY <1>6 DEF Filed, RowsSound, Covered, Stored
  <2>4. QED
    BY <1>2, <2>1, <2>2, <2>3 DEF Filed
<1>7. QED
  BY <1>4, <1>5, <1>6, ImporterWrites

\* At the start nothing is written.
LEMMA InitFiled == Init => Filed
<1> SUFFICES ASSUME Init PROVE Filed
  OBVIOUS
<1>1. Unwritten /\ Uncreated /\ InPlace /\ StagedApart
  BY DEF Init, Unwritten, Uncreated, NoWriter, InPlace, StagedApart, IdleHook,
     IdleImporter, At, Filing, Files
<1>2. RowsSound
  BY DEF Init, RowsSound, Covered
<1>3. QED
  BY <1>1, <1>2 DEF Filed

\* Every step keeps what is not written apart from the files.
LEMMA StepFiled == Typed /\ Filed /\ [Next]_vars => Filed'
<1> SUFFICES ASSUME Typed, Filed, [Next]_vars PROVE Filed'
  OBVIOUS
<1>1. CASE UNCHANGED vars
  BY <1>1 DEF vars, Filed, Unwritten, Uncreated, NoWriter, InPlace, StagedApart, RowsSound,
     Covered, Stored
<1>2. QED
  BY <1>1, StepCases, HookKeepsFiled, ImporterKeepsFiled

\* A line was appended to a file by its hook, or copied there by an export,
\* whose row covers it, or by a rotation.
Appended(f) == content[f] \ kept[f]
KeptSound ==
  \A f \in Files :
    /\ kept[f] \subseteq content[f]
    /\ f \in Records => kept[f] = {}
    /\ f \in Exports => kept[f] \subseteq Covered(f)

\* A hook appends its line to one file.
OneHome ==
  \A f, g \in Files, r \in Records : r \in Appended(f) /\ r \in Appended(g) => f = g

\* What is left to be stored of the line itself, and what rotations brought back.
NotYet(r) ==
  /\ \A f \in Files : r \notin Covered(f) \ kept[f]
  /\ hook[r].at \in Ended => \E f \in Files : r \in Appended(f)
Again(r) == {t \in Rotations : r \in kept[t] \cap Covered(t)}
Counts ==
  \A r \in Records :
    /\ db[r] <= 1 + Cardinality(Again(r))
    /\ NotYet(r) => db[r] <= Cardinality(Again(r))

Counted == KeptSound /\ OneHome /\ Counts

\* There are as many of them as there are files of rotations, at most.
LEMMA AgainFinite ==
  ASSUME NEW r PROVE IsFiniteSet(Again(r)) /\ Cardinality(Again(r)) \in Nat
BY SpillAssumption, FS_Subset, FS_CardinalityType DEF Again

\* The steps of hooks count nothing twice.
LEMMA HookKeepsCounted ==
  ASSUME Typed, Filed, Counted, NEW h \in Records, HookStep(h) \/ HookDies(h)
  PROVE  Counted'
<1>0. /\ content \in [Files -> SUBSET Records] /\ kept \in [Files -> SUBSET Records]
      /\ db \in [Records -> Nat] /\ hook \in [Records -> HookState]
  BY DEF Typed, DiskTyped, HooksTyped
<1>1. /\ \A g \in Records \ {h} : hook'[g] = hook[g]
      /\ \A f \in Files : Covered(f)' = Covered(f)
      /\ \A r \in Records : hook[r].at \in Ended => hook'[r].at \in Ended
  BY HookWrites, HookKeeps DEF Covered
<1>2. \A r \in Records : Cardinality(Again(r)) \in Nat
  BY AgainFinite
<1>3. CASE UNCHANGED <<content, kept>>
  <2>1. KeptSound' /\ OneHome'
    BY <1>1, <1>3 DEF Counted, KeptSound, OneHome, Appended
  <2>2. \A r \in Records : Again(r)' = Again(r)
    BY <1>1, <1>3 DEF Again, Files
  <2>3. \A r \in Records : NotYet(r)' => NotYet(r)
    BY <1>1, <1>3 DEF NotYet, Appended
  <2>4. CASE UNCHANGED db
    BY <2>1, <2>2, <2>3, <2>4 DEF Counted, Counts
  <2>5. CASE db' = [db EXCEPT ![h] = @ + 1] /\ hook[h].at = "start" /\ hook'[h].at = "end"
    <3>1. db[h] = 0 /\ \A f \in Files : h \notin content[f]
      BY <2>5 DEF Filed, Unwritten, BeforeOpen
    <3>2. ~NotYet(h)'
      BY <1>3, <2>5, <3>1 DEF NotYet, Appended, Ended
    <3>3. db'[h] = 1 /\ \A r \in Records \ {h} : db'[r] = db[r]
      BY <1>0, <2>5, <3>1
    <3>4. Counts'
      BY <1>2, <2>2, <2>3, <3>2, <3>3 DEF Counted, Counts
    <3>5. QED
      BY <2>1, <3>4 DEF Counted
  <2>6. QED
    BY <1>3, <2>4, <2>5, HookWrites
<1>4. CASE content' = [content EXCEPT ![hook[h].fd] = @ \cup {h}] /\ UNCHANGED <<db, kept>>
           /\ hook[h].at = "append" /\ hook'[h].at \in {"list", "end"} /\ UNCHANGED place
  <2> DEFINE fd == hook[h].fd
  <2>1. fd \in Files /\ db[h] = 0 /\ \A f \in Files : h \notin content[f]
    BY <1>4 DEF Filed, Unwritten, Typed, HooksTyped, HookInHand
  <2>2. content'[fd] = content[fd] \cup {h} /\ \A f \in Files \ {fd} : content'[f] = content[f]
    BY <1>0, <1>4, <2>1
  <2> HIDE DEF fd
  <2>3. KeptSound'
    BY <1>1, <1>4, <2>1, <2>2 DEF Counted, KeptSound
  <2>4. OneHome'
    BY <1>4, <2>1, <2>2 DEF Counted, OneHome, Appended
  <2>5. \A r \in Records : Again(r)' = Again(r)
    BY <1>1, <1>4 DEF Again, Files
  <2>6. \A r \in Records \ {h} : NotYet(r)' => NotYet(r)
    BY <1>1, <1>4, <2>1, <2>2 DEF NotYet, Appended
  <2>7. Counts'
    BY <1>2, <1>4, <2>1, <2>5, <2>6 DEF Counted, Counts
  <2>8. QED
    BY <2>3, <2>4, <2>7 DEF Counted
<1>5. ASSUME NEW f \in Files, RotatesTo(h, f), UNCHANGED db
      PROVE  Counted'
  <2>1. f \in Rotations /\ content[f] = {} /\ kept[f] = {} /\ Covered(f) = {}
    BY <1>5 DEF RotatesTo, Filed, Uncreated, RowsSound, Counted, KeptSound
  <2>2. /\ content'[f] = hook[h].tail /\ kept'[f] = hook[h].tail
        /\ \A g \in Files \ {f} : content'[g] = content[g] /\ kept'[g] = kept[g]
    BY <1>0, <1>5 DEF RotatesTo
  <2>3. KeptSound'
    BY <1>1, <2>1, <2>2, SpillAssumption DEF Counted, KeptSound, Records
  <2>4. OneHome'
    BY <2>2 DEF Counted, OneHome, Appended
  <2>5. \A r \in Records : Again(r)' = Again(r)
    <3>1. \A r \in Records : \A t \in Rotations : t \in Again(r)' <=> t \in Again(r)
      BY <1>1, <2>1, <2>2 DEF Again, Files
    <3>2. QED
      BY <3>1 DEF Again
  <2>6. \A r \in Records : NotYet(r)' => NotYet(r)
    BY <1>1, <2>1, <2>2 DEF NotYet, Appended
  <2>7. Counts'
    BY <1>5, <2>5, <2>6 DEF Counted, Counts
  <2>8. QED
    BY <2>3, <2>4, <2>7 DEF Counted
<1>6. QED
  BY <1>3, <1>4, <1>5, HookWrites

\* An import counts the line itself once, and a line that a rotation kept once.
LEMMA ImportCounts ==
  ASSUME Typed, Filed, Counted, NEW f \in Files, ImportLines(f), UNCHANGED <<content, kept, hook>>
  PROVE  Counted'
<1>0. content \in [Files -> SUBSET Records] /\ db \in [Records -> Nat]
  BY DEF Typed, DiskTyped
<1>1. /\ Covered(f)' = content[f] /\ Covered(f) \subseteq content[f]
      /\ \A g \in Files \ {f} : Covered(g)' = Covered(g)
  BY ImportCovers DEF Filed, RowsSound
<1>2. \A r \in Records : db'[r] = IF r \in content[f] \ Covered(f) THEN db[r] + 1 ELSE db[r]
  BY LinesStored
<1>3. \A r \in Records : IsFiniteSet(Again(r)) /\ Cardinality(Again(r)) \in Nat
  BY AgainFinite
<1>4. KeptSound' /\ OneHome'
  BY <1>1 DEF Counted, KeptSound, OneHome, Appended
<1>5. ASSUME NEW r \in Records, NotYet(r)' PROVE NotYet(r)
  BY <1>1, <1>5 DEF NotYet, Appended
<1>6. ASSUME NEW r \in Records, r \notin content[f] \ Covered(f)
      PROVE  db'[r] = db[r] /\ Again(r)' = Again(r)
  <2>1. \A t \in Rotations : t \in Again(r)' <=> t \in Again(r)
    BY <1>1, <1>6 DEF Again, Files
  <2>2. QED
    BY <1>2, <1>6, <2>1 DEF Again
<1>7. ASSUME NEW r \in Records, r \in content[f] \ Covered(f), r \in kept[f]
      PROVE  db'[r] = db[r] + 1 /\ Cardinality(Again(r)') = Cardinality(Again(r)) + 1
  <2>1. f \in Rotations
    BY <1>7 DEF Counted, KeptSound, Files
  <2>2. f \notin Again(r)
    BY <1>7 DEF Again
  <2>3. \A t \in Rotations : t \in Again(r)' <=> t \in Again(r) \cup {f}
    BY <1>1, <1>7, <2>1 DEF Again, Files
  <2>4. Again(r)' = Again(r) \cup {f}
    BY <2>1, <2>3 DEF Again
  <2>5. QED
    BY <1>2, <1>3, <1>7, <2>2, <2>4, FS_AddElement
<1>8. ASSUME NEW r \in Records, r \in content[f] \ Covered(f), r \notin kept[f]
      PROVE  /\ db'[r] = db[r] + 1 /\ Again(r)' = Again(r)
             /\ NotYet(r) /\ ~NotYet(r)'
  <2>1. r \in Appended(f)
    BY <1>8 DEF Appended
  <2>2. \A g \in Files : r \notin Covered(g) \ kept[g]
    <3>1. \A g \in Files : r \in Covered(g) \ kept[g] => r \in Appended(g)
      BY DEF Filed, RowsSound, Appended
    <3>2. QED
      BY <1>8, <2>1, <3>1 DEF Counted, OneHome
  <2>3. \A t \in Rotations : t \in Again(r)' <=> t \in Again(r)
    BY <1>1, <1>8 DEF Again, Files
  <2>4. QED
    BY <1>1, <1>2, <1>8, <2>1, <2>2, <2>3 DEF Again, NotYet
<1>9. Counts'
  BY <1>0, <1>3, <1>5, <1>6, <1>7, <1>8 DEF Counted, Counts
<1>10. QED
  BY <1>4, <1>9 DEF Counted

\* ... and so do the other steps of importers.
LEMMA ImporterKeepsCounted ==
  ASSUME Typed, Filed, Counted, NEW p \in Importers, ImporterActs(p)
  PROVE  Counted'
<1>0. /\ content \in [Files -> SUBSET Records] /\ kept \in [Files -> SUBSET Records]
      /\ hook' = hook
  BY ImporterKeeps DEF Typed, DiskTyped
<1>1. ASSUME NEW f \in Files, ImportLines(f), UNCHANGED <<content, kept, place>>
      PROVE  Counted'
  BY <1>0, <1>1, ImportCounts
<1>2. ASSUME NEW e \in Exports, place[e].at = "absent", rows' = RecordExport(e), UNCHANGED db,
             content' = [content EXCEPT ![e] = Stored], kept' = [kept EXCEPT ![e] = Stored]
      PROVE  Counted'
  <2>1. e \in Files /\ content[e] = {} /\ e \notin Rotations /\ e \notin Records /\ Covered(e) = {}
    BY <1>2, SpillAssumption DEF Filed, Uncreated, RowsSound, Files, Records
  <2>2. /\ content'[e] = Stored /\ kept'[e] = Stored
        /\ \A g \in Files \ {e} : content'[g] = content[g] /\ kept'[g] = kept[g]
    BY <1>0, <1>2, <2>1
  <2>3. Covered(e)' = Stored /\ \A g \in Files \ {e} : Covered(g)' = Covered(g)
    BY <1>2, ExportCovers
  <2>4. KeptSound'
    BY <2>1, <2>2, <2>3 DEF Counted, KeptSound
  <2>5. OneHome'
    BY <2>2 DEF Counted, OneHome, Appended
  <2>6. \A r \in Records : Again(r)' = Again(r)
    BY <2>1, <2>2, <2>3 DEF Again, Files
  <2>7. \A r \in Records : NotYet(r)' => NotYet(r)
    BY <1>0, <2>1, <2>2, <2>3 DEF NotYet, Appended
  <2>8. Counts'
    BY <1>2, <2>6, <2>7 DEF Counted, Counts
  <2>9. QED
    BY <2>4, <2>5, <2>8 DEF Counted
<1>3. CASE UNCHANGED <<rows, db, content, kept>>
  BY <1>0, <1>3 DEF Counted, KeptSound, OneHome, Counts, Appended, Again, NotYet, Covered
<1>4. QED
  BY <1>1, <1>2, <1>3, ImporterWrites

\* At the start no record is counted.
LEMMA InitCounted == Init => Counted
<1> SUFFICES ASSUME Init PROVE Counted
  OBVIOUS
<1>1. KeptSound /\ OneHome
  BY DEF Init, KeptSound, OneHome, Appended
<1>2. Counts
  BY AgainFinite DEF Init, Counts
<1>3. QED
  BY <1>1, <1>2 DEF Counted

\* Every step keeps the counts.
LEMMA StepCounted == Typed /\ Filed /\ Counted /\ [Next]_vars => Counted'
<1> SUFFICES ASSUME Typed, Filed, Counted, [Next]_vars PROVE Counted'
  OBVIOUS
<1>1. CASE UNCHANGED vars
  BY <1>1 DEF vars, Counted, KeptSound, OneHome, Counts, Appended, Again, NotYet, Covered
<1>2. QED
  BY <1>1, StepCases, HookKeepsCounted, ImporterKeepsCounted

\* Importers that meet at a claim, die in the middle or find a file that grew,
\* and exports that repeat what is stored, never store a record twice: a line
\* is appended to one file, whose row covers it once it is stored.  A rotation
\* of the previous release makes a file without a row, so each one that kept
\* the line can store it once more.  It holds whichever races are lost.
THEOREM StoredOnce == Spec => []ImportedOnce
<1>1. Typed /\ Counted => ImportedOnce
  <2> SUFFICES ASSUME Typed, Counted, NEW r \in Records
               PROVE  db[r] <= 1 + Cardinality({t \in Rotations : r \in kept[t]})
    BY DEF ImportedOnce
  <2> DEFINE T == {t \in Rotations : r \in kept[t]}
  <2>1. IsFiniteSet(T) /\ Cardinality(T) \in Nat
    BY SpillAssumption, FS_Subset, FS_CardinalityType
  <2>2. Again(r) \in SUBSET T
    BY DEF Again
  <2>3. Cardinality(Again(r)) <= Cardinality(T) /\ Cardinality(Again(r)) \in Nat
    BY <2>1, <2>2, AgainFinite, FS_Subset
  <2>4. db[r] <= 1 + Cardinality(Again(r)) /\ db[r] \in Nat
    BY DEF Counted, Counts, Typed, DiskTyped
  <2> HIDE DEF T
  <2>5. db[r] <= 1 + Cardinality(T)
    BY <2>1, <2>3, <2>4
  <2>6. QED
    BY <2>5 DEF T
<1>2. QED
  BY <1>1, InitTyped, StepTyped, InitFiled, StepFiled, InitCounted, StepCounted, PTL DEF Spec

-----------------------------------------------------------------------------
(* The bound drops the oldest segments, if no hook stalls between the time  *)
(* that names its segment and the rename while a later one is sealed.       *)

\* Every file with the name of a segment was sealed.
NamesSealed == \A f \in Files : place[f].name \in Segments => place[f].name \in sealed

\* A hook that is about to seal has a name of its own, newer than all so far.
NextIsNewest ==
  \A h \in Records : hook[h].at = "rename" =>
    /\ hook[h].stamp <= stamps
    /\ \A n \in sealed : n < hook[h].stamp
    /\ \A g \in Records \ {h} : hook[g].at = "rename" => hook[g].stamp # hook[h].stamp

\* Segments are sealed in the order of their names.
SealedInOrder ==
  /\ \A n \in sealed : n <= stamps
  /\ \A n, m \in sealed : n < m => m \in later[n]

\* Each segment that is to be unlinked, or is, has enough newer ones.
Old(n) == Cardinality(later[n]) >= MaxSegments
OnlyOldGo ==
  /\ \A h \in Records : \A n \in hook[h].victims : Old(n)
  /\ \A f \in Files : place[f].at = "unlinked" /\ place[f].name \in Segments => Old(place[f].name)

InOrder == NamesSealed /\ NextIsNewest /\ SealedInOrder /\ OnlyOldGo

\* A segment that the listing puts among the oldest has enough newer ones.
LEMMA ListedOld ==
  ASSUME Typed, NamesSealed, SealedInOrder, NEW n \in Victims
  PROVE  n \in Segments /\ Old(n)
<1> DEFINE newer == {m \in SealedSegments : m > n}
<1>1. n \in SealedSegments /\ Cardinality(newer) >= MaxSegments
  BY DEF Victims
<1>2. SealedSegments \subseteq sealed
  <2>1. ASSUME NEW m \in SealedSegments PROVE m \in sealed
    <3>1. m \in Segments /\ Exists("live", m)
      BY DEF SealedSegments
    <3>2. TheFile("live", m) \in Files /\ place[TheFile("live", m)].name = m
      BY ONLY <3>1, FileThere
    <3>3. QED
      BY <3>1, <3>2 DEF NamesSealed
  <2>2. QED
    BY <2>1
<1>3. n \in Segments /\ Segments \subseteq Nat /\ sealed \subseteq Segments
  BY <1>1, NamesAre DEF SealedSegments, Typed, DiskTyped
<1>4. newer \in SUBSET (later[n])
  <2>1. ASSUME NEW m \in newer PROVE m \in later[n]
    <3>1. m \in sealed /\ n \in sealed /\ n < m
      BY <1>1, <1>2, <1>3
    <3>2. QED
      BY <3>1 DEF SealedInOrder
  <2>2. QED
    BY <2>1
<1>5. IsFiniteSet(later[n])
  BY <1>3, NamesAre, FS_Subset DEF Typed, DiskTyped
<1>6. Cardinality(newer) <= Cardinality(later[n])
      /\ Cardinality(newer) \in Nat /\ Cardinality(later[n]) \in Nat /\ MaxSegments \in Nat
  BY <1>4, <1>5, FS_Subset, FS_CardinalityType, SpillAssumption
<1> HIDE DEF newer
<1>7. QED
  BY <1>1, <1>3, <1>6 DEF Old

\* What was sealed after a segment stays so.
LEMMA OldStays ==
  ASSUME Typed, Typed', \A n \in Segments : later[n] \subseteq later'[n]
  PROVE  \A n \in Segments : Old(n) => Old(n)'
<1> SUFFICES ASSUME NEW n \in Segments, Old(n) PROVE Old(n)'
  OBVIOUS
<1>1. IsFiniteSet(later'[n])
  BY NamesAre, FS_Subset DEF Typed, DiskTyped
<1>2. Cardinality(later[n]) <= Cardinality(later'[n])
      /\ Cardinality(later[n]) \in Nat /\ Cardinality(later'[n]) \in Nat
  BY <1>1, FS_Subset, FS_CardinalityType
<1>3. QED
  BY <1>2, SpillAssumption DEF Old

\* A seal gives a file the newest name there is.
LEMMA SealKeepsOrder ==
  ASSUME "stamp" \notin Windows, Typed, Typed', InOrder, NEW h \in Records, Seal(h)
  PROVE  InOrder'
<1> DEFINE n == hook[h].stamp
<1>0. /\ place \in [Files -> Place] /\ hook \in [Records -> HookState] /\ n \in Segments
      /\ Segments \subseteq Nat /\ stamps \in Nat /\ Open \notin Segments
      /\ sealed \subseteq Segments /\ later \in [Segments -> SUBSET Segments]
      /\ h \in NewHooks /\ hook[h].at = "rename"
  BY NamesAre DEF Seal, Typed, DiskTyped, HooksTyped, HookInHand, OldLabel, Records
<1>1. /\ \A g \in Records \ {h} : hook'[g] = hook[g]
      /\ hook'[h].at = "open" /\ hook'[h].victims = hook[h].victims
      /\ UNCHANGED stamps
  BY <1>0 DEF Seal, HookState
<1>2. \A m \in sealed : m < n
  BY <1>0 DEF InOrder, NextIsNewest
<1>3. ASSUME NEW g \in Records \ {h}, hook[g].at = "rename" PROVE n < hook[g].stamp
  <2>1. g \in NewHooks /\ hook[g].stamp \in Segments
    BY <1>3 DEF Typed, HooksTyped, HookInHand, OldLabel, Records
  <2>2. n <= hook[g].stamp
    BY <1>3, <2>1 DEF Seal
  <2>3. n # hook[g].stamp
    BY <1>0, <1>3 DEF InOrder, NextIsNewest
  <2>4. n \in Nat /\ hook[g].stamp \in Nat
    BY <1>0, <2>1
  <2>5. QED
    BY <2>2, <2>3, <2>4
<1>4. CASE UNCHANGED <<place, sealed, later>>
  BY <1>0, <1>1, <1>4 DEF InOrder, NamesSealed, NextIsNewest, SealedInOrder, OnlyOldGo, Old
<1>5. CASE ~UNCHANGED <<place, sealed, later>>
  <2>1. /\ Exists("live", Open)
        /\ place' = [place EXCEPT ![TheFile("live", Open)] = At("live", n)]
        /\ sealed' = sealed \cup {n}
        /\ later' = [m \in Segments |-> IF m \in sealed THEN later[m] \cup {n} ELSE later[m]]
    BY <1>5 DEF Seal
  <2>2. \A f \in Files : place'[f] = place[f] \/ place'[f] = At("live", n)
    BY <1>0, <2>1
  <2>3. NamesSealed'
    BY <2>1, <2>2 DEF InOrder, NamesSealed, At
  <2>4. NextIsNewest'
    <3>1. ASSUME NEW g \in Records, hook'[g].at = "rename"
          PROVE  g # h /\ hook'[g] = hook[g] /\ hook[g].at = "rename"
      BY <1>1, <3>1
    <3>2. ASSUME NEW g \in Records, hook'[g].at = "rename" PROVE \A m \in sealed' : m < hook'[g].stamp
      BY <1>3, <2>1, <3>1, <3>2 DEF InOrder, NextIsNewest
    <3>3. QED
      BY <1>1, <3>1, <3>2 DEF InOrder, NextIsNewest
  <2>5. SealedInOrder'
    <3>1. n <= stamps
      BY <1>0 DEF InOrder, NextIsNewest
    <3>2. ASSUME NEW k \in sealed', NEW m \in sealed', k < m PROVE m \in later'[k]
      <4>1. k \in sealed
        BY <1>0, <1>2, <2>1, <3>2
      <4>2. CASE m = n
        BY <1>0, <2>1, <4>1, <4>2
      <4>3. CASE m \in sealed
        BY <1>0, <2>1, <3>2, <4>1, <4>3 DEF InOrder, SealedInOrder
      <4>4. QED
        BY <2>1, <4>2, <4>3
    <3>3. QED
      BY <1>1, <2>1, <3>1, <3>2 DEF InOrder, SealedInOrder
  <2>6. OnlyOldGo'
    <3>1. \A m \in Segments : later[m] \subseteq later'[m]
      BY <1>0, <2>1
    <3>2. \A m \in Segments : Old(m) => Old(m)'
      BY <3>1, OldStays
    <3>3. \A g \in Records : hook'[g].victims = hook[g].victims /\ hook[g].victims \subseteq Segments
      BY <1>0, <1>1 DEF HookState
    <3>4. QED
      BY <2>2, <3>2, <3>3 DEF InOrder, OnlyOldGo, At
  <2>7. QED
    BY <2>3, <2>4, <2>5, <2>6 DEF InOrder
<1>6. QED
  BY <1>4, <1>5

\* The other steps of a hook give no file the name of a segment.
LEMMA HookKeepsNames ==
  ASSUME Typed, NEW h \in Records, HookStep(h) \/ HookDies(h), ~Seal(h)
  PROVE  /\ UNCHANGED <<sealed, later>>
         /\ \A f \in Files : place'[f].name \in Segments =>
              \/ place'[f] = place[f]
              \/ /\ place[f].name = place'[f].name /\ place'[f].name \in hook[h].victims
<1>0. /\ place \in [Files -> Place] /\ Segments \subseteq Nat
      /\ Main \notin Segments /\ Open \notin Segments /\ hook[h].victims \subseteq Segments
  BY NamesAre DEF Typed, DiskTyped, HooksTyped, HookState
<1>1. UNCHANGED <<sealed, later>>
  BY DEF HookStep, WriteDb, Spill, CheckSeal, Stamp, OpenSpill, CheckMain, ReadTail, Rotate,
     OpenMain, OpenForAppend, AppendLine, ListVictims, UnlinkVictim, HookDies, segments
<1>2. ASSUME NEW name \in {Main, Open}, OpenForAppend(h, name), NEW f \in Files,
             place'[f].name \in Segments
      PROVE  place'[f] = place[f]
  BY <1>0, <1>2 DEF OpenForAppend, At
<1>3. ASSUME UnlinkVictim(h), NEW f \in Files
      PROVE  \/ place'[f] = place[f]
             \/ /\ place[f].name = place'[f].name /\ place'[f].name \in hook[h].victims
  <2>1. UNCHANGED place \/ \E n \in hook[h].victims :
          /\ Exists("live", n)
          /\ place' = [place EXCEPT ![TheFile("live", n)] = At("unlinked", n)]
    <3>1. hook[h].victims # {} => Min(hook[h].victims) \in hook[h].victims
      BY <1>0, MinIsMember
    <3>2. QED
      BY <1>3, <3>1 DEF UnlinkVictim
  <2>2. ASSUME NEW n, Exists("live", n) PROVE place[TheFile("live", n)].name = n
    BY <2>2, FileThere
  <2>3. QED
    BY <1>0, <2>1, <2>2 DEF At
<1>4. ASSUME Rotate(h), NEW f \in Files, place'[f].name \in Segments PROVE place'[f] = place[f]
  BY <1>0, <1>4 DEF Rotate, At
<1>5. QED
  BY <1>1, <1>2, <1>3, <1>4 DEF HookStep, WriteDb, Spill, CheckSeal, Stamp, OpenSpill, CheckMain,
     ReadTail, OpenMain, AppendLine, ListVictims, HookDies

\* ... and leave a name to a hook that takes a new one, or has one already.
LEMMA HookKeepsVictims ==
  ASSUME Typed, NEW h \in Records, HookStep(h) \/ HookDies(h)
  PROVE  /\ stamps <= stamps'
         /\ hook'[h].at = "rename" =>
              \/ hook[h].at = "rename" /\ hook'[h].stamp = hook[h].stamp
              \/ hook'[h].stamp = stamps + 1 /\ stamps' = stamps + 1
         /\ \A n \in hook'[h].victims : n \in hook[h].victims \/ n \in Victims
<1>0. hook \in [Records -> HookState] /\ stamps \in Nat
  BY NamesAre DEF Typed, HooksTyped, DiskTyped
<1>1. QED
  BY <1>0 DEF HookState, IdleHook, HookStep, WriteDb, Spill, CheckSeal, Stamp, Seal, OpenSpill,
     CheckMain, ReadTail, Rotate, OpenMain, OpenForAppend, AppendLine, ListVictims, UnlinkVictim,
     HookDies, segments

\* Every step keeps the order.
LEMMA StepInOrder ==
  ASSUME "stamp" \notin Windows
  PROVE  Typed /\ Typed' /\ InOrder /\ [Next]_vars => InOrder'
<1> SUFFICES ASSUME Typed, Typed', InOrder, [Next]_vars PROVE InOrder'
  OBVIOUS
<1>0. /\ hook \in [Records -> HookState] /\ stamps \in Nat /\ stamps' \in Nat
      /\ Segments \subseteq Nat /\ sealed \subseteq Segments
  BY NamesAre DEF Typed, DiskTyped, HooksTyped
<1>1. CASE UNCHANGED vars
  BY <1>1 DEF vars, segments, InOrder, NamesSealed, NextIsNewest, SealedInOrder, OnlyOldGo, Old
<1>2. ASSUME NEW p \in Importers, ImporterActs(p) PROVE InOrder'
  <2>1. UNCHANGED <<hook, stamps, sealed, later>>
    BY <1>2, ImporterKeeps DEF segments
  <2>2. \A f \in Files : place'[f].name \in Segments =>
          /\ place[f].name = place'[f].name
          /\ place'[f].at = "unlinked" => place[f].at = "unlinked"
    BY <1>2, NamesAre, ImporterFiles DEF At
  <2>3. QED
    BY <2>1, <2>2 DEF InOrder, NamesSealed, NextIsNewest, SealedInOrder, OnlyOldGo, Old
<1>3. ASSUME NEW h \in Records, HookStep(h) \/ HookDies(h), ~Seal(h) PROVE InOrder'
  <2>1. \A g \in Records \ {h} : hook'[g] = hook[g]
    BY <1>3, HookWrites
  <2>2. NamesSealed'
    BY <1>3, HookKeepsNames DEF InOrder, NamesSealed
  <2>3. NextIsNewest'
    <3>1. ASSUME NEW g \in Records, hook'[g].at = "rename"
          PROVE  \/ hook[g].at = "rename" /\ hook'[g].stamp = hook[g].stamp
                 \/ g = h /\ hook'[g].stamp = stamps + 1 /\ stamps' = stamps + 1
      BY <1>3, <2>1, <3>1, HookKeepsVictims
    <3>2. \A g \in Records : hook[g].at = "rename" => hook[g].stamp \in Nat
      BY <1>0 DEF Typed, HooksTyped, HookInHand
    <3>3. UNCHANGED sealed /\ stamps <= stamps'
      BY <1>3, HookKeepsNames, HookKeepsVictims
    <3>4. ASSUME NEW g \in Records, hook'[g].at = "rename"
          PROVE  hook'[g].stamp <= stamps' /\ \A n \in sealed' : n < hook'[g].stamp
      BY <1>0, <3>1, <3>2, <3>3, <3>4 DEF InOrder, NextIsNewest, SealedInOrder
    <3>5. ASSUME NEW g \in Records, hook'[g].at = "rename",
                 NEW k \in Records \ {g}, hook'[k].at = "rename"
          PROVE  hook'[k].stamp # hook'[g].stamp
      BY <1>0, <3>1, <3>2, <3>5 DEF InOrder, NextIsNewest
    <3>6. QED
      BY <3>4, <3>5 DEF NextIsNewest
  <2>4. SealedInOrder'
    <3>1. UNCHANGED <<sealed, later>> /\ stamps <= stamps'
      BY <1>3, HookKeepsNames, HookKeepsVictims
    <3>2. \A n \in sealed : n \in Nat /\ n <= stamps
      BY <1>0 DEF InOrder, SealedInOrder
    <3>3. \A n \in sealed : n <= stamps'
      BY <1>0, <3>1, <3>2
    <3>4. QED
      BY <3>1, <3>3 DEF InOrder, SealedInOrder
  <2>5. OnlyOldGo'
    <3>1. \A n : Old(n)' = Old(n)
      BY <1>3, HookKeepsNames DEF Old
    <3>2. \A n \in Victims : Old(n)
      BY ListedOld DEF InOrder
    <3>3. \A g \in Records : \A n \in hook'[g].victims : Old(n)
      BY <1>3, <2>1, <3>2, HookKeepsVictims DEF InOrder, OnlyOldGo
    <3>4. \A f \in Files : place'[f].at = "unlinked" /\ place'[f].name \in Segments =>
            Old(place'[f].name)
      BY <1>3, HookKeepsNames DEF InOrder, OnlyOldGo
    <3>5. QED
      BY <3>1, <3>3, <3>4 DEF OnlyOldGo
  <2>6. QED
    BY <2>2, <2>3, <2>4, <2>5 DEF InOrder
<1>4. ASSUME NEW h \in Records, Seal(h) PROVE InOrder'
  BY <1>4, SealKeepsOrder
<1>5. QED
  BY <1>1, <1>2, <1>3, <1>4, StepCases

\* A hook that applies the bound unlinks a segment only when MaxSegments
\* others were sealed after it, however many hooks seal and unlink at once, if
\* none stalls between the time in its segment's name and the rename.
THEOREM BoundDropsOld ==
  ASSUME "stamp" \notin Windows
  PROVE  Spec => []OnlyOldDropped
<1>1. Init => InOrder
  <2> SUFFICES ASSUME Init PROVE InOrder
    OBVIOUS
  <2>1. Main \notin Segments
    BY NamesAre
  <2>2. QED
    BY <2>1 DEF Init, At, IdleHook, InOrder, NamesSealed, NextIsNewest, SealedInOrder, OnlyOldGo
<1>2. Typed /\ Typed' /\ InOrder /\ [Next]_vars => InOrder'
  BY StepInOrder
<1>3. InOrder => OnlyOldDropped
  <2> SUFFICES ASSUME InOrder, NEW n \in Segments, Exists("unlinked", n)
               PROVE  Cardinality(later[n]) >= MaxSegments
    BY DEF OnlyOldDropped
  <2>1. PICK f \in Files : place[f].at = "unlinked" /\ place[f].name = n
    BY FileThere
  <2>2. QED
    BY <2>1 DEF InOrder, OnlyOldGo, Old
<1>4. QED
  BY <1>1, <1>2, <1>3, InitTyped, StepTyped, PTL DEF Spec

-----------------------------------------------------------------------------
(* No record is left behind.                                               *)

\* Nobody is about to append to the file, and its row covers it.
Settled(f) == Covered(f) = content[f] /\ NoWriter(f)

\* A file gets a writer only by an open, which finds it live or creates it.
LEMMA WritersOpen ==
  ASSUME Typed, [Next]_vars, NEW f \in Files, NoWriter(f), ~NoWriter(f)'
  PROVE  \E h \in Records :
           /\ \/ OpenSpill(h) /\ place'[f] = At("live", Open)
              \/ OpenMain(h) /\ place'[f] = At("live", Main)
           /\ place[f] = place'[f] \/ f = h
           /\ UNCHANGED <<content, rows, db, importer>>
<1>0. hook \in [Records -> HookState] /\ place \in [Files -> Place]
  BY DEF Typed, HooksTyped, DiskTyped
<1>1. hook' # hook
  BY WritersSame
<1>2. PICK h \in Records : HookStep(h) \/ HookDies(h)
  BY <1>1, StepCases, ImporterKeeps DEF vars
<1>3. hook'[h].at = "append" /\ hook'[h].fd = f /\ ~(hook[h].at = "append" /\ hook[h].fd = f)
  BY <1>2, HookWrites DEF NoWriter
<1>4. OpenSpill(h) \/ OpenMain(h)
  BY <1>0, <1>2, <1>3 DEF HookState, HookStep, WriteDb, Spill, CheckSeal, Stamp, Seal,
     OpenSpill, CheckMain, ReadTail, Rotate, OpenMain, AppendLine, ListVictims, UnlinkVictim,
     HookDies, IdleHook
<1>5. ASSUME NEW name, OpenForAppend(h, name)
      PROVE  place'[f] = At("live", name) /\ (place[f] = place'[f] \/ f = h)
             /\ UNCHANGED <<content, rows, db, importer>>
  <2>1. f = IF Exists("live", name) THEN TheFile("live", name) ELSE h
    BY <1>0, <1>3, <1>5 DEF OpenForAppend, HookState
  <2>2. CASE Exists("live", name)
    BY <1>5, <2>1, <2>2, FileThere DEF OpenForAppend
  <2>3. CASE ~Exists("live", name)
    BY <1>0, <1>5, <2>1, <2>3 DEF OpenForAppend, Files
  <2>4. QED
    BY <1>5, <2>2, <2>3 DEF OpenForAppend
<1>6. CASE OpenSpill(h)
  BY <1>5, <1>6, Zenon DEF OpenSpill
<1>7. CASE OpenMain(h)
  BY <1>5, <1>7, Zenon DEF OpenMain
<1>8. QED
  BY <1>4, <1>6, <1>7

\* A file stays settled until somebody opens it, if it is there.
LEMMA SettledStays ==
  ASSUME Typed, Typed', [Next]_vars, NEW f \in Files, Settled(f), NoWriter(f)',
         place'[f].at = "live" => place[f].at # "absent"
  PROVE  Settled(f)'
<1>0. /\ content \in [Files -> SUBSET Records] /\ rows \in [Files -> {None} \cup SUBSET Records]
      /\ hook \in [Records -> HookState]
  BY DEF Typed, HooksTyped, DiskTyped
<1>1. CASE UNCHANGED <<rows, content>>
  BY <1>1 DEF Settled, Covered
<1>2. ASSUME NEW h \in Records, HookStep(h) \/ HookDies(h) PROVE Settled(f)'
  <2>1. rows' = rows
    BY <1>2, HookKeeps
  <2>2. CASE hook[h].at = "append" /\ content' = [content EXCEPT ![hook[h].fd] = @ \cup {h}]
    <3>1. hook[h].fd # f /\ hook[h].fd \in Files
      BY <2>2 DEF Settled, NoWriter, Typed, HooksTyped, HookInHand
    <3>2. content'[f] = content[f]
      BY <1>0, <2>2, <3>1
    <3>3. QED
      BY <2>1, <3>2 DEF Settled, Covered
  <2>3. ASSUME NEW g \in Files, RotatesTo(h, g) PROVE Settled(f)'
    <3>1. f # g
      BY <2>3 DEF RotatesTo, At
    <3>2. content'[f] = content[f]
      BY <1>0, <2>3, <3>1 DEF RotatesTo
    <3>3. QED
      BY <2>1, <3>2 DEF Settled, Covered
  <2>4. QED
    BY <1>1, <1>2, <2>1, <2>2, <2>3, HookWrites
<1>3. ASSUME NEW p \in Importers, ImporterActs(p) PROVE Settled(f)'
  <2>1. ASSUME NEW g \in Files, ImportLines(g), UNCHANGED content PROVE Settled(f)'
    <3>1. rows'[f] = IF f = g THEN content[g] ELSE rows[f]
      BY <1>0, <2>1 DEF ImportLines
    <3>2. f = g => rows'[f] = content'[f] /\ content'[f] \in SUBSET Records
      BY <1>0, <2>1, <3>1
    <3>3. Covered(f)' = content[f]
      BY <2>1, <3>1, <3>2, SpillAssumption DEF Settled, Covered, Records
    <3>4. QED
      BY <2>1, <3>3 DEF Settled
  <2>2. ASSUME NEW e \in Exports, content' = [content EXCEPT ![e] = Stored], rows' = RecordExport(e)
        PROVE  Settled(f)'
    <3>1. f = e => content'[f] = Stored /\ rows'[f] = Stored /\ Stored \in SUBSET Records
      BY <1>0, <2>2 DEF RecordExport, Stored
    <3>2. f # e => content'[f] = content[f] /\ rows'[f] = rows[f]
      BY <1>0, <2>2 DEF RecordExport
    <3>3. QED
      BY <3>1, <3>2, SpillAssumption DEF Settled, Covered, Records
  <2>3. QED
    BY <1>1, <1>3, <2>1, <2>2, ImporterWrites
<1>4. QED
  BY <1>1, <1>2, <1>3, StepCases DEF vars

\* Where a record can no longer be found by an importer, none has to be: in
\* the backup of a file, in an export that is not placed yet, in what an
\* export replaced, and in the file that an importer or an export is about to
\* move there.
ExportsMain == \A e \in Exports : place[e].name = Main
CopiesSettled == \A f \in Files : place[f].at \in {"temp", "backup"} => Settled(f)
UnlinkedSettled ==
  \A f \in Files : place[f].at = "unlinked" => place[f].name \in Segments \/ Settled(f)
BackupReady ==
  \A p \in Importers : importer[p].at = "backup" =>
    /\ Settled(importer[p].file)
    /\ place[importer[p].file].at \in {"claimed", "backup"}
ExportReady ==
  \A p \in Importers : importer[p].at = "rename" =>
    /\ Settled(importer[p].file)
    /\ \A f \in Files : place[f] = At("live", Main) => Settled(f)

Safe == ExportsMain /\ CopiesSettled /\ UnlinkedSettled /\ BackupReady /\ ExportReady

\* No export changes its name.
LEMMA ExportsStay ==
  ASSUME Typed, ExportsMain, [Next]_vars PROVE ExportsMain'
<1> SUFFICES ASSUME NEW e \in Exports PROVE place'[e].name = Main
  BY DEF ExportsMain
<1>0. place \in [Files -> Place] /\ e \in Files /\ place[e].name = Main /\ e \notin Records
      /\ Main # Open /\ Main \notin Segments /\ Segments \in SUBSET Nat
  BY NamesAre, SpillAssumption DEF Typed, DiskTyped, ExportsMain, Files, Records
<1>1. ASSUME NEW p \in Importers, ImporterActs(p) PROVE place'[e].name = Main
  BY <1>0, <1>1, ImporterFiles DEF At
<1>2. ASSUME NEW h \in Records, HookStep(h) \/ HookDies(h) PROVE place'[e].name = Main
  <2>1. ASSUME NEW name, OpenForAppend(h, name) PROVE place'[e].name = Main
    BY <1>0, <2>1 DEF OpenForAppend
  <2>2. CASE Seal(h)
    <3>1. CASE Exists("live", Open)
      <4>1. e # TheFile("live", Open)
        BY <1>0, <3>1, FileThere
      <4>2. QED
        BY <1>0, <2>2, <3>1, <4>1 DEF Seal
    <3>2. QED
      BY <1>0, <2>2, <3>1 DEF Seal
  <2>3. CASE UnlinkVictim(h)
    <3>1. CASE UNCHANGED place
      BY <1>0, <3>1
    <3>2. CASE ~UNCHANGED place
      <4> DEFINE n == Min(hook[h].victims)
      <4>1. hook[h].victims \in SUBSET Segments /\ hook[h].victims # {}
        BY <2>3, <3>2 DEF UnlinkVictim, Typed, HooksTyped, HookState
      <4>2. n \in Segments
        BY <1>0, <4>1, MinIsMember
      <4>3. Exists("live", n) /\ place' = [place EXCEPT ![TheFile("live", n)] = At("unlinked", n)]
        BY <2>3, <3>2 DEF UnlinkVictim
      <4> HIDE DEF n
      <4>4. e # TheFile("live", n)
        BY <1>0, <4>2, <4>3, FileThere
      <4>5. QED
        BY <1>0, <4>3, <4>4
    <3>3. QED
      BY <3>1, <3>2
  <2>4. CASE Rotate(h)
    BY <1>0, <2>4 DEF Rotate, At
  <2>5. QED
    BY <1>0, <1>2, <2>1, <2>2, <2>3, <2>4 DEF HookStep, WriteDb, Spill, CheckSeal, Stamp,
       OpenSpill, CheckMain, ReadTail, OpenMain, AppendLine, ListVictims, HookDies
<1>3. QED
  BY <1>0, <1>1, <1>2, StepCases DEF vars

\* What a hook unlinks is a segment, and unless the race is lost nobody is
\* about to append to it.
LEMMA HookUnlinks ==
  ASSUME Typed, NEW h \in Records, HookStep(h) \/ HookDies(h), NEW f \in Files,
         place'[f].at = "unlinked", place[f].at # "unlinked"
  PROVE  place'[f].name \in Segments /\ ("unlink" \notin Windows => NoWriter(f))
<1>0. place \in [Files -> Place]
  BY DEF Typed, DiskTyped
<1>1. UnlinkVictim(h) /\ ~UNCHANGED place
  BY <1>0 DEF HookStep, WriteDb, Spill, CheckSeal, Stamp, Seal, OpenSpill, CheckMain, ReadTail,
     Rotate, OpenMain, OpenForAppend, AppendLine, ListVictims, HookDies, At
<1> DEFINE n == Min(hook[h].victims)
<1>2. /\ \A g \in FilesAt("live", n) : NoWriter(g) \/ "unlink" \in Windows
      /\ Exists("live", n) /\ place' = [place EXCEPT ![TheFile("live", n)] = At("unlinked", n)]
      /\ hook[h].victims # {}
  BY <1>1 DEF UnlinkVictim
<1>3. n \in Segments
  <2>1. hook[h].victims \in SUBSET Segments /\ Segments \in SUBSET Nat
    BY NamesAre DEF Typed, HooksTyped, HookState
  <2>2. QED
    BY <1>2, <2>1, MinIsMember
<1> HIDE DEF n
<1>4. f = TheFile("live", n)
  BY <1>0, <1>2
<1>5. f \in FilesAt("live", n)
  BY <1>2, <1>4, FileThere DEF FilesAt
<1>6. QED
  BY <1>0, <1>2, <1>3, <1>4, <1>5 DEF At

\* Nothing is opened at the old path, or put there, while an export is about to be placed.
LEMMA MainQuiet ==
  ASSUME "clobber" \notin Windows, NEW p \in Importers, importer[p].at = "rename", NEW h \in Records
  PROVE  ~OpenMain(h) /\ ~Rotate(h)
BY DEF OpenMain, Rotate, NoExportDue

\* A file that is not live is not opened.
LEMMA OldStaysSettled ==
  ASSUME Typed, Typed', [Next]_vars, NEW f \in Files, Settled(f), place'[f].at # "live"
  PROVE  Settled(f)'
BY WritersOpen, SettledStays DEF Settled, At

\* What an importer has settled when it goes on to the rename of a claim.
LEMMA BackupsReady ==
  ASSUME "backup" \notin Windows, Typed, NEW p \in Importers, ImporterActs(p),
         NEW q \in Importers, importer'[q].at = "backup"
  PROVE  \/ importer[q].at = "backup" /\ importer'[q].file = importer[q].file
         \/ /\ importer'[q].file \in Files /\ place'[importer'[q].file].at = "claimed"
            /\ Settled(importer'[q].file)
<1>0. /\ importer \in [Importers -> ImporterState]
      /\ content \in [Files -> SUBSET Records] /\ rows \in [Files -> {None} \cup SUBSET Records]
  BY DEF Typed, ImportersTyped, DiskTyped
<1>1. CASE q # p
  BY <1>1, OthersStay
<1>2. CASE q = p
  <2>0. /\ IdleImporter.at # "backup" /\ \A export : Pass(export).at # "backup"
        /\ EndPass(p).at # "backup"
        /\ importer[p].todo # <<>> => Advance(p).at # "backup"
    BY Advances, PassEnds DEF IdleImporter, Pass, Typed
  <2>1. CASE Finalize(p)
    <3>1. importer[p].todo # <<>> /\ importer[p].file \in Files
      BY <2>1 DEF Finalize, Filing, Typed, ImportersTyped, ImporterInHand
    <3> DEFINE f == importer[p].file
    <3>2. importer' # [importer EXCEPT ![p] = Advance(p)]
          /\ importer' # [importer EXCEPT ![p].at = "finalize"]
      BY <1>0, <1>2, <2>0, <3>1 DEF ImporterState
    <3>3. /\ place[f] = At("claimed", Head(importer[p].todo).name) /\ ~Grown(f)
          /\ NoWriter(f) /\ importer' = [importer EXCEPT ![p].at = "backup"] /\ UNCHANGED place
      BY <2>1, <3>2 DEF Finalize
    <3>4. importer'[p].file = f
      BY <1>0, <3>3 DEF ImporterState
    <3>5. rows[f] = content[f] /\ content[f] \in SUBSET Records
      BY <1>0, <3>1, <3>3 DEF Grown
    <3>6. Settled(f)
      BY <3>3, <3>5, RowCovers DEF Settled
    <3>7. place'[f].at = "claimed"
      BY <3>3 DEF At
    <3> HIDE DEF f
    <3>8. QED
      BY <1>2, <3>1, <3>4, <3>6, <3>7 DEF f
  <2>2. CASE ClaimFile(p)
    <3>1. importer[p].todo # <<>>
      BY <2>2 DEF ClaimFile, Typed, ImportersTyped, ImporterInHand
    <3>2. ASSUME NEW f, importer' = [importer EXCEPT ![p].at = "import", ![p].file = f]
          PROVE  importer'[p].at # "backup"
      BY <1>0, <3>2 DEF ImporterState
    <3>3. QED
      BY <1>0, <1>2, <2>0, <2>2, <3>1, <3>2, Claims
  <2>3. CASE Backup(p)
    <3>1. importer[p].todo # <<>>
      BY <2>3 DEF Backup, Filing, Typed, ImportersTyped, ImporterInHand
    <3>2. QED
      BY <1>0, <1>2, <2>0, <2>3, <3>1 DEF Backup
  <2>4. CASE ImportClaim(p) \/ Begin(p) \/ ListSpill(p)
    BY <1>0, <1>2, <2>4 DEF ImportClaim, Begin, ListSpill, ImporterState
  <2>5. CASE StartImport(p) \/ Busy(p) \/ StartExport(p) \/ StageExport(p) \/ PlaceExport(p)
             \/ Migrate(p) \/ ImporterDies(p)
    BY <1>0, <1>2, <2>0, <2>5 DEF StartImport, Busy, StartExport, StageExport, PlaceExport,
       Migrate, ImporterDies, ImporterState
  <2>6. QED
    BY <2>1, <2>2, <2>3, <2>4, <2>5 DEF ImporterActs, ImporterStep
<1>3. QED
  BY <1>1, <1>2

\* Every step leaves the settled files settled, where it matters.
LEMMA StepSafe ==
  ASSUME "backup" \notin Windows, "clobber" \notin Windows, Typed, Typed', Filed, Safe, [Next]_vars
  PROVE  Safe'
<1>0. place \in [Files -> Place] /\ Main # Open /\ Exports \subseteq Files
  BY NamesAre DEF Typed, DiskTyped, Files
<1>1. ExportsMain'
  BY ExportsStay DEF Safe
<1>2. CASE UNCHANGED vars
  BY <1>2 DEF vars, Safe, ExportsMain, CopiesSettled, UnlinkedSettled, BackupReady, ExportReady,
     Settled, Covered, NoWriter
<1>3. ASSUME NEW h \in Records, HookStep(h) \/ HookDies(h) PROVE Safe'
  <2>0. importer' = importer /\ [Next]_vars
    BY <1>3, HookKeeps
  <2>1. CopiesSettled'
    <3>1. \A f \in Files : place'[f].at \in {"temp", "backup"} => place[f] = place'[f]
      BY <1>3, HookFiles DEF RotatesTo, At
    <3>2. QED
      BY <3>1, OldStaysSettled DEF Safe, CopiesSettled
  <2>2. UnlinkedSettled'
    <3> SUFFICES ASSUME NEW f \in Files, place'[f].at = "unlinked", place'[f].name \notin Segments
                 PROVE  Settled(f)'
      BY DEF UnlinkedSettled
    <3>1. place[f].at = "unlinked"
      BY <1>3, HookUnlinks
    <3>2. place'[f] = place[f]
      BY <1>3, <3>1, HookFiles DEF RotatesTo
    <3>3. QED
      BY <3>1, <3>2, OldStaysSettled DEF Safe, UnlinkedSettled
  <2>3. BackupReady'
    <3> SUFFICES ASSUME NEW p \in Importers, importer[p].at = "backup"
                 PROVE  /\ Settled(importer[p].file)'
                        /\ place'[importer[p].file].at \in {"claimed", "backup"}
      BY <2>0 DEF BackupReady
    <3> DEFINE f == importer[p].file
    <3>1. f \in Files /\ Settled(f) /\ place[f].at \in {"claimed", "backup"} /\ f' = f
      BY <2>0 DEF Safe, BackupReady, Typed, ImportersTyped, ImporterInHand, Filing
    <3>2. PICK g \in Files : g = f
      BY <3>1
    <3>3. place[g].at # "absent" /\ place[g].at # "live"
      BY <3>1, <3>2
    <3>4. place'[g] = place[g]
      BY <1>0, <1>3, <3>3, HookFiles DEF Filed, Unwritten, RotatesTo
    <3>5. Settled(g)'
      BY <3>1, <3>2, <3>3, <3>4, OldStaysSettled
    <3>6. QED
      BY <3>1, <3>2, <3>4, <3>5 DEF Settled, NoWriter, Covered
  <2>4. ExportReady'
    <3> SUFFICES ASSUME NEW p \in Importers, importer[p].at = "rename"
                 PROVE  /\ Settled(importer[p].file)'
                        /\ \A f \in Files : place'[f] = At("live", Main) => Settled(f)'
      BY <2>0 DEF ExportReady
    <3>1. \A g \in Records : ~OpenMain(g) /\ ~Rotate(g)
      BY MainQuiet
    <3>2. ASSUME NEW f \in Files, Settled(f), place'[f].name = Main, place[f].at # "absent"
          PROVE  Settled(f)'
      <4>1. place'[f] # At("live", Open)
        BY <1>0, <3>2 DEF At
      <4>2. NoWriter(f)'
        BY <3>1, <3>2, <4>1, WritersOpen DEF Settled
      <4>3. QED
        BY <3>2, <4>2, SettledStays
    <3>3. PICK e \in Exports : importer[p].file = e
      BY DEF Typed, ImportersTyped, ImporterInHand
    <3>4. Settled(e)'
      <4>1. Settled(e) /\ place[e].at = "temp" /\ e \in Files
        BY <1>0, <3>3 DEF Safe, ExportReady, Filed, StagedApart
      <4>2. QED
        BY <1>1, <3>2, <4>1 DEF ExportsMain
    <3>5. ASSUME NEW f \in Files, place'[f] = At("live", Main) PROVE Settled(f)'
      <4>1. place'[f].name = Main
        BY <3>5 DEF At
      <4>2. CASE place[f] = place'[f]
        BY <3>2, <3>5, <4>1, <4>2 DEF Safe, ExportReady, At
      <4>3. CASE place[f] # place'[f]
        <5>1. OpenSpill(h) \/ Seal(h) \/ UnlinkVictim(h)
          BY <1>3, <3>1, <4>3 DEF HookStep, WriteDb, Spill, CheckSeal, Stamp, CheckMain,
             ReadTail, AppendLine, ListVictims, HookDies
        <5>2. CASE OpenSpill(h)
          BY <1>0, <4>1, <4>3, <5>2 DEF OpenSpill, OpenForAppend, At
        <5>3. CASE Seal(h)
          <6>1. hook[h].stamp # Main
            BY <5>3, NamesAre DEF Seal, Typed, HooksTyped, HookInHand
          <6>2. QED
            BY <1>0, <4>1, <4>3, <5>3, <6>1 DEF Seal, At
        <5>4. CASE UnlinkVictim(h)
          BY <1>0, <3>5, <4>3, <5>4 DEF UnlinkVictim, At
        <5>5. QED
          BY <5>1, <5>2, <5>3, <5>4
      <4>4. QED
        BY <4>2, <4>3
    <3>6. QED
      BY <2>0, <3>3, <3>4, <3>5 DEF Settled, NoWriter, Covered
  <2>5. QED
    BY <1>1, <2>1, <2>2, <2>3, <2>4 DEF Safe
<1>4. ASSUME NEW p \in Importers, ImporterActs(p) PROVE Safe'
  <2>0. UNCHANGED hook
    BY <1>4, ImporterKeeps
  <2>1. ASSUME NEW f \in Files, Settled(f) PROVE Settled(f)'
    <3>1. NoWriter(f)'
      BY <2>0, <2>1, WritersSame DEF Settled
    <3>2. place'[f].at = "live" => place[f].at # "absent"
      BY <1>4, ImporterFiles DEF At, Filed, StagedApart
    <3>3. QED
      BY <2>1, <3>1, <3>2, SettledStays
  <2>2. \A f \in Files :
         \/ place'[f] = place[f]
         \/ place[f].at = "live" /\ place'[f].at = "claimed" /\ place'[f].name = place[f].name
         \/ place[f] = At("live", Main) /\ place'[f] = At("unlinked", Main)
            /\ importer[p].at = "rename"
         \/ /\ importer[p].at = "backup" /\ f = importer[p].file
            /\ place'[f].at = "backup" /\ place'[f].name = place[f].name
         \/ /\ f \in Exports /\ place[f].at = "absent" /\ place'[f] = At("temp", Main)
            /\ content' = [content EXCEPT ![f] = Stored] /\ rows' = RecordExport(f)
         \/ /\ importer[p].at = "rename" /\ f = importer[p].file
            /\ f \in Exports /\ place'[f] = At("live", Main)
    BY <1>4, ImporterFiles
  <2>3. ASSUME NEW e \in Exports, place[e].at = "absent",
               content' = [content EXCEPT ![e] = Stored], rows' = RecordExport(e)
        PROVE  Settled(e)'
    <3>1. content'[e] = Stored /\ rows'[e] = Stored /\ Stored \in SUBSET Records
      BY <1>0, <2>3 DEF RecordExport, Stored, Typed, DiskTyped
    <3>2. NoWriter(e)'
      BY <1>0, <2>0, <2>3 DEF Filed, Uncreated, NoWriter
    <3>3. QED
      BY <3>1, <3>2, SpillAssumption DEF Settled, Covered, Records
  <2>4. \A f \in Files : place'[f].at = "temp" /\ place[f].at # "temp" => Settled(f)'
    <3> SUFFICES ASSUME NEW f \in Files, place'[f].at = "temp", place[f].at # "temp"
                 PROVE  Settled(f)'
      OBVIOUS
    <3>1. /\ f \in Exports /\ place[f].at = "absent"
          /\ content' = [content EXCEPT ![f] = Stored] /\ rows' = RecordExport(f)
      BY <2>2 DEF At
    <3>2. QED
      BY <2>3, <3>1
  <2>5. CopiesSettled'
    BY <2>1, <2>2, <2>4 DEF Safe, CopiesSettled, BackupReady, At
  <2>6. UnlinkedSettled'
    BY <2>1, <2>2 DEF Safe, UnlinkedSettled, ExportReady, At
  <2>7. BackupReady'
    <3> SUFFICES ASSUME NEW q \in Importers, importer'[q].at = "backup"
                 PROVE  /\ Settled(importer[q].file)'
                        /\ place'[importer'[q].file].at \in {"claimed", "backup"}
      BY DEF BackupReady
    <3>1. importer'[q].file \in Files
      BY DEF Typed, ImportersTyped, ImporterInHand, Filing
    <3>2. PICK f \in Files : f = importer'[q].file
      BY <3>1
    <3>3. CASE importer[q].at = "backup" /\ importer[q].file = f
      <4>1. Settled(f) /\ place[f].at \in {"claimed", "backup"}
        BY <3>3 DEF Safe, BackupReady
      <4>2. place'[f].at \in {"claimed", "backup"}
        BY <2>2, <4>1 DEF At, Filed, StagedApart
      <4>3. Settled(f)'
        BY <2>1, <4>1
      <4>4. QED
        BY <3>2, <4>2, <4>3 DEF Settled, NoWriter, Covered
    <3>4. CASE place'[f].at = "claimed" /\ Settled(f)
      <4>1. Settled(f)'
        BY <2>1, <3>4
      <4>2. QED
        BY <3>2, <3>4, <4>1 DEF Settled, NoWriter, Covered
    <3>5. QED
      BY <1>4, <3>2, <3>3, <3>4, BackupsReady
  <2>8. ExportReady'
    <3> SUFFICES ASSUME NEW q \in Importers, importer'[q].at = "rename"
                 PROVE  /\ Settled(importer[q].file)'
                        /\ \A f \in Files : place'[f] = At("live", Main) => Settled(f)'
      BY DEF ExportReady
    <3>0. \/ q # p /\ importer[q].at = "rename" /\ importer'[q].file = importer[q].file
          \/ /\ importer'[q].file \in Exports /\ place[importer'[q].file].at = "absent"
             /\ content' = [content EXCEPT ![importer'[q].file] = Stored]
             /\ rows' = RecordExport(importer'[q].file)
             /\ \A f \in FilesAt("live", Main) : NoWriter(f) \/ "clobber" \in Windows
             /\ Exists("live", Main) => Replaceable
      BY <1>4, ImporterStages
    <3>1. ASSUME NEW f \in Files, place[f] = At("live", Main) PROVE Settled(f)
      <4>1. CASE importer[q].at = "rename"
        BY <3>1, <4>1 DEF Safe, ExportReady
      <4>2. CASE (\A g \in FilesAt("live", Main) : NoWriter(g) \/ "clobber" \in Windows)
                 /\ (Exists("live", Main) => Replaceable)
        <5>1. f \in FilesAt("live", Main)
          BY <3>1 DEF FilesAt
        <5>2. rows[f] = content[f] /\ NoWriter(f)
          BY <4>2, <5>1 DEF Exists, Replaceable
        <5>3. content[f] \in SUBSET Records
          BY DEF Typed, DiskTyped
        <5>4. QED
          BY <5>2, <5>3, RowCovers DEF Settled
      <4>3. QED
        BY <3>0, <4>1, <4>2
    <3>2. \A f \in Files : place'[f] = At("live", Main) => Settled(f)
      BY <1>0, <2>2, <3>1 DEF Safe, ExportReady, At
    <3>3. PICK e \in Exports : e = importer'[q].file
      BY DEF Typed, ImportersTyped, ImporterInHand
    <3>4. Settled(e)'
      BY <1>0, <2>1, <2>3, <3>0, <3>3 DEF Safe, ExportReady
    <3>5. QED
      BY <2>1, <3>2, <3>3, <3>4 DEF Settled, NoWriter, Covered
  <2>9. QED
    BY <1>1, <2>5, <2>6, <2>7, <2>8 DEF Safe
<1>5. QED
  BY <1>2, <1>3, <1>4, StepCases

\* At the start there is no file.
LEMMA InitSafe == Init => Safe
BY DEF Init, Safe, ExportsMain, CopiesSettled, UnlinkedSettled, BackupReady, ExportReady, At,
   IdleImporter, Files

\* What is settled has nothing that waits.
LEMMA NoneBehind == Typed /\ Filed /\ Safe => NothingStranded
<1> SUFFICES ASSUME Typed, Filed, Safe, NEW r \in Waiting
             PROVE  \E f \in Files : Due(f) /\ r \in content[f] \ Covered(f)
  BY DEF NothingStranded
<1>1. PICK f \in Files : r \in content[f]
  BY DEF Waiting, Accepted
<1>2. r \notin Stored /\ r \notin Dropped /\ r \in Accepted
  BY DEF Waiting
<1>3. \A g \in Files : r \notin Covered(g)
  BY <1>2 DEF Filed, RowsSound
<1>4. CASE Due(f)
  BY <1>1, <1>3, <1>4
<1>5. CASE GivenUp(f)
  <2>1. PICK g \in Files : Due(g) /\ r \in content[g]
    BY <1>1, <1>2, <1>5 DEF Dropped
  <2>2. QED
    BY <1>3, <2>1
<1>6. Due(f) \/ GivenUp(f)
  <2>1. ~Settled(f)
    BY <1>1, <1>3 DEF Settled
  <2>2. place[f].at \notin {"absent", "temp", "backup"}
    BY <1>1, <2>1 DEF Filed, Uncreated, Safe, CopiesSettled
  <2>3. place[f].at = "unlinked" => place[f].name \in Segments
    BY <2>1 DEF Safe, UnlinkedSettled
  <2>4. place[f].at \in FileState
    BY DEF Typed, DiskTyped, Place
  <2>5. QED
    BY <2>2, <2>3, <2>4 DEF FileState, Due, GivenUp
<1>7. QED
  BY <1>4, <1>5, <1>6

\* A record that waits is in a live or a claimed file, past what the row of
\* the file covers: no backup, no file that an export replaced and no export
\* that dies before its rename keeps one.  It holds whatever the previous
\* release rotates: what a rotation replaced is given up as the tail it did not
\* keep.  Its two assumptions are races the code accepts; the others, a late
\* append to a segment that is unlinked and a stale stamp, do no harm here.
THEOREM NothingLeftBehind ==
  ASSUME "backup" \notin Windows, "clobber" \notin Windows
  PROVE  Spec => []NothingStranded
<1>1. Typed /\ Typed' /\ Filed /\ Safe /\ [Next]_vars => Safe'
  BY StepSafe
<1>2. QED
  BY <1>1, InitTyped, StepTyped, InitFiled, StepFiled, InitSafe, NoneBehind, PTL DEF Spec

-----------------------------------------------------------------------------
(* The pipeline is one log, unless the previous release rotates the old     *)
(* path: then a line that waits can be in two files.                        *)

Once == Typed /\ Filed /\ Counted

\* A line that is not stored yet is in one file.
LEMMA OnlyHome ==
  ASSUME Rotations = {}, Once, NEW f \in Files, NEW g \in Files,
         NEW r \in Records \ Stored, r \in content[f], r \in content[g]
  PROVE  f = g
<1>1. \A k \in Files : r \notin kept[k]
  BY DEF Once, Filed, RowsSound, Counted, KeptSound, Files
<1>2. QED
  BY <1>1 DEF Once, Counted, OneHome, Appended

\* What an import stores was not stored, and is in no other file.
LEMMA LinesImported ==
  ASSUME Rotations = {}, Once, NEW f \in Files, NEW r \in content[f] \ Covered(f)
  PROVE  r \in Records /\ db[r] = 0 /\ \A g \in Files \ {f} : r \notin content[g]
<1>1. r \in Records /\ db[r] \in Nat
  BY DEF Once, Typed, DiskTyped
<1>2. r \in Appended(f)
  BY DEF Once, Counted, KeptSound, Appended, Files
<1>3. \A g \in Files : r \notin Covered(g) \ kept[g]
  <2>1. \A g \in Files : r \in Covered(g) \ kept[g] => r \in Appended(g)
    BY DEF Once, Filed, RowsSound, Appended
  <2>2. QED
    BY <1>1, <1>2, <2>1 DEF Once, Counted, OneHome
<1>4. NotYet(r) /\ Cardinality(Again(r)) = 0
  BY <1>2, <1>3, FS_EmptySet DEF NotYet, Again
<1>5. db[r] = 0
  BY <1>1, <1>4 DEF Once, Counted, Counts
<1>6. QED
  BY <1>1, <1>5, OnlyHome DEF Stored

\* Nobody is about to append to a segment that is unlinked.
QuietSegments ==
  \A f \in Files : place[f].at # "rotated" /\ (GivenUp(f) => NoWriter(f))

\* A file that is unlinked stays unlinked.
LEMMA UnlinkedStays ==
  ASSUME Once, [Next]_vars, NEW f \in Files, place[f].at = "unlinked"
  PROVE  place'[f] = place[f]
<1>1. ASSUME NEW h \in Records, HookStep(h) \/ HookDies(h) PROVE place'[f] = place[f]
  BY <1>1, HookFiles DEF Once, Filed, Unwritten, RotatesTo
<1>2. ASSUME NEW p \in Importers, ImporterActs(p) PROVE place'[f] = place[f]
  <2>1. importer[p].at = "backup" => importer[p].file # f
    BY DEF Once, Filed, InPlace, Filing
  <2>2. importer[p].at = "rename" => importer[p].file # f
    BY DEF Once, Filed, StagedApart
  <2>3. QED
    BY <1>2, <2>1, <2>2, ImporterFiles DEF At, Once
<1>3. QED
  BY <1>1, <1>2, StepCases DEF vars

\* No file is replaced by a rotation.
LEMMA NoneRotated ==
  ASSUME Rotations = {}, Once, [Next]_vars, NEW f \in Files, place[f].at # "rotated"
  PROVE  place'[f].at # "rotated"
<1>0. place \in [Files -> Place]
  BY DEF Once, Typed, DiskTyped
<1>1. ASSUME NEW h \in Records, HookStep(h) \/ HookDies(h) PROVE place'[f].at # "rotated"
  <2>1. CASE Rotate(h)
    <3>1. UNCHANGED place
      BY <2>1 DEF Rotate, Spare
    <3>2. QED
      BY <3>1
  <2>2. CASE UnlinkVictim(h) \/ Seal(h)
    BY <1>0, <2>2 DEF UnlinkVictim, Seal, At
  <2>3. ASSUME NEW name, OpenForAppend(h, name) PROVE place'[f].at # "rotated"
    BY <1>0, <2>3 DEF OpenForAppend, At
  <2>4. QED
    BY <1>1, <2>1, <2>2, <2>3 DEF HookStep, WriteDb, Spill, CheckSeal, Stamp, OpenSpill,
       CheckMain, ReadTail, OpenMain, AppendLine, ListVictims, HookDies
<1>2. ASSUME NEW p \in Importers, ImporterActs(p) PROVE place'[f].at # "rotated"
  BY <1>2, ImporterFiles DEF At, Once
<1>3. QED
  BY <1>1, <1>2, StepCases DEF vars

\* The bound waits for the append before it unlinks, unless the race is lost.
LEMMA StepQuiet ==
  ASSUME "unlink" \notin Windows, Rotations = {}, Once, QuietSegments, [Next]_vars
  PROVE  QuietSegments'
<1>0. \A f \in Files : place'[f].at # "rotated"
  BY NoneRotated DEF QuietSegments
<1>1. ASSUME NEW f \in Files, place'[f].at = "unlinked", place'[f].name \in Segments
      PROVE  NoWriter(f)'
  <2>1. NoWriter(f)
    <3>1. CASE place[f].at = "unlinked"
      BY <1>1, <3>1, UnlinkedStays DEF QuietSegments, GivenUp
    <3>2. CASE place[f].at # "unlinked"
      <4>1. ASSUME NEW h \in Records, HookStep(h) \/ HookDies(h) PROVE NoWriter(f)
        BY <1>1, <3>2, <4>1, HookUnlinks DEF Once
      <4>2. ASSUME NEW p \in Importers, ImporterActs(p) PROVE FALSE
        BY <1>1, <3>2, <4>2, ImporterFiles, NamesAre DEF At, Once
      <4>3. QED
        BY <1>1, <3>2, <4>1, <4>2, StepCases DEF vars
    <3>3. QED
      BY <3>1, <3>2
  <2>2. QED
    BY <1>1, <2>1, WritersOpen DEF At, Once
<1>2. QED
  BY <1>0, <1>1 DEF QuietSegments, GivenUp

\* What the log sees: where the records are, and what it may do with them.
LEMMA LogSees ==
  ASSUME Typed
  PROVE  /\ Accepted \in SUBSET Records /\ Stored \in SUBSET Records
         /\ Dropped \in SUBSET (Accepted \ Stored) /\ Waiting = Accepted \ (Stored \cup Dropped)
<1>1. content \in [Files -> SUBSET Records]
  BY DEF Typed, DiskTyped
<1>2. QED
  BY <1>1 DEF Accepted, Stored, Dropped, Waiting

\* A step that only moves files gives up what it unlinks.
LEMMA MovesDrop ==
  ASSUME Rotations = {}, Once, QuietSegments, [Next]_vars, UNCHANGED <<db, content>>
  PROVE  [Log!Next]_(Log!vars)
<1> DEFINE R == Dropped' \ Dropped
<1>1. Accepted' = Accepted /\ Stored' = Stored
  BY DEF Accepted, Stored
<1>2. Dropped \subseteq Dropped'
  <2> SUFFICES ASSUME NEW r \in Dropped PROVE r \in Dropped'
    OBVIOUS
  <2>1. r \in Records \ Stored /\ r \in Accepted
    BY LogSees DEF Once
  <2>2. PICK f \in Files : GivenUp(f) /\ r \in content[f]
    BY DEF Dropped
  <2>3. place'[f] = place[f] /\ GivenUp(f)' /\ ~Due(f)'
    BY <2>2, UnlinkedStays DEF QuietSegments, GivenUp, Due
  <2>4. \A g \in Files : Due(g)' => r \notin content'[g]
    BY <2>1, <2>2, <2>3, OnlyHome
  <2>5. QED
    BY <1>1, <2>1, <2>2, <2>3, <2>4 DEF Dropped
<1>3. Dropped' \subseteq Accepted \ Stored
  BY <1>1 DEF Dropped
<1>4. R \in SUBSET Records /\ R \subseteq Waiting
  BY <1>3, LogSees DEF Once
<1>5. Waiting' = Waiting \ R /\ Dropped' = Dropped \cup R
  BY <1>1, <1>2 DEF Waiting
<1> HIDE DEF R
<1>6. Log!Drop(R)
  BY <1>4, <1>5 DEF Log!Drop
<1>7. QED
  BY <1>4, <1>6 DEF Log!Next

\* A hook that gets into the database writes its record there, and nowhere else.
LEMMA WriteIsWrite ==
  ASSUME Once, NEW h \in Records, hook[h].at = "start",
         db' = [db EXCEPT ![h] = @ + 1], UNCHANGED <<content, place>>
  PROVE  Log!Write(h)
<1>0. db \in [Records -> Nat] /\ content \in [Files -> SUBSET Records]
  BY DEF Once, Typed, DiskTyped
<1>1. db[h] = 0 /\ h \notin Accepted
  BY DEF Once, Filed, Unwritten, BeforeOpen, Accepted
<1>2. Accepted' = Accepted /\ Stored' = Stored \cup {h}
  BY <1>0, <1>1 DEF Accepted, Stored
<1>3. Dropped' = Dropped
  BY <1>1, <1>2 DEF Dropped, GivenUp, Due
<1>4. Waiting' = Waiting /\ h \notin Waiting \cup Dropped
  BY <1>1, <1>2, <1>3 DEF Waiting, Dropped
<1>5. db' = Log!StoreAll({h})
  BY <1>0 DEF Log!StoreAll
<1>6. QED
  BY <1>1, <1>3, <1>4, <1>5 DEF Log!Write, Log!New

\* An append is accepted: its file is not an unlinked segment.
LEMMA AppendAccepts ==
  ASSUME Once, QuietSegments, NEW h \in Records, hook[h].at = "append",
         content' = [content EXCEPT ![hook[h].fd] = @ \cup {h}], UNCHANGED <<db, place>>
  PROVE  Log!Accept(h)
<1> DEFINE fd == hook[h].fd
<1>0. /\ content \in [Files -> SUBSET Records]
      /\ fd \in Files /\ db[h] = 0 /\ h \notin Accepted
  BY DEF Typed, DiskTyped, HooksTyped, HookInHand, Once, Filed, Unwritten, Accepted
<1>1. ~GivenUp(fd)
  BY <1>0 DEF QuietSegments, NoWriter
<1>2. content'[fd] = content[fd] \cup {h} /\ \A f \in Files \ {fd} : content'[f] = content[f]
  BY <1>0
<1> HIDE DEF fd
<1>3. Accepted' = Accepted \cup {h} /\ Stored' = Stored /\ h \notin Stored
  BY <1>0, <1>2 DEF Accepted, Stored
<1>4. \A f \in Files : (GivenUp(f)' <=> GivenUp(f)) /\ (Due(f)' <=> Due(f))
  BY DEF GivenUp, Due
<1>5. \A r : r \in Dropped' <=> r \in Dropped
  <2>1. h \notin Dropped'
    BY <1>0, <1>1, <1>2, <1>4 DEF Dropped, Accepted
  <2>2. ASSUME NEW r, r # h PROVE r \in Dropped' <=> r \in Dropped
    <3>1. \A f \in Files : r \in content'[f] <=> r \in content[f]
      BY <1>2, <2>2
    <3>2. r \in Accepted' \ Stored' <=> r \in Accepted \ Stored
      BY <1>3, <2>2
    <3>3. QED
      BY <1>4, <3>1, <3>2 DEF Dropped
  <2>3. QED
    BY <1>0, <2>1, <2>2 DEF Dropped
<1>6. Dropped' = Dropped
  BY <1>5
<1>7. h \notin Dropped /\ h \notin Waiting /\ Waiting' = Waiting \cup {h}
  BY <1>0, <1>3, <1>6 DEF Waiting, Dropped
<1>8. QED
  BY <1>0, <1>6, <1>7 DEF Log!Accept, Log!New

\* An import takes what the row of the file lacks, all of which waits.
LEMMA ImportIsImport ==
  ASSUME Rotations = {}, Once, NEW p \in Importers, importer[p].at \in {"import", "stat"},
         ImportLines(importer[p].file), UNCHANGED <<content, place>>
  PROVE  Log!Next
<1>1. PICK f \in Files : f = importer[p].file /\ ~GivenUp(f)
  BY DEF Typed, ImportersTyped, ImporterInHand, Filing, Once, Filed, InPlace, GivenUp
<1> DEFINE R == content[f] \ Covered(f)
<1>2. \A r \in R : r \in Records /\ db[r] = 0 /\ \A g \in Files \ {f} : r \notin content[g]
  BY LinesImported
<1>3. /\ \A r \in Records : db'[r] = IF r \in R THEN db[r] + 1 ELSE db[r]
      /\ Stored' = Stored \cup R
  BY <1>1, LinesStored DEF Once
<1>4. Accepted' = Accepted /\ R \subseteq Accepted
  BY DEF Accepted
<1> HIDE DEF R
<1>5. R \cap Stored = {}
  BY <1>2 DEF Stored
<1>6. R \cap Dropped = {}
  BY <1>1, <1>2 DEF Dropped
<1>7. Dropped' = Dropped
  <2>1. \A g \in Files : (GivenUp(g)' <=> GivenUp(g)) /\ (Due(g)' <=> Due(g))
    BY DEF GivenUp, Due
  <2>2. Dropped' = Dropped \ R
    BY <1>3, <1>4, <2>1 DEF Dropped
  <2>3. QED
    BY <1>6, <2>2
<1>8. R \subseteq Waiting /\ Waiting' = Waiting \ R
  BY <1>3, <1>4, <1>5, <1>6, <1>7 DEF Waiting
<1>9. db' = Log!StoreAll(R)
  BY <1>1, <1>3 DEF Log!StoreAll, ImportLines
<1>10. Log!Import(R) /\ R \in SUBSET Records
  BY <1>2, <1>7, <1>8, <1>9 DEF Log!Import
<1>11. QED
  BY <1>10 DEF Log!Next

\* An export repeats what is stored.
LEMMA ExportRepeats ==
  ASSUME Once, NEW e \in Exports, place[e].at = "absent",
         place' = [place EXCEPT ![e] = At("temp", Main)],
         content' = [content EXCEPT ![e] = Stored], UNCHANGED db
  PROVE  UNCHANGED Log!vars
<1>0. /\ place \in [Files -> Place] /\ content \in [Files -> SUBSET Records]
      /\ e \in Files /\ content[e] = {}
  BY DEF Once, Typed, DiskTyped, Filed, Uncreated, Files
<1>1. /\ content'[e] = Stored /\ \A f \in Files \ {e} : content'[f] = content[f]
      /\ place'[e] = At("temp", Main) /\ \A f \in Files \ {e} : place'[f] = place[f]
  BY <1>0
<1>2. Stored' = Stored /\ Accepted' = Accepted \cup Stored
  BY <1>0, <1>1 DEF Accepted, Stored
<1>3. \A f \in Files : (GivenUp(f)' <=> GivenUp(f)) /\ (Due(f)' <=> Due(f))
                       /\ (GivenUp(f) \/ Due(f) => f # e)
  BY <1>1 DEF GivenUp, Due, At
<1>4. Dropped' = Dropped
  BY <1>1, <1>2, <1>3 DEF Dropped
<1>5. Waiting' = Waiting
  BY <1>2, <1>4 DEF Waiting
<1>6. QED
  BY <1>4, <1>5 DEF Log!vars

\* Nothing waits at the start.
LEMMA LogInit == Init => Log!Init
<1> SUFFICES ASSUME Init PROVE Log!Init
  OBVIOUS
<1>1. Accepted = {}
  BY DEF Init, Accepted
<1>2. Waiting = {} /\ Dropped = {}
  BY <1>1 DEF Waiting, Dropped
<1>3. QED
  BY <1>2 DEF Init, Log!Init

\* Each step of the pipeline is one of the log, or none.
LEMMA LogStep ==
  ASSUME Rotations = {}, Once, QuietSegments, [Next]_vars
  PROVE  [Log!Next]_(Log!vars)
<1>1. ASSUME NEW h \in Records, HookStep(h) \/ HookDies(h) PROVE [Log!Next]_(Log!vars)
  <2>1. CASE db' = [db EXCEPT ![h] = @ + 1] /\ UNCHANGED <<content, place>> /\ hook[h].at = "start"
    BY <2>1, WriteIsWrite DEF Log!Next
  <2>2. CASE /\ content' = [content EXCEPT ![hook[h].fd] = @ \cup {h}] /\ UNCHANGED <<db, place>>
             /\ hook[h].at = "append"
    BY <2>2, AppendAccepts DEF Log!Next
  <2>3. CASE UNCHANGED <<db, content>>
    BY <2>3, MovesDrop
  <2>4. \A f \in Files : ~RotatesTo(h, f)
    BY DEF RotatesTo
  <2>5. QED
    BY <1>1, <2>1, <2>2, <2>3, <2>4, HookWrites DEF Once
<1>2. ASSUME NEW p \in Importers, ImporterActs(p) PROVE [Log!Next]_(Log!vars)
  <2>1. CASE importer[p].at \in {"import", "stat"} /\ ImportLines(importer[p].file)
             /\ UNCHANGED <<content, place>>
    BY <2>1, ImportIsImport
  <2>2. ASSUME NEW e \in Exports, place[e].at = "absent",
               place' = [place EXCEPT ![e] = At("temp", Main)],
               content' = [content EXCEPT ![e] = Stored], UNCHANGED db
        PROVE  [Log!Next]_(Log!vars)
    BY <2>2, ExportRepeats
  <2>3. CASE UNCHANGED <<db, content>>
    BY <2>3, MovesDrop
  <2>4. QED
    BY <1>2, <2>1, <2>2, <2>3, ImporterWrites DEF Once
<1>3. CASE UNCHANGED vars
  BY <1>3, MovesDrop DEF vars
<1>4. QED
  BY <1>1, <1>2, <1>3, StepCases

\* The whole pipeline implements the log as long as no hook of the previous
\* release rotates the old path: a record is written to the database or accepted
\* by a file once, and what waits is stored once, or given up when the bound
\* unlinks its segment.  Beyond a rotation, which can store a line again, only a
\* late append to an unlinked segment would break it: that record is accepted
\* when it is already given up.
THEOREM Refinement ==
  ASSUME "unlink" \notin Windows, Rotations = {}
  PROVE  Spec => ImplementsOnceLog
<1>1. Init => QuietSegments
  BY DEF Init, QuietSegments, GivenUp, NoWriter, IdleHook, At
<1>2. Init => Once
  BY InitTyped, InitFiled, InitCounted DEF Once
<1>3. Once /\ [Next]_vars => Once'
  BY StepTyped, StepFiled, StepCounted DEF Once
<1>4. Once /\ QuietSegments /\ [Next]_vars => QuietSegments'
  BY StepQuiet
<1>5. Once /\ QuietSegments /\ [Next]_vars => [Log!Next]_(Log!vars)
  BY LogStep
<1>6. QED
  BY <1>1, <1>2, <1>3, <1>4, <1>5, LogInit, PTL DEF Spec, ImplementsOnceLog, Log!Spec
=============================================================================
