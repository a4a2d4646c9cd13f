---------------------------- MODULE Access_proofs ----------------------------
(*****************************************************************************)
(* Proofs about what runs reach for their user: the files of the workspace,  *)
(* the personal assistant and GitHub, for any number of helpers, turns,      *)
(* publishing calls, writes and faults; and that all that is reached through *)
(* the API keeps its types together.                                         *)
(*****************************************************************************)
EXTENDS MCAccess, Account_proofs, FiniteSetTheorems

-----------------------------------------------------------------------------
(*****************************************************************************)
(* WorkspaceFile: receipts are true, and no update is lost.                  *)
(*****************************************************************************)

HelperRow ==
    [kind : {"none", "write", "edit", "page", "rollback", "orphan"},
     at : {"idle", "prepared", "checked", "done", "failed"},
     expected : Versions \cup {Absent, AnyVersion}, new : Versions \cup {Absent},
     seen : [FileLines -> 0..2], followed : BOOLEAN, for : Rollbacks \cup {"none"},
     moved : BOOLEAN]
ChangeRow ==
    [status : {"none", "pending", "confirmed", "unknown"}, before : Versions \cup {Absent},
     after : Versions \cup {Absent}, retained : BOOLEAN, applied : BOOLEAN,
     rollback : {"none", "pending", "conflict", "unknown", "completed"},
     by : Rollbacks \cup {"none"}]
RollingRow ==
    [at : {"idle", "read", "writing", "save", "done"},
     status : {"none", "pending", "conflict", "unknown", "completed"},
     current : Versions \cup {Absent}]
ObservedRow == [sha : Versions \cup {Absent}, text : [FileLines -> 0..2]]

\* The rows with their domains.
FileTables ==
    /\ target \in Versions \cup {Absent, Odd}
    /\ pathLock \in Helpers \cup {"none"}
    /\ helper \in [Helpers -> HelperRow]
    /\ observed \in ObservedRow
    /\ change \in ChangeRow
    /\ rolling \in [Rollbacks -> RollingRow]
    /\ fileGuard \in Rollbacks \cup {"none", "run"}
    /\ restores \in Nat /\ lostGuards \in Nat

\* What a run remembers of a line is what the version it remembers holds there.
ObservedTrue == \A l \in FileLines : observed.text[l] # 2 => observed.sha # Absent /\ observed.text[l] = observed.sha[l]

\* A helper that has checked the version holds the lock, the version stays unless a command
\* writes, and the write tool was started by a run that had seen the whole version.
HelperTrue(h) ==
    /\ helper[h].at = "checked" <=> pathLock = h
    /\ (helper[h].at = "checked" /\ helper[h].expected \in Versions) =>
           helper[h].moved \/ target = helper[h].expected
    /\ (helper[h].kind = "write" /\ helper[h].expected # Absent) =>
           helper[h].seen = helper[h].expected
    /\ helper[h].kind \in {"write", "edit"} => helper[h].new \in Versions
    /\ helper[h].kind = "rollback" => helper[h].for \in Rollbacks
    /\ helper[h].followed => change.status # "none"
    /\ (helper[h].followed /\ helper[h].at = "done") => change.applied
    /\ (helper[h].at = "done" /\ helper[h].for # "none") => restores > 0

RollingTrue(r) ==
    /\ rolling[r].status = "completed" => restores > 0
    /\ rolling[r].at = "save" => rolling[r].status \in {"completed", "unknown"}

ChangeTrue ==
    /\ change.status = "confirmed" => change.applied
    /\ change.rollback = "completed" => restores > 0

\* Where a restoration may still come from: a helper on its way, a request that lost the guard
\* after it had read, and the holder of the guard or, while a restoration may begin, the next.
Restoring == {h \in Helpers : helper[h].for # "none" /\ helper[h].at \in {"prepared", "checked"}}
Unguarded == {r \in Rollbacks : rolling[r].at = "read" /\ fileGuard # r}
Open == change.rollback \in {"none", "conflict"}
Guarded == \E r \in Rollbacks : rolling[r].at = "read" /\ fileGuard = r
NextRestore == IF Open \/ Guarded THEN 1 ELSE 0

\* Every one beyond the first is paid for by a lost guard.
RestoresPaid ==
    /\ IsFiniteSet(Restoring) /\ IsFiniteSet(Unguarded)
    /\ restores + Cardinality(Restoring) + Cardinality(Unguarded) + NextRestore <= 1 + lostGuards

FileInv ==
    /\ FileTables
    /\ ObservedTrue
    /\ \A h \in Helpers : HelperTrue(h)
    /\ \A r \in Rollbacks : RollingTrue(r)
    /\ ChangeTrue
    /\ RestoresPaid

-----------------------------------------------------------------------------
\* The values of the model.

LEMMA FileValues ==
    /\ ToolText \in Versions /\ PageText \in Versions /\ ShellText \in Versions
    /\ Absent \notin Versions /\ Odd \notin Versions /\ AnyVersion \notin Versions
    /\ Odd # AnyVersion /\ Absent # Odd /\ Absent # AnyVersion
    /\ Blank \in [FileLines -> 0..2]
    /\ Versions \subseteq [FileLines -> 0..2]
    /\ \A v \in Versions, l \in FileLines : v[l] # 2
    /\ \A l \in FileLines : Blank[l] = 2
    /\ [l \in FileLines |-> 0] \in Versions
<1>1. ToolText \in Versions /\ PageText \in Versions /\ ShellText \in Versions
  BY DEF ToolText, PageText, ShellText, Versions, FileLines
<1>2. Absent \notin Versions BY DEF Absent, Versions, FileLines
<1>3. Odd \notin Versions /\ AnyVersion \notin Versions
  BY DEF Odd, AnyVersion, Versions, FileLines
<1>4. Odd # AnyVersion /\ Absent # Odd /\ Absent # AnyVersion BY DEF Odd, AnyVersion, Absent
<1>5. Blank \in [FileLines -> 0..2] BY DEF Blank, FileLines
<1>6. Versions \subseteq [FileLines -> 0..2] BY DEF Versions
<1>7. \A v \in Versions, l \in FileLines : v[l] # 2 BY DEF Versions
<1>8. \A l \in FileLines : Blank[l] = 2 BY DEF Blank
<1>9. [l \in FileLines |-> 0] \in Versions BY DEF Versions
<1> QED BY <1>1, <1>2, <1>3, <1>4, <1>5, <1>6, <1>7, <1>8, <1>9

LEMMA Guards == "none" \notin Helpers /\ "none" \notin Rollbacks /\ "run" \notin Rollbacks
BY FileConstants DEF FileConstants

LEMMA RestingRow == Resting_ \in HelperRow
BY FileValues DEF Resting_, HelperRow

LEMMA FileInitially == FileInit => FileInv
<1> SUFFICES ASSUME FileInit PROVE FileInv OBVIOUS
<1> USE DEF FileInit
<1>1. FileTables
  <2>1. target \in Versions \cup {Absent, Odd} BY FileValues
  <2>2. helper \in [Helpers -> HelperRow] BY RestingRow
  <2>3. observed \in ObservedRow BY FileValues DEF Unseen, ObservedRow
  <2>4. change \in ChangeRow BY DEF NoChange, ChangeRow
  <2>5. Unasked \in RollingRow BY DEF Unasked, RollingRow
  <2>6. rolling \in [Rollbacks -> RollingRow] BY <2>5
  <2> QED BY <2>1, <2>2, <2>3, <2>4, <2>6 DEF FileTables
<1>2. ObservedTrue BY FileValues DEF ObservedTrue, Unseen
<1>3. ASSUME NEW h \in Helpers PROVE HelperTrue(h)
  BY <1>3, Guards DEF HelperTrue, Resting_
<1>4. ASSUME NEW r \in Rollbacks PROVE RollingTrue(r) BY <1>4 DEF RollingTrue, Unasked
<1>5. ChangeTrue BY DEF ChangeTrue, NoChange
<1>6. RestoresPaid
  <2>1. Restoring = {} BY DEF Restoring, Resting_
  <2>2. Unguarded = {} BY DEF Unguarded, Unasked
  <2>3. NextRestore = 1 BY DEF NextRestore, Open, NoChange
  <2>4. IsFiniteSet({}) /\ Cardinality({}) = 0 BY FS_EmptySet
  <2> QED BY <2>1, <2>2, <2>3, <2>4 DEF RestoresPaid
<1> QED BY <1>1, <1>2, <1>3, <1>4, <1>5, <1>6 DEF FileInv

-----------------------------------------------------------------------------
\* What steps have in common.

\* What is recorded is not taken back.
RecordKept ==
    /\ change.status # "none" => change'.status # "none"
    /\ change.applied => change'.applied
    /\ restores > 0 => restores' > 0

\* A helper that does not move.
LEMMA HelperKept ==
    ASSUME NEW h \in Helpers, HelperTrue(h), helper'[h] = helper[h],
           (pathLock' = h) <=> (pathLock = h),
           target' = target \/ helper[h].at # "checked",
           RecordKept
    PROVE  HelperTrue(h)'
BY DEF HelperTrue, RecordKept

\* A step that opens no way to a restoration.
LEMMA PaidKept ==
    ASSUME FileTables, FileTables', RestoresPaid,
           Restoring' \subseteq Restoring, Unguarded' \subseteq Unguarded,
           (Open \/ Guarded)' => Open \/ Guarded,
           restores' = restores, lostGuards' = lostGuards
    PROVE  RestoresPaid'
<1>1. /\ IsFiniteSet(Restoring') /\ IsFiniteSet(Unguarded')
      /\ Cardinality(Restoring') <= Cardinality(Restoring)
      /\ Cardinality(Unguarded') <= Cardinality(Unguarded)
  BY FS_Subset DEF RestoresPaid
<1>2. /\ Cardinality(Restoring') \in Nat /\ Cardinality(Restoring) \in Nat
      /\ Cardinality(Unguarded') \in Nat /\ Cardinality(Unguarded) \in Nat
  BY <1>1, FS_CardinalityType DEF RestoresPaid
<1>3. NextRestore' <= NextRestore /\ NextRestore \in {0, 1} /\ NextRestore' \in {0, 1} BY DEF NextRestore
<1> QED BY <1>1, <1>2, <1>3 DEF RestoresPaid, FileTables

\* A helper that starts, and a helper whose row changes in one or two fields.
LEMMA HelperStarts ==
    ASSUME FileTables, NEW h \in Helpers, NEW kind \in {"write", "edit", "page", "rollback"},
           NEW expected \in Versions \cup {Absent, AnyVersion}, NEW new \in Versions \cup {Absent},
           NEW follow \in BOOLEAN, NEW request \in Rollbacks \cup {"none"},
           StartHelper(h, kind, expected, new, follow, request)
    PROVE  /\ helper' \in [Helpers -> HelperRow]
           /\ \A g \in Helpers \ {h} : helper'[g] = helper[g]
           /\ helper[h].at = "idle" /\ helper[h].for = "none"
           /\ helper'[h].kind = kind /\ helper'[h].at = "prepared" /\ helper'[h].for = request
           /\ helper'[h].expected = expected /\ helper'[h].new = new
           /\ helper'[h].followed = follow
           /\ helper'[h].seen = IF kind = "write" THEN observed.text ELSE Blank
<1>1. PICK seen \in [FileLines -> 0..2] : seen = IF kind = "write" THEN observed.text ELSE Blank
  BY FileValues DEF FileTables, ObservedRow
<1> DEFINE row == [Resting_ EXCEPT !.kind = kind, !.at = "prepared", !.expected = expected,
                       !.new = new, !.followed = follow, !.for = request, !.seen = seen]
<1>2. helper[h] = Resting_ /\ helper' = [helper EXCEPT ![h] = row] BY <1>1, Zenon DEF StartHelper
<1>3. row \in HelperRow BY RestingRow DEF HelperRow
<1>4. /\ row.kind = kind /\ row.at = "prepared" /\ row.for = request
      /\ row.expected = expected /\ row.new = new /\ row.followed = follow /\ row.seen = seen
  BY RestingRow DEF HelperRow
<1>5. helper[h].at = "idle" /\ helper[h].for = "none" BY <1>2 DEF Resting_
<1> HIDE DEF row
<1>6. helper' \in [Helpers -> HelperRow] /\ helper'[h] = row BY <1>2, <1>3, Zenon DEF FileTables
<1>7. \A g \in Helpers \ {h} : helper'[g] = helper[g] BY <1>2 DEF FileTables
<1> QED BY <1>1, <1>4, <1>5, <1>6, <1>7

LEMMA HelperMoves ==
    ASSUME FileTables, NEW h \in Helpers, NEW at \in {"checked", "done", "failed"},
           helper' = [helper EXCEPT ![h].at = at]
    PROVE  /\ helper' \in [Helpers -> HelperRow]
           /\ \A g \in Helpers \ {h} : helper'[g] = helper[g]
           /\ helper'[h].at = at /\ helper'[h].kind = helper[h].kind /\ helper'[h].new = helper[h].new
           /\ helper'[h].expected = helper[h].expected /\ helper'[h].seen = helper[h].seen
           /\ helper'[h].followed = helper[h].followed /\ helper'[h].for = helper[h].for
           /\ helper'[h].moved = helper[h].moved
<1>1. PICK row \in HelperRow : row = helper[h] BY DEF FileTables
<1>2. helper' = [helper EXCEPT ![h] = [row EXCEPT !.at = at]] BY <1>1 DEF FileTables
<1>3. [row EXCEPT !.at = at] \in HelperRow BY <1>1 DEF HelperRow
<1> QED BY <1>1, <1>2, <1>3 DEF FileTables, HelperRow

LEMMA HelperOrphaned ==
    ASSUME FileTables, NEW h \in Helpers, helper' = [helper EXCEPT ![h].kind = "orphan"]
    PROVE  /\ helper' \in [Helpers -> HelperRow]
           /\ \A g \in Helpers \ {h} : helper'[g] = helper[g]
           /\ helper'[h].kind = "orphan" /\ helper'[h].at = helper[h].at
           /\ helper'[h].expected = helper[h].expected /\ helper'[h].moved = helper[h].moved
           /\ helper'[h].followed = helper[h].followed /\ helper'[h].for = helper[h].for
<1>1. PICK row \in HelperRow : row = helper[h] BY DEF FileTables
<1>2. helper' = [helper EXCEPT ![h] = [row EXCEPT !.kind = "orphan"]] BY <1>1 DEF FileTables
<1>3. [row EXCEPT !.kind = "orphan"] \in HelperRow BY <1>1 DEF HelperRow
<1> QED BY <1>1, <1>2, <1>3 DEF FileTables, HelperRow

LEMMA HelperRests ==
    ASSUME FileTables, NEW h \in Helpers, helper' = [helper EXCEPT ![h] = Resting_]
    PROVE  /\ helper' \in [Helpers -> HelperRow]
           /\ \A g \in Helpers \ {h} : helper'[g] = helper[g]
           /\ helper'[h] = Resting_
BY RestingRow DEF FileTables

LEMMA RestingTrue ==
    ASSUME NEW h \in Helpers, helper'[h] = Resting_, pathLock' # h
    PROVE  HelperTrue(h)'
BY DEF HelperTrue, Resting_

-----------------------------------------------------------------------------
\* The run and its tools.

\* A complete observation shows the version.
LEMMA CompleteIsVersion ==
    ASSUME FileTables, ObservedTrue, Complete
    PROVE  observed.sha \in Versions /\ observed.text = observed.sha
<1>1. \A l \in FileLines : observed.text[l] # 2 BY FileValues DEF Complete, SeenLines
<1>2. observed.sha \in Versions /\ \A l \in FileLines : observed.text[l] = observed.sha[l]
  BY <1>1 DEF ObservedTrue, FileTables, ObservedRow, FileLines
<1> QED BY <1>2 DEF FileTables, ObservedRow, Versions

LEMMA GuardKeeps ==
    ASSUME FileInv, RunTakesGuard \/ RunLeavesGuard \/ \E lines \in SUBSET FileLines : ReadPage(lines)
    PROVE  FileInv'
<1> USE DEF FileInv
<1>1. UNCHANGED <<target, pathLock, helper, change, rolling, restores, lostGuards>>
  BY DEF RunTakesGuard, RunLeavesGuard, ReadPage
<1>2. fileGuard' = fileGuard \/ (fileGuard \notin Rollbacks /\ fileGuard' \in {"none", "run"})
  BY Guards DEF RunTakesGuard, RunLeavesGuard, ReadPage
<1>3. observed' \in ObservedRow /\ ObservedTrue'
  <2>1. CASE RunTakesGuard \/ RunLeavesGuard
    <3>1. observed' \in {observed, Unseen} BY <2>1 DEF RunTakesGuard, RunLeavesGuard
    <3>2. Unseen \in ObservedRow BY FileValues DEF Unseen, ObservedRow
    <3> QED BY <3>1, <3>2, FileValues DEF FileTables, ObservedTrue, Unseen
  <2>2. ASSUME NEW lines \in SUBSET FileLines, ReadPage(lines) PROVE observed' \in ObservedRow /\ ObservedTrue'
    <3>1. PICK version \in Versions : version = target BY <2>2 DEF ReadPage
    <3>2. PICK earlier \in [FileLines -> 0..2] :
              earlier = IF observed.sha = version THEN observed.text ELSE Blank
      BY FileValues DEF FileTables, ObservedRow
    <3>3. \A l \in FileLines : earlier[l] # 2 => earlier[l] = version[l]
      BY <3>2, FileValues DEF ObservedTrue
    <3>4. observed' = ObserveRead(version, lines) BY <2>2, <3>1 DEF ReadPage, Page
    <3>5. observed' = [sha |-> version,
                       text |-> [l \in FileLines |-> IF l \in lines THEN version[l] ELSE earlier[l]]]
      BY <3>2, <3>4, Zenon DEF ObserveRead
    <3>6. [l \in FileLines |-> IF l \in lines THEN version[l] ELSE earlier[l]] \in [FileLines -> 0..2]
      BY DEF Versions
    <3>7. observed' \in ObservedRow BY <3>6, <3>5 DEF ObservedRow
    <3> QED BY <3>7, <3>3, <3>5, FileValues DEF ObservedTrue
  <2> QED BY <2>1, <2>2
<1>4. FileTables' BY <1>1, <1>2, <1>3 DEF FileTables
<1>5. RecordKept BY <1>1 DEF RecordKept
<1>6. \A h \in Helpers : HelperTrue(h)' BY <1>1, <1>5, HelperKept
<1>7. \A r \in Rollbacks : RollingTrue(r)' BY <1>1 DEF RollingTrue
<1>8. ChangeTrue' BY <1>1 DEF ChangeTrue
<1>9. RestoresPaid'
  <2>1. Restoring' = Restoring BY <1>1 DEF Restoring
  <2>2. Unguarded' = Unguarded BY <1>1, <1>2, Guards DEF Unguarded
  <2>3. Guarded' = Guarded /\ Open' = Open BY <1>1, <1>2, Guards DEF Guarded, Open
  <2> QED BY <1>1, <1>4, <2>1, <2>2, <2>3, PaidKept
<1> QED BY <1>3, <1>4, <1>6, <1>7, <1>8, <1>9

\* The intent of a followed change is the first thing recorded.
LEMMA CaptureRecords ==
    ASSUME FileTables, ChangeTrue, NEW before \in Versions \cup {Absent}, NEW after \in Versions,
           NEW follow \in BOOLEAN, MayFollow(follow), CaptureChange(before, after, follow),
           restores' = restores
    PROVE  /\ change' \in ChangeRow /\ RecordKept /\ ChangeTrue' /\ Open' = Open
           /\ follow => change'.status # "none"
<1>1. CASE ~follow
  <2>1. change' = change BY <1>1 DEF CaptureChange
  <2> QED BY <1>1, <2>1 DEF FileTables, RecordKept, ChangeTrue, Open
<1>2. CASE follow
  <2>1. change = NoChange BY <1>2 DEF MayFollow
  <2>2. PICK kept \in BOOLEAN : kept = (target = before /\ before # Absent) OBVIOUS
  <2>3. change' = [NoChange EXCEPT !.status = "pending", !.before = before, !.after = after, !.retained = kept]
    BY <1>2, <2>2, Zenon DEF CaptureChange
  <2>4. NoChange \in ChangeRow BY DEF NoChange, ChangeRow
  <2>5. change' \in ChangeRow BY <2>3, <2>4 DEF ChangeRow
  <2>6. /\ change'.status = "pending" /\ change'.rollback = "none"
        /\ change.rollback = "none" /\ ~change.applied /\ change.status = "none"
    BY <2>1, <2>3 DEF NoChange
  <2> QED BY <2>5, <2>6 DEF RecordKept, ChangeTrue, Open
<1> QED BY <1>1, <1>2

LEMMA ToolStarts ==
    ASSUME FileInv, NEW h \in Helpers, WriteTool(h) \/ EditTool(h)
    PROVE  FileInv'
<1> USE DEF FileInv
<1>1. PICK kind \in {"write", "edit"}, new \in Versions, follow \in BOOLEAN :
          /\ MayFollow(follow) /\ CaptureChange(observed.sha, new, follow)
          /\ StartHelper(h, kind, observed.sha, new, follow, "none")
          /\ kind = "write" => observed = Unseen \/ Complete
  <2>1. CASE WriteTool(h) BY <2>1, FileValues DEF WriteTool
  <2>2. CASE EditTool(h)
    <3>1. PICK l \in SeenLines, follow \in BOOLEAN :
              /\ MayFollow(follow) /\ CaptureChange(observed.sha, [observed.sha EXCEPT ![l] = 1 - @], follow)
              /\ StartHelper(h, "edit", observed.sha, [observed.sha EXCEPT ![l] = 1 - @], follow, "none")
      BY <2>2 DEF EditTool
    <3>2. PICK version \in Versions : version = observed.sha
      BY FileValues DEF SeenLines, ObservedTrue, FileTables, ObservedRow
    <3>3. [version EXCEPT ![l] = 1 - @] \in Versions BY DEF SeenLines, Versions, FileLines
    <3> QED BY <3>1, <3>2, <3>3
  <2> QED BY <2>1, <2>2
<1>2. UNCHANGED <<target, pathLock, observed, rolling, fileGuard, restores, lostGuards>>
  BY DEF WriteTool, EditTool
<1>3. observed.sha \in Versions \cup {Absent} BY DEF FileTables, ObservedRow
<1>4. /\ change' \in ChangeRow /\ RecordKept /\ ChangeTrue' /\ Open' = Open
      /\ follow => change'.status # "none"
  BY <1>1, <1>2, <1>3, CaptureRecords
<1>5. /\ helper' \in [Helpers -> HelperRow]
      /\ \A g \in Helpers \ {h} : helper'[g] = helper[g]
      /\ helper[h].at = "idle"
      /\ helper'[h].kind = kind /\ helper'[h].at = "prepared" /\ helper'[h].for = "none"
      /\ helper'[h].expected = observed.sha /\ helper'[h].new = new /\ helper'[h].followed = follow
      /\ helper'[h].seen = IF kind = "write" THEN observed.text ELSE Blank
  BY <1>1, <1>3, HelperStarts
<1>6. FileTables' BY <1>2, <1>4, <1>5 DEF FileTables
<1>7. ObservedTrue' BY <1>2 DEF ObservedTrue
<1>8. ASSUME NEW g \in Helpers PROVE HelperTrue(g)'
  <2>1. CASE g # h BY <1>2, <1>4, <1>5, <2>1, HelperKept
  <2>2. CASE g = h
    <3>1. pathLock # h BY <1>5 DEF HelperTrue
    <3>2. (kind = "write" /\ observed.sha # Absent) => observed.text = observed.sha
      BY <1>1, CompleteIsVersion DEF Unseen
    <3> QED BY <1>1, <1>2, <1>4, <1>5, <2>2, <3>1, <3>2 DEF HelperTrue
  <2> QED BY <2>1, <2>2
<1>9. \A r \in Rollbacks : RollingTrue(r)' BY <1>2 DEF RollingTrue
<1>10. RestoresPaid'
  <2>1. Restoring' \subseteq Restoring BY <1>5 DEF Restoring
  <2>2. Unguarded' = Unguarded /\ Guarded' = Guarded BY <1>2 DEF Unguarded, Guarded
  <2> QED BY <1>2, <1>4, <1>6, <2>1, <2>2, PaidKept
<1> QED BY <1>4, <1>6, <1>7, <1>8, <1>9, <1>10

\* The receipt of a tool call: confirmed only by a helper that is done.
LEMMA FinishRecords ==
    ASSUME FileTables, ChangeTrue, NEW h \in Helpers, HelperTrue(h), NEW status \in {"confirmed", "unknown"},
           FinishChange(h, status), status = "confirmed" => helper[h].at = "done", restores' = restores
    PROVE  /\ change' \in ChangeRow /\ RecordKept /\ ChangeTrue' /\ Open' = Open
<1>1. CASE ~helper[h].followed
  <2>1. change' = change BY <1>1 DEF FinishChange
  <2> QED BY <2>1 DEF FileTables, RecordKept, ChangeTrue, Open
<1>2. CASE helper[h].followed
  <2>1. PICK row \in ChangeRow : row = change BY DEF FileTables
  <2>2. change' = [row EXCEPT !.status = status] BY <1>2, <2>1 DEF FinishChange
  <2>3. change' \in ChangeRow BY <2>2 DEF ChangeRow
  <2>4. /\ change'.status = status /\ change'.rollback = change.rollback
        /\ change'.applied = change.applied
    BY <2>1, <2>2 DEF ChangeRow
  <2>5. status = "confirmed" => change.applied BY <1>2 DEF HelperTrue
  <2> QED BY <2>3, <2>4, <2>5 DEF RecordKept, ChangeTrue, Open
<1> QED BY <1>1, <1>2

LEMMA ReceiptKeeps ==
    ASSUME FileInv, NEW h \in Helpers, ToolConfirmed(h) \/ ToolRefused(h) \/ ToolUnanswered(h)
    PROVE  FileInv'
<1> USE DEF FileInv
<1>1. UNCHANGED <<target, pathLock, rolling, fileGuard, restores, lostGuards>>
  BY DEF ToolConfirmed, ToolRefused, ToolUnanswered
<1>2. change' \in ChangeRow /\ RecordKept /\ ChangeTrue' /\ Open' = Open
  BY <1>1, FinishRecords DEF ToolConfirmed, ToolRefused, ToolUnanswered
<1>3. observed' \in ObservedRow /\ ObservedTrue'
  <2>1. CASE observed' = observed BY <2>1 DEF FileTables, ObservedTrue
  <2>2. CASE observed' = Unseen
    <3>1. Unseen \in ObservedRow BY FileValues DEF Unseen, ObservedRow
    <3> QED BY <2>2, <3>1, FileValues DEF ObservedTrue, Unseen
  <2>3. CASE observed' = [sha |-> helper[h].new, text |-> helper[h].new] /\ helper[h].new \in Versions
    <3>1. PICK version \in Versions : version = helper[h].new BY <2>3
    <3>2. [sha |-> version, text |-> version] \in ObservedRow BY FileValues DEF ObservedRow
    <3> QED BY <2>3, <3>1, <3>2, FileValues DEF ObservedTrue
  <2>4. helper[h].kind \in {"write", "edit"} => helper[h].new \in Versions BY DEF HelperTrue
  <2> QED BY <2>1, <2>2, <2>3, <2>4 DEF ToolConfirmed, ToolRefused, ToolUnanswered
<1>4. \/ helper' = [helper EXCEPT ![h] = Resting_] /\ helper[h].at \in {"done", "failed"}
      \/ helper' = [helper EXCEPT ![h].kind = "orphan"]
  BY DEF ToolConfirmed, ToolRefused, ToolUnanswered
<1>5. /\ helper' \in [Helpers -> HelperRow]
      /\ \A g \in Helpers \ {h} : helper'[g] = helper[g]
      /\ Restoring' \subseteq Restoring
      /\ RecordKept => HelperTrue(h)'
  <2>1. CASE helper' = [helper EXCEPT ![h] = Resting_] /\ helper[h].at \in {"done", "failed"}
    <3>1. /\ helper' \in [Helpers -> HelperRow] /\ helper'[h] = Resting_
          /\ \A g \in Helpers \ {h} : helper'[g] = helper[g]
      BY <2>1, HelperRests
    <3>2. pathLock' # h BY <1>1, <2>1 DEF HelperTrue
    <3>3. Restoring' \subseteq Restoring BY <3>1 DEF Restoring, Resting_
    <3> QED BY <3>1, <3>2, <3>3, RestingTrue
  <2>2. CASE helper' = [helper EXCEPT ![h].kind = "orphan"]
    <3>1. /\ helper' \in [Helpers -> HelperRow]
          /\ \A g \in Helpers \ {h} : helper'[g] = helper[g]
          /\ helper'[h].kind = "orphan" /\ helper'[h].at = helper[h].at
          /\ helper'[h].expected = helper[h].expected /\ helper'[h].moved = helper[h].moved
          /\ helper'[h].followed = helper[h].followed /\ helper'[h].for = helper[h].for
      BY <2>2, HelperOrphaned
    <3>2. Restoring' \subseteq Restoring BY <3>1 DEF Restoring
    <3>3. RecordKept => HelperTrue(h)' BY <1>1, <3>1 DEF HelperTrue, RecordKept
    <3> QED BY <3>1, <3>2, <3>3
  <2> QED BY <1>4, <2>1, <2>2
<1>6. FileTables' BY <1>1, <1>2, <1>3, <1>5 DEF FileTables
<1>7. \A g \in Helpers : HelperTrue(g)'
  <2>1. \A g \in Helpers \ {h} : HelperTrue(g)' BY <1>1, <1>2, <1>5, HelperKept
  <2> QED BY <1>2, <1>5, <2>1
<1>8. \A r \in Rollbacks : RollingTrue(r)' BY <1>1 DEF RollingTrue
<1>9. RestoresPaid'
  <2>1. Unguarded' = Unguarded /\ Guarded' = Guarded BY <1>1 DEF Unguarded, Guarded
  <2> QED BY <1>1, <1>2, <1>5, <1>6, <2>1, PaidKept
<1> QED BY <1>2, <1>3, <1>6, <1>7, <1>8, <1>9

-----------------------------------------------------------------------------
\* The helper process, the editor and commands.

LEMMA ToolCheckKeeps ==
    ASSUME FileInv, NEW h \in Helpers, CheckVersion(h) \/ HelperFails(h)
    PROVE  FileInv'
<1> USE DEF FileInv
<1>1. UNCHANGED <<target, observed, change, rolling, fileGuard, restores, lostGuards>>
  BY DEF CheckVersion, HelperFails
<1>2. PICK at \in {"checked", "failed"} :
          /\ helper' = [helper EXCEPT ![h].at = at]
          /\ helper[h].at \in {"prepared", "checked"}
          /\ at = "checked" =>
                 /\ pathLock = "none" /\ pathLock' = h
                 /\ helper[h].expected \in Versions => target = helper[h].expected
          /\ at = "failed" => pathLock' = IF pathLock = h THEN "none" ELSE pathLock
  <2>1. CASE HelperFails(h) BY <2>1 DEF HelperFails
  <2>2. CASE CheckVersion(h)
    <3>1. helper[h].at = "prepared" /\ pathLock = "none" BY <2>2 DEF CheckVersion, PathLockFree
    <3>2. CASE target # Odd /\ (helper[h].expected \in Versions => target = helper[h].expected)
      BY <2>2, <3>1, <3>2 DEF CheckVersion
    <3>3. CASE ~(target # Odd /\ (helper[h].expected \in Versions => target = helper[h].expected))
      BY <2>2, <3>1, <3>3, Guards DEF CheckVersion
    <3> QED BY <3>2, <3>3
  <2> QED BY <2>1, <2>2
<1>3. /\ helper' \in [Helpers -> HelperRow]
      /\ \A g \in Helpers \ {h} : helper'[g] = helper[g]
      /\ helper'[h].at = at /\ helper'[h].kind = helper[h].kind /\ helper'[h].new = helper[h].new
      /\ helper'[h].expected = helper[h].expected /\ helper'[h].seen = helper[h].seen
      /\ helper'[h].followed = helper[h].followed /\ helper'[h].for = helper[h].for
      /\ helper'[h].moved = helper[h].moved
  BY <1>2, HelperMoves
<1>4. FileTables' BY <1>1, <1>2, <1>3 DEF FileTables
<1>5. RecordKept BY <1>1 DEF RecordKept
<1>6. ASSUME NEW g \in Helpers PROVE HelperTrue(g)'
  <2>1. CASE g # h
    <3>1. (pathLock' = g) <=> (pathLock = g) BY <1>2, <2>1, Guards
    <3> QED BY <1>1, <1>3, <1>5, <2>1, <3>1, HelperKept
  <2>2. CASE g = h
    <3>1. helper'[h].at = "checked" <=> pathLock' = h BY <1>2, <1>3, Guards
    <3> QED BY <1>1, <1>2, <1>3, <2>2, <3>1 DEF HelperTrue
  <2> QED BY <2>1, <2>2
<1>7. \A r \in Rollbacks : RollingTrue(r)' BY <1>1 DEF RollingTrue
<1>8. ObservedTrue' /\ ChangeTrue' BY <1>1 DEF ObservedTrue, ChangeTrue
<1>9. RestoresPaid'
  <2>1. Restoring' \subseteq Restoring BY <1>2, <1>3 DEF Restoring
  <2>2. Unguarded' = Unguarded /\ Guarded' = Guarded /\ Open' = Open BY <1>1 DEF Unguarded, Guarded, Open
  <2> QED BY <1>1, <1>4, <2>1, <2>2, PaidKept
<1> QED BY <1>4, <1>6, <1>7, <1>8, <1>9

LEMMA CommitKeeps ==
    ASSUME FileInv, NEW h \in Helpers, CommitWrite(h)
    PROVE  FileInv'
<1> USE DEF FileInv
<1>1. /\ UNCHANGED <<observed, rolling, fileGuard, lostGuards>>
      /\ helper[h].at = "checked" /\ pathLock = h /\ pathLock' = "none"
  BY DEF CommitWrite, HelperTrue
<1>2. PICK at \in {"done", "failed"} :
          /\ helper' = [helper EXCEPT ![h].at = at]
          /\ at = "failed" => UNCHANGED <<target, restores, change>>
          /\ at = "done" => /\ target' = helper[h].new
                            /\ restores' = IF helper[h].for # "none" THEN restores + 1 ELSE restores
                            /\ change' = IF helper[h].followed THEN [change EXCEPT !.applied = TRUE] ELSE change
  <2>1. CASE target = Odd \/ (helper[h].expected = Absent /\ target # Absent) BY <2>1 DEF CommitWrite
  <2>2. CASE ~(target = Odd \/ (helper[h].expected = Absent /\ target # Absent)) BY <2>2 DEF CommitWrite
  <2> QED BY <2>1, <2>2
<1>3. /\ helper' \in [Helpers -> HelperRow]
      /\ \A g \in Helpers \ {h} : helper'[g] = helper[g]
      /\ helper'[h].at = at /\ helper'[h].kind = helper[h].kind /\ helper'[h].new = helper[h].new
      /\ helper'[h].expected = helper[h].expected /\ helper'[h].seen = helper[h].seen
      /\ helper'[h].followed = helper[h].followed /\ helper'[h].for = helper[h].for
      /\ helper'[h].moved = helper[h].moved
  BY <1>2, HelperMoves
<1>4. /\ change' \in ChangeRow /\ change'.status = change.status /\ change'.rollback = change.rollback
      /\ change.applied => change'.applied
      /\ (helper[h].followed /\ at = "done") => change'.applied
  <2>1. CASE change' = change /\ ~(helper[h].followed /\ at = "done") BY <2>1 DEF FileTables
  <2>2. CASE change' = [change EXCEPT !.applied = TRUE]
    <3>1. PICK row \in ChangeRow : row = change BY DEF FileTables
    <3>2. change' = [row EXCEPT !.applied = TRUE] BY <2>2, <3>1
    <3>3. change' \in ChangeRow BY <3>2 DEF ChangeRow
    <3> QED BY <3>1, <3>2, <3>3 DEF ChangeRow
  <2> QED BY <1>2, <2>1, <2>2
<1>5. /\ restores' \in Nat /\ restores' >= restores
      /\ (at = "done" /\ helper[h].for # "none") => restores' > 0
  BY <1>2 DEF FileTables
<1>6. FileTables'
  <2>1. target' \in Versions \cup {Absent, Odd} BY <1>2 DEF FileTables, HelperRow
  <2> QED BY <1>1, <1>3, <1>4, <1>5, <2>1 DEF FileTables
<1>7. RecordKept BY <1>4, <1>5 DEF RecordKept, FileTables
<1>8. ASSUME NEW g \in Helpers PROVE HelperTrue(g)'
  <2>1. CASE g # h
    <3>1. pathLock' # g /\ pathLock # g BY <1>1, <2>1, Guards
    <3>2. helper[g].at # "checked" BY <3>1 DEF HelperTrue
    <3> QED BY <1>3, <1>7, <2>1, <3>1, <3>2, HelperKept
  <2>2. CASE g = h
    <3>1. helper'[h].at # "checked" /\ pathLock' # h BY <1>1, <1>3, Guards
    <3> QED BY <1>3, <1>4, <1>5, <1>7, <2>2, <3>1 DEF HelperTrue, RecordKept
  <2> QED BY <2>1, <2>2
<1>9. \A r \in Rollbacks : RollingTrue(r)' BY <1>1, <1>7 DEF RollingTrue, RecordKept
<1>10. ObservedTrue' /\ ChangeTrue' BY <1>1, <1>4, <1>7 DEF ObservedTrue, ChangeTrue, RecordKept
<1>11. RestoresPaid'
  <2>1. Unguarded' = Unguarded /\ Guarded' = Guarded /\ Open' = Open BY <1>1, <1>4 DEF Unguarded, Guarded, Open
  <2>2. Restoring' = Restoring \ {h} BY <1>3 DEF Restoring
  <2>3. CASE restores' = restores BY <1>1, <1>6, <2>1, <2>2, <2>3, PaidKept
  <2>4. CASE restores' = restores + 1 /\ helper[h].for # "none"
    <3>1. h \in Restoring BY <1>1, <2>4 DEF Restoring
    <3>2. IsFiniteSet(Restoring') /\ Cardinality(Restoring') = Cardinality(Restoring) - 1
      BY <2>2, <3>1, FS_RemoveElement DEF RestoresPaid
    <3>3. Cardinality(Restoring) \in Nat /\ Cardinality(Unguarded) \in Nat
      BY FS_CardinalityType DEF RestoresPaid
    <3>4. NextRestore' = NextRestore /\ NextRestore \in {0, 1} BY <2>1 DEF NextRestore
    <3> QED BY <1>1, <2>1, <2>4, <3>2, <3>3, <3>4 DEF RestoresPaid, FileTables
  <2> QED BY <1>2, <2>3, <2>4
<1> QED BY <1>6, <1>8, <1>9, <1>10, <1>11

LEMMA EditorKeeps ==
    ASSUME FileInv, NEW h \in Helpers, PageWrite(h) \/ HelperEnds(h)
    PROVE  FileInv'
<1> USE DEF FileInv
<1>1. UNCHANGED <<target, pathLock, observed, change, rolling, fileGuard, restores, lostGuards>>
  BY DEF PageWrite, HelperEnds
<1>2. RecordKept BY <1>1 DEF RecordKept
<1>3. /\ helper' \in [Helpers -> HelperRow]
      /\ \A g \in Helpers \ {h} : helper'[g] = helper[g]
      /\ Restoring' \subseteq Restoring
      /\ HelperTrue(h)'
  <2>1. CASE PageWrite(h)
    <3>1. /\ helper' \in [Helpers -> HelperRow]
          /\ \A g \in Helpers \ {h} : helper'[g] = helper[g]
          /\ helper[h].at = "idle"
          /\ helper'[h].kind = "page" /\ helper'[h].at = "prepared" /\ helper'[h].for = "none"
          /\ helper'[h].followed = FALSE
      <4>1. StartHelper(h, "page", AnyVersion, PageText, FALSE, "none") BY <2>1 DEF PageWrite
      <4>2. FALSE \in BOOLEAN /\ PageText \in Versions \cup {Absent} BY FileValues
      <4> QED BY <4>1, <4>2, HelperStarts
    <3>2. pathLock' # h BY <1>1, <3>1 DEF HelperTrue
    <3>3. HelperTrue(h)' BY <3>1, <3>2 DEF HelperTrue
    <3> QED BY <3>1, <3>3 DEF Restoring
  <2>2. CASE HelperEnds(h)
    <3>1. /\ helper' \in [Helpers -> HelperRow] /\ helper'[h] = Resting_
          /\ \A g \in Helpers \ {h} : helper'[g] = helper[g]
      BY <2>2, HelperRests DEF HelperEnds
    <3>2. pathLock' # h BY <1>1, <2>2 DEF HelperTrue, HelperEnds
    <3>3. Restoring' \subseteq Restoring BY <3>1 DEF Restoring, Resting_
    <3> QED BY <3>1, <3>2, <3>3, RestingTrue
  <2> QED BY <2>1, <2>2
<1>4. FileTables' BY <1>1, <1>3 DEF FileTables
<1>5. \A g \in Helpers : HelperTrue(g)'
  <2>1. \A g \in Helpers \ {h} : HelperTrue(g)' BY <1>1, <1>2, <1>3, HelperKept
  <2> QED BY <1>3, <2>1
<1>6. \A r \in Rollbacks : RollingTrue(r)' BY <1>1 DEF RollingTrue
<1>7. ObservedTrue' /\ ChangeTrue' BY <1>1 DEF ObservedTrue, ChangeTrue
<1>8. RestoresPaid'
  <2>1. Unguarded' = Unguarded /\ Guarded' = Guarded /\ Open' = Open BY <1>1 DEF Unguarded, Guarded, Open
  <2> QED BY <1>1, <1>3, <1>4, <2>1, PaidKept
<1> QED BY <1>4, <1>5, <1>6, <1>7, <1>8

LEMMA ShellKeeps ==
    ASSUME FileInv, ShellWrite
    PROVE  FileInv'
<1> USE DEF FileInv
<1>1. UNCHANGED <<pathLock, observed, change, rolling, fileGuard, restores, lostGuards>>
  BY DEF ShellWrite
<1>2. target' \in Versions \cup {Absent, Odd} BY FileValues DEF ShellWrite
<1>3. ASSUME NEW h \in Helpers
      PROVE  /\ helper'[h] \in HelperRow
             /\ helper'[h].at = helper[h].at /\ helper'[h].kind = helper[h].kind
             /\ helper'[h].expected = helper[h].expected /\ helper'[h].seen = helper[h].seen
             /\ helper'[h].new = helper[h].new
             /\ helper'[h].followed = helper[h].followed /\ helper'[h].for = helper[h].for
             /\ helper[h].at = "checked" => helper'[h].moved
  <2>1. PICK row \in HelperRow : row = helper[h] BY <1>3 DEF FileTables
  <2>2. helper'[h] = IF row.at = "checked" THEN [row EXCEPT !.moved = TRUE] ELSE row
    BY <1>3, <2>1 DEF ShellWrite
  <2>3. [row EXCEPT !.moved = TRUE] \in HelperRow BY DEF HelperRow
  <2> QED BY <2>1, <2>2, <2>3 DEF HelperRow
<1>4. helper' \in [Helpers -> HelperRow]
  <2>1. helper' = [h \in Helpers |-> helper'[h]] BY DEF ShellWrite
  <2> QED BY <1>3, <2>1
<1>5. FileTables' BY <1>1, <1>2, <1>4 DEF FileTables
<1>6. \A h \in Helpers : HelperTrue(h)' BY <1>1, <1>3 DEF HelperTrue
<1>7. \A r \in Rollbacks : RollingTrue(r)' BY <1>1 DEF RollingTrue
<1>8. ObservedTrue' /\ ChangeTrue' BY <1>1 DEF ObservedTrue, ChangeTrue
<1>9. RestoresPaid'
  <2>1. Restoring' \subseteq Restoring BY <1>3 DEF Restoring
  <2>2. Unguarded' = Unguarded /\ Guarded' = Guarded /\ Open' = Open BY <1>1 DEF Unguarded, Guarded, Open
  <2> QED BY <1>1, <1>5, <2>1, <2>2, PaidKept
<1> QED BY <1>5, <1>6, <1>7, <1>8, <1>9

-----------------------------------------------------------------------------
\* Restorations.

\* The row of a request that is answered or saved.
LEMMA RollingMoves ==
    ASSUME FileTables, NEW r \in Rollbacks, NEW row \in RollingRow,
           rolling' = [rolling EXCEPT ![r] = row]
    PROVE  /\ rolling' \in [Rollbacks -> RollingRow] /\ rolling'[r] = row
           /\ \A s \in Rollbacks \ {r} : rolling'[s] = rolling[s]
BY DEF FileTables

\* What a move of one request does to the ways a restoration may come.
LEMMA RequestEnds ==
    ASSUME NEW r \in Rollbacks, rolling'[r].at # "read",
           \A s \in Rollbacks \ {r} : rolling'[s] = rolling[s],
           fileGuard' = fileGuard \/ (fileGuard = r /\ fileGuard' = "none")
    PROVE  /\ Unguarded' = Unguarded \ {r}
           /\ Guarded' => Guarded
           /\ fileGuard = r => ~Guarded'
<1>1. ASSUME NEW s \in Rollbacks \ {r} PROVE (fileGuard' = s) <=> (fileGuard = s) BY Guards
<1> QED BY <1>1 DEF Unguarded, Guarded

LEMMA RestoreBegins ==
    ASSUME FileInv, NEW r \in Rollbacks, BeginRollback(r)
    PROVE  FileInv'
<1> USE DEF FileInv
<1>1. /\ UNCHANGED <<target, pathLock, helper, observed, change, restores, lostGuards>>
      /\ fileGuard = "none" /\ fileGuard' = r /\ Open
  BY DEF BeginRollback, Restorable, Open, FileTables, ChangeRow
<1>2. PICK version \in Versions : version = target BY DEF BeginRollback, Regular
<1>3. PICK row \in RollingRow : /\ row.at = "read" /\ row.status = "none"
                               /\ rolling' = [rolling EXCEPT ![r] = row]
  <2> DEFINE new == [Unasked EXCEPT !.at = "read", !.current = version]
  <2>1. rolling[r] = Unasked /\ rolling' = [rolling EXCEPT ![r].at = "read", ![r].current = version]
    BY <1>2 DEF BeginRollback
  <2>2. rolling' = [rolling EXCEPT ![r] = new] BY <2>1 DEF FileTables
  <2>3. Unasked \in RollingRow BY DEF Unasked, RollingRow
  <2>4. new \in RollingRow /\ new.at = "read" /\ new.status = "none" BY <2>3 DEF Unasked, RollingRow
  <2> QED BY <2>2, <2>4
<1>4. /\ rolling' \in [Rollbacks -> RollingRow]
      /\ rolling'[r].at = "read" /\ rolling'[r].status = "none"
      /\ \A s \in Rollbacks \ {r} : rolling'[s] = rolling[s]
  BY <1>3, RollingMoves
<1>5. FileTables' BY <1>1, <1>4 DEF FileTables
<1>6. RecordKept BY <1>1 DEF RecordKept
<1>7. \A h \in Helpers : HelperTrue(h)' BY <1>1, <1>6, HelperKept
<1>8. \A s \in Rollbacks : RollingTrue(s)' BY <1>1, <1>4 DEF RollingTrue
<1>9. ObservedTrue' /\ ChangeTrue' BY <1>1 DEF ObservedTrue, ChangeTrue
<1>10. RestoresPaid'
  <2>1. Restoring' = Restoring /\ Open' = Open BY <1>1 DEF Restoring, Open
  <2>2. rolling[r].at # "read" BY DEF BeginRollback, Unasked
  <2>3. Unguarded' \subseteq Unguarded BY <1>1, <1>4, <2>2, Guards DEF Unguarded
  <2> QED BY <1>1, <1>5, <2>1, <2>3, PaidKept
<1> QED BY <1>5, <1>7, <1>8, <1>9, <1>10

\* The intent, or the conflict, in the row of the change.
LEMMA IntentRow ==
    ASSUME FileTables, NEW r \in Rollbacks, NEW status \in {"pending", "conflict"},
           change' = [change EXCEPT !.rollback = status, !.by = r]
    PROVE  /\ change' \in ChangeRow /\ change'.rollback = status
           /\ change'.status = change.status /\ change'.applied = change.applied
<1>1. PICK row \in ChangeRow : row = change BY DEF FileTables
<1>2. change' = [row EXCEPT !.rollback = status, !.by = r] BY <1>1
<1> QED BY <1>1, <1>2 DEF ChangeRow

LEMMA IntentKeeps ==
    ASSUME FileInv, NEW r \in Rollbacks, CommitIntent(r)
    PROVE  FileInv'
<1> USE DEF FileInv
<1>1. /\ UNCHANGED <<target, pathLock, observed, restores, lostGuards>>
      /\ rolling[r].at = "read"
  BY DEF CommitIntent
<1>2. PICK row \in RollingRow : row = rolling[r] BY DEF FileTables
<1>3. PICK status \in {"pending", "conflict"} :
          status = IF rolling[r].current = change.after THEN "pending" ELSE "conflict"
  OBVIOUS
<1>4. change' = [change EXCEPT !.rollback = status, !.by = r] BY <1>3 DEF CommitIntent
<1>5. /\ change' \in ChangeRow /\ change'.rollback = status
      /\ change'.status = change.status /\ change'.applied = change.applied
  BY <1>4, IntentRow
<1>6. RecordKept BY <1>1, <1>5 DEF RecordKept
<1>7. ObservedTrue' /\ ChangeTrue' BY <1>1, <1>5 DEF ObservedTrue, ChangeTrue
<1>8. /\ Cardinality(Restoring) \in Nat /\ Cardinality(Unguarded) \in Nat
      /\ NextRestore \in {0, 1} /\ NextRestore' \in {0, 1}
      /\ IsFiniteSet(Unguarded \ {r})
      /\ Cardinality(Unguarded \ {r}) =
             IF r \in Unguarded THEN Cardinality(Unguarded) - 1 ELSE Cardinality(Unguarded)
  <2>1. Cardinality(Restoring) \in Nat /\ Cardinality(Unguarded) \in Nat
    BY FS_CardinalityType DEF RestoresPaid
  <2>2. IsFiniteSet(Unguarded \ {r}) /\ Cardinality(Unguarded \ {r}) =
             IF r \in Unguarded THEN Cardinality(Unguarded) - 1 ELSE Cardinality(Unguarded)
    BY FS_RemoveElement DEF RestoresPaid
  <2> QED BY <2>1, <2>2 DEF NextRestore
<1>9. fileGuard = r \/ r \in Unguarded BY <1>1 DEF Unguarded
<1>10. CASE status = "pending"
  <2>1. PICK h \in Helpers : StartHelper(h, "rollback", change.after, change.before, FALSE, r)
    BY <1>3, <1>10 DEF CommitIntent
  <2>2. /\ helper' \in [Helpers -> HelperRow]
        /\ \A g \in Helpers \ {h} : helper'[g] = helper[g]
        /\ helper[h].at = "idle" /\ helper[h].for = "none"
        /\ helper'[h].kind = "rollback" /\ helper'[h].at = "prepared" /\ helper'[h].for = r
        /\ helper'[h].followed = FALSE
    <3>1. change.after \in Versions \cup {Absent, AnyVersion} /\ change.before \in Versions \cup {Absent}
      BY DEF FileTables, ChangeRow
    <3>2. FALSE \in BOOLEAN OBVIOUS
    <3> QED BY <2>1, <3>1, <3>2, HelperStarts
  <2>3. /\ fileGuard' = fileGuard
        /\ rolling' = [rolling EXCEPT ![r].at = "writing", ![r].status = "pending"]
    BY <1>3, <1>10 DEF CommitIntent
  <2>4. /\ rolling' \in [Rollbacks -> RollingRow]
        /\ rolling'[r].at = "writing" /\ rolling'[r].status = "pending"
        /\ \A s \in Rollbacks \ {r} : rolling'[s] = rolling[s]
    <3>1. rolling' = [rolling EXCEPT ![r] = [row EXCEPT !.at = "writing", !.status = "pending"]]
      BY <1>2, <2>3 DEF FileTables
    <3>2. /\ [row EXCEPT !.at = "writing", !.status = "pending"] \in RollingRow
          /\ [row EXCEPT !.at = "writing", !.status = "pending"].at = "writing"
          /\ [row EXCEPT !.at = "writing", !.status = "pending"].status = "pending"
      BY DEF RollingRow
    <3> QED BY <3>1, <3>2, RollingMoves
  <2>5. FileTables' BY <1>1, <1>5, <2>2, <2>3, <2>4 DEF FileTables
  <2>6. ASSUME NEW g \in Helpers PROVE HelperTrue(g)'
    <3>1. CASE g # h BY <1>1, <1>6, <2>2, <3>1, HelperKept
    <3>2. CASE g = h
      <4>1. pathLock' # h BY <1>1, <2>2 DEF HelperTrue
      <4> QED BY <2>2, <3>2, <4>1 DEF HelperTrue
    <3> QED BY <3>1, <3>2
  <2>7. \A s \in Rollbacks : RollingTrue(s)' BY <1>1, <2>4 DEF RollingTrue
  <2>8. RestoresPaid'
    <3>1. h \notin Restoring /\ Restoring' = Restoring \cup {h} BY <2>2, Guards DEF Restoring
    <3>2. IsFiniteSet(Restoring') /\ Cardinality(Restoring') = Cardinality(Restoring) + 1
      BY <3>1, FS_AddElement DEF RestoresPaid
    <3>3. /\ Unguarded' = Unguarded \ {r}
          /\ Guarded' => Guarded
          /\ fileGuard = r => ~Guarded'
      BY <2>3, <2>4, RequestEnds
    <3>4. ~Open' BY <1>5, <1>10 DEF Open
    <3>5. fileGuard = r => r \notin Unguarded /\ NextRestore = 1 /\ NextRestore' = 0
      BY <1>1, <3>3, <3>4 DEF Unguarded, Guarded, NextRestore
    <3>6. NextRestore' <= NextRestore BY <3>3, <3>4 DEF NextRestore
    <3> QED BY <1>1, <1>8, <1>9, <3>2, <3>3, <3>5, <3>6 DEF RestoresPaid, FileTables
  <2> QED BY <1>7, <2>5, <2>6, <2>7, <2>8
<1>11. CASE status = "conflict"
  <2>1. /\ helper' = helper
        /\ fileGuard' = IF fileGuard = r THEN "none" ELSE fileGuard
        /\ rolling' = [rolling EXCEPT ![r].at = "done", ![r].status = "conflict"]
    BY <1>3, <1>11 DEF CommitIntent, Release_
  <2>2. /\ rolling' \in [Rollbacks -> RollingRow]
        /\ rolling'[r].at = "done" /\ rolling'[r].status = "conflict"
        /\ \A s \in Rollbacks \ {r} : rolling'[s] = rolling[s]
    <3>1. rolling' = [rolling EXCEPT ![r] = [row EXCEPT !.at = "done", !.status = "conflict"]]
      BY <1>2, <2>1 DEF FileTables
    <3>2. /\ [row EXCEPT !.at = "done", !.status = "conflict"] \in RollingRow
          /\ [row EXCEPT !.at = "done", !.status = "conflict"].at = "done"
          /\ [row EXCEPT !.at = "done", !.status = "conflict"].status = "conflict"
      BY DEF RollingRow
    <3> QED BY <3>1, <3>2, RollingMoves
  <2>3. FileTables' BY <1>1, <1>5, <2>1, <2>2 DEF FileTables
  <2>4. \A h \in Helpers : HelperTrue(h)' BY <1>1, <1>6, <2>1, HelperKept
  <2>5. \A s \in Rollbacks : RollingTrue(s)' BY <1>1, <2>2 DEF RollingTrue
  <2>6. RestoresPaid'
    <3>1. Restoring' = Restoring BY <2>1 DEF Restoring
    <3>2. Unguarded' = Unguarded \ {r} BY <2>1, <2>2, RequestEnds
    <3>3. fileGuard = r => NextRestore = 1 BY <1>1 DEF Guarded, NextRestore
    <3>4. IsFiniteSet(Restoring') /\ IsFiniteSet(Unguarded') BY <1>8, <3>1, <3>2 DEF RestoresPaid
    <3>5. Cardinality(Unguarded') + NextRestore' <= Cardinality(Unguarded) + NextRestore
      BY <1>8, <1>9, <3>2, <3>3
    <3>6. Cardinality(Unguarded') \in Nat BY <3>4, FS_CardinalityType
    <3> QED BY <1>1, <1>8, <3>1, <3>4, <3>5, <3>6 DEF RestoresPaid, FileTables
  <2> QED BY <1>7, <2>3, <2>4, <2>5, <2>6
<1> QED BY <1>10, <1>11

LEMMA AnswerKeeps ==
    ASSUME FileInv, NEW h \in Helpers, RollbackAnswered(h) \/ RollbackUnanswered(h)
    PROVE  FileInv'
<1> USE DEF FileInv
<1>1. /\ UNCHANGED <<target, pathLock, observed, change, fileGuard, restores, lostGuards>>
      /\ helper[h].kind = "rollback"
  BY DEF RollbackAnswered, RollbackUnanswered
<1>2. PICK r \in Rollbacks : r = helper[h].for BY <1>1 DEF HelperTrue
<1>3. PICK row \in RollingRow : row = rolling[r] BY DEF FileTables
<1>4. PICK status \in {"completed", "unknown"} :
          /\ rolling' = [rolling EXCEPT ![r].at = "save", ![r].status = status]
          /\ status = "completed" => helper[h].at = "done"
  BY <1>2 DEF RollbackAnswered, RollbackUnanswered
<1>5. /\ rolling' \in [Rollbacks -> RollingRow]
      /\ rolling'[r].at = "save" /\ rolling'[r].status = status
      /\ \A s \in Rollbacks \ {r} : rolling'[s] = rolling[s]
  <2>1. rolling' = [rolling EXCEPT ![r] = [row EXCEPT !.at = "save", !.status = status]]
    BY <1>3, <1>4 DEF FileTables
  <2>2. /\ [row EXCEPT !.at = "save", !.status = status] \in RollingRow
        /\ [row EXCEPT !.at = "save", !.status = status].at = "save"
        /\ [row EXCEPT !.at = "save", !.status = status].status = status
    BY DEF RollingRow
  <2> QED BY <2>1, <2>2, RollingMoves
<1>6. RecordKept BY <1>1 DEF RecordKept
<1>7. /\ helper' \in [Helpers -> HelperRow]
      /\ \A g \in Helpers \ {h} : helper'[g] = helper[g]
      /\ Restoring' \subseteq Restoring
      /\ HelperTrue(h)'
  <2>1. CASE RollbackAnswered(h)
    <3>1. /\ helper' \in [Helpers -> HelperRow] /\ helper'[h] = Resting_
          /\ \A g \in Helpers \ {h} : helper'[g] = helper[g]
      BY <2>1, HelperRests DEF RollbackAnswered
    <3>2. pathLock' # h BY <1>1, <2>1 DEF HelperTrue, RollbackAnswered
    <3>3. Restoring' \subseteq Restoring BY <3>1 DEF Restoring, Resting_
    <3> QED BY <3>1, <3>2, <3>3, RestingTrue
  <2>2. CASE RollbackUnanswered(h)
    <3>1. /\ helper' \in [Helpers -> HelperRow]
          /\ \A g \in Helpers \ {h} : helper'[g] = helper[g]
          /\ helper'[h].kind = "orphan" /\ helper'[h].at = helper[h].at
          /\ helper'[h].expected = helper[h].expected /\ helper'[h].moved = helper[h].moved
          /\ helper'[h].followed = helper[h].followed /\ helper'[h].for = helper[h].for
      BY <2>2, HelperOrphaned DEF RollbackUnanswered
    <3>2. Restoring' \subseteq Restoring BY <3>1 DEF Restoring
    <3>3. HelperTrue(h)' BY <1>1, <1>6, <3>1 DEF HelperTrue, RecordKept
    <3> QED BY <3>1, <3>2, <3>3
  <2> QED BY <2>1, <2>2
<1>8. FileTables' BY <1>1, <1>5, <1>7 DEF FileTables
<1>9. \A g \in Helpers : HelperTrue(g)'
  <2>1. \A g \in Helpers \ {h} : HelperTrue(g)' BY <1>1, <1>6, <1>7, HelperKept
  <2> QED BY <1>7, <2>1
<1>10. ASSUME NEW s \in Rollbacks PROVE RollingTrue(s)'
  <2>1. status = "completed" => restores > 0 BY <1>2, <1>4, Guards DEF HelperTrue
  <2> QED BY <1>1, <1>5, <2>1 DEF RollingTrue
<1>11. ObservedTrue' /\ ChangeTrue' BY <1>1 DEF ObservedTrue, ChangeTrue
<1>12. RestoresPaid'
  <2>1. Unguarded' \subseteq Unguarded /\ (Guarded' => Guarded) BY <1>1, <1>5, RequestEnds
  <2>2. Open' = Open BY <1>1 DEF Open
  <2> QED BY <1>1, <1>7, <1>8, <2>1, <2>2, PaidKept
<1> QED BY <1>8, <1>9, <1>10, <1>11, <1>12

LEMMA SaveKeeps ==
    ASSUME FileInv, NEW r \in Rollbacks, SaveRollback(r) \/ SaveRollbackFails(r)
    PROVE  FileInv'
<1> USE DEF FileInv
<1>1. /\ UNCHANGED <<target, pathLock, helper, observed, restores, lostGuards>>
      /\ fileGuard' = IF fileGuard = r THEN "none" ELSE fileGuard
      /\ rolling[r].at = "save"
  BY DEF SaveRollback, SaveRollbackFails, Release_
<1>2. PICK row \in RollingRow : row = rolling[r] BY DEF FileTables
<1>3. PICK status \in {row.status, "pending"} :
          rolling' = [rolling EXCEPT ![r] = [row EXCEPT !.at = "done", !.status = status]]
  <2>1. CASE SaveRollback(r)
    <3>1. rolling' = [rolling EXCEPT ![r] = [row EXCEPT !.at = "done"]]
      BY <1>2, <2>1 DEF SaveRollback, FileTables
    <3>2. [row EXCEPT !.at = "done", !.status = row.status] = [row EXCEPT !.at = "done"]
      BY DEF RollingRow
    <3> QED BY <3>1, <3>2
  <2>2. CASE SaveRollbackFails(r) BY <1>2, <2>2 DEF SaveRollbackFails, FileTables
  <2> QED BY <2>1, <2>2
<1>4. /\ rolling' \in [Rollbacks -> RollingRow]
      /\ rolling'[r].at = "done" /\ rolling'[r].status = status
      /\ \A s \in Rollbacks \ {r} : rolling'[s] = rolling[s]
  <2>1. /\ [row EXCEPT !.at = "done", !.status = status] \in RollingRow
        /\ [row EXCEPT !.at = "done", !.status = status].at = "done"
        /\ [row EXCEPT !.at = "done", !.status = status].status = status
    BY <1>3 DEF RollingRow
  <2> QED BY <1>3, <2>1, RollingMoves
<1>5. /\ change' \in ChangeRow
      /\ change'.status = change.status /\ change'.applied = change.applied
      /\ change'.rollback = change.rollback \/ change'.rollback = row.status
  <2>1. CASE change' = change BY <2>1 DEF FileTables
  <2>2. CASE change' = [change EXCEPT !.rollback = row.status]
    <3>1. PICK old \in ChangeRow : old = change BY DEF FileTables
    <3>2. change' = [old EXCEPT !.rollback = row.status] BY <2>2, <3>1
    <3>3. row.status \in {"none", "pending", "conflict", "unknown", "completed"} BY DEF RollingRow
    <3> QED BY <3>1, <3>2, <3>3 DEF ChangeRow
  <2> QED BY <1>2, <2>1, <2>2 DEF SaveRollback, SaveRollbackFails
<1>6. FileTables' BY <1>1, <1>4, <1>5 DEF FileTables
<1>7. RecordKept BY <1>1, <1>5 DEF RecordKept
<1>8. \A h \in Helpers : HelperTrue(h)' BY <1>1, <1>7, HelperKept
<1>9. row.status \in {"completed", "unknown"} /\ (row.status = "completed" => restores > 0)
  BY <1>1, <1>2 DEF RollingTrue
<1>10. \A s \in Rollbacks : RollingTrue(s)' BY <1>1, <1>3, <1>4, <1>9 DEF RollingTrue
<1>11. ObservedTrue' /\ ChangeTrue' BY <1>1, <1>5, <1>9 DEF ObservedTrue, ChangeTrue
<1>12. RestoresPaid'
  <2>1. Restoring' = Restoring BY <1>1 DEF Restoring
  <2>2. Unguarded' \subseteq Unguarded /\ (Guarded' => Guarded) BY <1>1, <1>4, RequestEnds
  <2>3. Open' => Open BY <1>5, <1>9 DEF Open
  <2> QED BY <1>1, <1>6, <2>1, <2>2, <2>3, PaidKept
<1> QED BY <1>6, <1>8, <1>10, <1>11, <1>12

LEMMA LossKeeps ==
    ASSUME FileInv, NEW r \in Rollbacks, LoseFileGuard(r)
    PROVE  FileInv'
<1> USE DEF FileInv
<1>1. /\ UNCHANGED <<target, pathLock, helper, observed, change, rolling, restores>>
      /\ fileGuard = r /\ fileGuard' = "none" /\ lostGuards' = lostGuards + 1
  BY DEF LoseFileGuard
<1>2. FileTables' BY <1>1 DEF FileTables
<1>3. RecordKept BY <1>1 DEF RecordKept
<1>4. \A h \in Helpers : HelperTrue(h)' BY <1>1, <1>3, HelperKept
<1>5. \A s \in Rollbacks : RollingTrue(s)' BY <1>1 DEF RollingTrue
<1>6. ObservedTrue' /\ ChangeTrue' BY <1>1 DEF ObservedTrue, ChangeTrue
<1>7. RestoresPaid'
  <2>1. Restoring' = Restoring /\ Open' = Open BY <1>1 DEF Restoring, Open
  <2>2. Unguarded' \subseteq Unguarded \cup {r} /\ r \notin Unguarded BY <1>1, Guards DEF Unguarded
  <2>3. IsFiniteSet(Unguarded \cup {r}) /\ Cardinality(Unguarded \cup {r}) = Cardinality(Unguarded) + 1
    BY <2>2, FS_AddElement DEF RestoresPaid
  <2>4. IsFiniteSet(Unguarded') /\ Cardinality(Unguarded') <= Cardinality(Unguarded) + 1
    BY <2>2, <2>3, FS_Subset
  <2>5. /\ Cardinality(Unguarded) \in Nat /\ Cardinality(Unguarded') \in Nat /\ Cardinality(Restoring) \in Nat
    BY <2>4, FS_CardinalityType DEF RestoresPaid
  <2>6. ~Guarded' BY <1>1, Guards DEF Guarded
  <2>7. NextRestore' <= NextRestore /\ NextRestore \in {0, 1} /\ NextRestore' \in {0, 1}
    BY <2>1, <2>6 DEF NextRestore
  <2> QED BY <1>1, <2>1, <2>4, <2>5, <2>7 DEF RestoresPaid, FileTables
<1> QED BY <1>2, <1>4, <1>5, <1>6, <1>7

-----------------------------------------------------------------------------
LEMMA FileStep == FileInv /\ [FileNext]_fileVars => FileInv'
<1> SUFFICES ASSUME FileInv, [FileNext]_fileVars PROVE FileInv' OBVIOUS
<1>1. CASE FileNext
  <2>1. CASE RunTakesGuard \/ RunLeavesGuard \/ \E lines \in SUBSET FileLines : ReadPage(lines)
    BY <2>1, GuardKeeps
  <2>2. CASE ShellWrite BY <2>2, ShellKeeps
  <2>3. ASSUME NEW h \in Helpers, WriteTool(h) \/ EditTool(h) PROVE FileInv' BY <2>3, ToolStarts
  <2>4. ASSUME NEW h \in Helpers, ToolConfirmed(h) \/ ToolRefused(h) \/ ToolUnanswered(h) PROVE FileInv'
    BY <2>4, ReceiptKeeps
  <2>5. ASSUME NEW h \in Helpers, CheckVersion(h) \/ HelperFails(h) PROVE FileInv' BY <2>5, ToolCheckKeeps
  <2>6. ASSUME NEW h \in Helpers, CommitWrite(h) PROVE FileInv' BY <2>6, CommitKeeps
  <2>7. ASSUME NEW h \in Helpers, PageWrite(h) \/ HelperEnds(h) PROVE FileInv' BY <2>7, EditorKeeps
  <2>8. ASSUME NEW h \in Helpers, RollbackAnswered(h) \/ RollbackUnanswered(h) PROVE FileInv'
    BY <2>8, AnswerKeeps
  <2>9. ASSUME NEW r \in Rollbacks, BeginRollback(r) PROVE FileInv' BY <2>9, RestoreBegins
  <2>10. ASSUME NEW r \in Rollbacks, CommitIntent(r) PROVE FileInv' BY <2>10, IntentKeeps
  <2>11. ASSUME NEW r \in Rollbacks, SaveRollback(r) \/ SaveRollbackFails(r) PROVE FileInv'
    BY <2>11, SaveKeeps
  <2>12. ASSUME NEW r \in Rollbacks, LoseFileGuard(r) PROVE FileInv' BY <2>12, LossKeeps
  <2> QED
    BY <1>1, <2>1, <2>2, <2>3, <2>4, <2>5, <2>6, <2>7, <2>8, <2>9, <2>10, <2>11, <2>12 DEF FileNext
<1>2. CASE UNCHANGED fileVars
  <2>1. FileTables' BY <1>2 DEF FileInv, fileVars, FileTables
  <2>2. ObservedTrue' /\ ChangeTrue' BY <1>2 DEF FileInv, fileVars, ObservedTrue, ChangeTrue
  <2>3. \A h \in Helpers : HelperTrue(h)' BY <1>2 DEF FileInv, fileVars, HelperTrue
  <2>4. \A r \in Rollbacks : RollingTrue(r)' BY <1>2 DEF FileInv, fileVars, RollingTrue
  <2>5. RestoresPaid'
    BY <1>2 DEF FileInv, fileVars, RestoresPaid, Restoring, Unguarded, NextRestore, Open, Guarded
  <2> QED BY <2>1, <2>2, <2>3, <2>4, <2>5 DEF FileInv
<1> QED BY <1>1, <1>2

LEMMA FileInvariant == FileSpec => []FileInv
BY FileInitially, FileStep, PTL DEF FileSpec

LEMMA FileTyped == FileInv => FileTypeOK
BY DEF FileInv, FileTables, FileTypeOK, HelperRow, ObservedRow, ChangeRow, RollingRow

(* The rows of the file, of its helpers and of its changes stay in their domains. *)
THEOREM FileTypes == FileSpec => []FileTypeOK
BY FileTyped, FileInvariant, PTL

(* Receipts are true and a restoration is not repeated, for any number of helpers, requests and *)
(* faults: a change is confirmed only when it was made, restored only when it was restored, and *)
(* each lost guard buys at most one restoration beyond the first.                               *)
THEOREM TrueReceipts == FileSpec => []ReceiptsTrue
<1>1. FileInv => ReceiptsTrue
  <2> SUFFICES ASSUME FileInv PROVE ReceiptsTrue OBVIOUS
  <2>1. Cardinality(Restoring) \in Nat /\ Cardinality(Unguarded) \in Nat
    BY FS_CardinalityType DEF FileInv, RestoresPaid
  <2>2. NextRestore \in {0, 1} /\ (Open => NextRestore = 1) BY DEF NextRestore
  <2>3. restores <= 1 + lostGuards /\ (Open => restores <= lostGuards)
    BY <2>1, <2>2 DEF FileInv, RestoresPaid, FileTables
  <2> QED BY <2>3 DEF FileInv, ChangeTrue, ReceiptsTrue, Open, FileTables
<1> QED BY <1>1, FileInvariant, PTL

\* Only the rename makes a checked helper done.
LEMMA OnlyCommits ==
    ASSUME FileTables, [FileNext]_fileVars, NEW h \in Helpers, Commits(h)
    PROVE  CommitWrite(h)
<1>1. helper[h].at = "checked" /\ helper'[h].at = "done" BY DEF Commits
<1>2. helper' # helper BY <1>1
<1>3. ~(RunTakesGuard \/ RunLeavesGuard) BY <1>2 DEF RunTakesGuard, RunLeavesGuard
<1>4. ~ShellWrite BY <1>1 DEF ShellWrite, FileTables, HelperRow
<1>5. ~\E lines \in SUBSET FileLines : ReadPage(lines) BY <1>2 DEF ReadPage
<1>6. ~\E r \in Rollbacks : BeginRollback(r) \/ SaveRollback(r) \/ SaveRollbackFails(r) \/ LoseFileGuard(r)
  BY <1>2 DEF BeginRollback, SaveRollback, SaveRollbackFails, LoseFileGuard
\* A helper that starts rested, and one that ends rests.
<1>7. ASSUME NEW g \in Helpers, NEW row, helper' = [helper EXCEPT ![g] = row],
             helper[g] = Resting_ \/ row = Resting_
      PROVE  FALSE
  BY <1>1, <1>7 DEF FileTables, Resting_
<1>8. ASSUME NEW g \in Helpers, NEW kind, NEW expected, NEW new, NEW follow, NEW request,
             StartHelper(g, kind, expected, new, follow, request)
      PROVE  FALSE
  BY <1>7, <1>8 DEF StartHelper
<1>9. ~\E r \in Rollbacks : CommitIntent(r) BY <1>2, <1>8 DEF CommitIntent
<1>10. ASSUME NEW g \in Helpers, helper' = [helper EXCEPT ![g].kind = "orphan"] PROVE FALSE
  BY <1>1, <1>10, HelperOrphaned DEF FileTables
<1>11. ASSUME NEW g \in Helpers
       PROVE  ~(WriteTool(g) \/ EditTool(g) \/ ToolConfirmed(g) \/ ToolRefused(g) \/ HelperEnds(g)
                \/ PageWrite(g) \/ RollbackAnswered(g) \/ ToolUnanswered(g) \/ RollbackUnanswered(g))
  <2>1. ~(WriteTool(g) \/ EditTool(g) \/ PageWrite(g)) BY <1>8, <1>11 DEF WriteTool, EditTool, PageWrite
  <2>2. ~(ToolConfirmed(g) \/ ToolRefused(g) \/ HelperEnds(g) \/ RollbackAnswered(g))
    BY <1>7, <1>11 DEF ToolConfirmed, ToolRefused, HelperEnds, RollbackAnswered
  <2>3. ~(ToolUnanswered(g) \/ RollbackUnanswered(g)) BY <1>10, <1>11 DEF ToolUnanswered, RollbackUnanswered
  <2> QED BY <2>1, <2>2, <2>3
<1>12. ASSUME NEW g \in Helpers PROVE ~(CheckVersion(g) \/ HelperFails(g))
  <2>1. ASSUME NEW at \in {"checked", "failed"}, helper' = [helper EXCEPT ![g].at = at] PROVE FALSE
    BY <1>1, <1>12, <2>1, HelperMoves DEF FileTables
  <2> QED BY <2>1 DEF CheckVersion, HelperFails
<1>13. PICK g \in Helpers : CommitWrite(g)
  BY <1>2, <1>3, <1>4, <1>5, <1>6, <1>9, <1>11, <1>12 DEF FileNext, fileVars
<1>14. g = h BY <1>1, <1>13 DEF CommitWrite, FileTables
<1> QED BY <1>13, <1>14

(* No write replaces a version its author did not mean or, if the author is a model, has not    *)
(* been shown: only a command that writes between the check and the rename escapes.             *)
THEOREM UpdatesKept == FileSpec => NoLostUpdate
<1>1. ASSUME FileInv, [FileNext]_fileVars, NEW h \in Helpers, Commits(h), helper[h].expected # AnyVersion
      PROVE  /\ target = helper[h].expected \/ helper[h].moved
             /\ (helper[h].kind = "write" /\ helper[h].expected # Absent) =>
                    helper[h].seen = helper[h].expected
  <2>1. HelperTrue(h) BY <1>1 DEF FileInv
  <2>2. CommitWrite(h) BY <1>1, OnlyCommits DEF FileInv
  <2>3. helper[h].at = "checked" /\ helper[h].expected \in Versions \cup {Absent}
    BY <1>1 DEF Commits, FileInv, FileTables, HelperRow
  <2>4. helper[h].expected = Absent => target = Absent BY <1>1, <2>2 DEF Commits, CommitWrite, FileInv, FileTables
  <2> QED BY <2>1, <2>3, <2>4 DEF HelperTrue
<1>2. FileInv /\ [FileNext]_fileVars =>
         \A h \in Helpers : (Commits(h) /\ helper[h].expected # AnyVersion) =>
             /\ target = helper[h].expected \/ helper[h].moved
             /\ (helper[h].kind = "write" /\ helper[h].expected # Absent) =>
                    helper[h].seen = helper[h].expected
  BY <1>1
<1> QED BY <1>2, FileInvariant, PTL DEF FileSpec, NoLostUpdate

-----------------------------------------------------------------------------
(*****************************************************************************)
(* PersonalAssistant: turns and facts are what their user left.              *)
(*****************************************************************************)

Working == {"reading", "thinking", "finish"}
Delegating == {"claim", "accept", "save"}
TurnStates == {"none", "pending", "completed", "failed", "interrupted"}
DelegationStates == InDoubt \cup {"none", "started", "queued", "failed", "unknown"}
SubmissionStates == {"none", "started", "queued"}
ThreadRow == [rev : Nat, auto : BOOLEAN]
MemoryRow == [state : Kept, rev : Nat, undo : Kept \cup {"nothing"}]
ChatRow == [at : {"idle"} \cup Working \cup Delegating, rev : Nat, auto : BOOLEAN, seen : Nat,
            op : {"none", "remember", "automatic", "forget"}, task : BOOLEAN, alive : BOOLEAN,
            status : {"none", "started", "queued", "failed", "unknown"}]

PersonalTables ==
    /\ thread \in ThreadRow
    /\ memory \in MemoryRow
    /\ turn \in [Turns -> TurnStates]
    /\ delegation \in [Turns -> DelegationStates]
    /\ submitted \in [Turns -> SubmissionStates]
    /\ chat \in [Turns -> ChatRow]

\* The session lock of the member.
OneTurn == \A t, u \in Turns : chat[t].alive /\ chat[u].alive => t = u

\* The record of a turn, its handler and its submission agree.
RecordTrue(t) ==
    /\ turn[t] = "none" => chat[t].at = "idle"
    /\ turn[t] # "completed" => delegation[t] = "none" /\ chat[t].at \notin Delegating
    /\ chat[t].at \in Working => turn[t] \in {"pending", "interrupted"}
    /\ chat[t].at \in Working /\ chat[t].alive => turn[t] = "pending"
    /\ chat[t].at \in {"accept", "save"} => delegation[t] \notin {"none", "prepared", "failed"}
    /\ chat[t].at = "claim" => delegation[t] \notin {"none", "failed"}
    /\ chat[t].at \in {"claim", "accept"} => submitted[t] = "none"
    /\ chat[t].at = "save" =>
           /\ chat[t].status # "none"
           /\ chat[t].status \in {"started", "queued"} => submitted[t] # "none"
           /\ chat[t].status = "failed" => submitted[t] = "none"
    /\ delegation[t] \in {"started", "queued"} => submitted[t] # "none"
    /\ delegation[t] \in {"none", "prepared", "failed"} => submitted[t] = "none"

\* While the revision of the thread stays, the fact is what the holder of the lock has read.
ContextTrue(t) ==
    /\ chat[t].rev <= thread.rev
    /\ chat[t].at \in {"thinking", "finish"} /\ chat[t].alive /\ chat[t].rev = thread.rev =>
           chat[t].seen = memory.rev

PersonalInv ==
    /\ PersonalTables
    /\ OneTurn
    /\ \A t \in Turns : RecordTrue(t) /\ ContextTrue(t)

-----------------------------------------------------------------------------
LEMMA NoChatRow == NoChat \in ChatRow /\ NoChat.at = "idle" /\ NoChat.alive = FALSE /\ NoChat.rev = 0
<1>1. 0 \in Nat /\ FALSE \in BOOLEAN OBVIOUS
<1>2. NoChat \in ChatRow BY <1>1, Zenon DEF NoChat, ChatRow
<1> QED BY <1>2 DEF NoChat

LEMMA PersonalInitially == PersonalInit => PersonalInv
<1> SUFFICES ASSUME PersonalInit PROVE PersonalInv OBVIOUS
<1> USE DEF PersonalInit
<1>1. thread \in ThreadRow
  <2>1. 0 \in Nat /\ TRUE \in BOOLEAN OBVIOUS
  <2> QED BY <2>1, Zenon DEF ThreadRow
<1>2. memory \in MemoryRow BY DEF MemoryRow, Kept
<1>3. PersonalTables
  BY <1>1, <1>2, NoChatRow DEF PersonalTables, TurnStates, DelegationStates, SubmissionStates
<1>4. OneTurn BY NoChatRow DEF OneTurn
<1>5. \A t \in Turns : RecordTrue(t) BY NoChatRow DEF RecordTrue, Working, Delegating
<1>6. \A t \in Turns : ContextTrue(t)
  <2>1. thread.rev = 0 /\ \A t \in Turns : chat[t] = NoChat OBVIOUS
  <2>2. NoChat.rev <= thread.rev BY <2>1, NoChatRow
  <2>3. \A t \in Turns : chat[t].rev <= thread.rev /\ chat[t].at = "idle" BY <2>1, <2>2, NoChatRow
  <2> QED BY <2>3 DEF ContextTrue
<1> QED BY <1>3, <1>4, <1>5, <1>6 DEF PersonalInv

\* The rows of one turn.
LEMMA TurnRows ==
    ASSUME PersonalInv, NEW t \in Turns
    PROVE  /\ turn[t] \in TurnStates /\ delegation[t] \in DelegationStates
           /\ submitted[t] \in SubmissionStates /\ chat[t] \in ChatRow
           /\ RecordTrue(t) /\ ContextTrue(t)
BY DEF PersonalInv, PersonalTables

\* A step of one turn keeps the others: the fact changes with the revision of the thread, or under
\* the lock.
LEMMA OneTurnMoves ==
    ASSUME PersonalInv, NEW t \in Turns,
           NEW row \in ChatRow, chat' = [chat EXCEPT ![t] = row], row.alive => chat[t].alive,
           NEW st \in TurnStates, turn' = [turn EXCEPT ![t] = st],
           NEW d \in DelegationStates, delegation' = [delegation EXCEPT ![t] = d],
           NEW s \in SubmissionStates, submitted' = [submitted EXCEPT ![t] = s],
           thread' \in ThreadRow, memory' \in MemoryRow, thread.rev <= thread'.rev,
           memory' = memory \/ chat[t].alive
    PROVE  /\ chat'[t] = row /\ turn'[t] = st /\ delegation'[t] = d /\ submitted'[t] = s
           /\ RecordTrue(t)' /\ ContextTrue(t)' => PersonalInv'
<1>1. /\ chat' \in [Turns -> ChatRow] /\ chat'[t] = row
      /\ turn' \in [Turns -> TurnStates] /\ turn'[t] = st
      /\ delegation' \in [Turns -> DelegationStates] /\ delegation'[t] = d
      /\ submitted' \in [Turns -> SubmissionStates] /\ submitted'[t] = s
      /\ \A u \in Turns \ {t} : /\ chat'[u] = chat[u] /\ turn'[u] = turn[u]
                               /\ delegation'[u] = delegation[u] /\ submitted'[u] = submitted[u]
  BY DEF PersonalInv, PersonalTables
<1>2. PersonalTables' BY <1>1 DEF PersonalTables
<1>3. OneTurn' BY <1>1 DEF PersonalInv, OneTurn
<1>4. ASSUME NEW u \in Turns \ {t} PROVE RecordTrue(u)' /\ ContextTrue(u)'
  <2>1. RecordTrue(u)' BY <1>1, TurnRows DEF RecordTrue
  <2>2. chat[u].rev \in Nat /\ thread.rev \in Nat /\ thread'.rev \in Nat /\ ContextTrue(u)
    BY TurnRows DEF PersonalInv, PersonalTables, ThreadRow, ChatRow
  <2>3. chat[u].alive => ~chat[t].alive BY DEF PersonalInv, OneTurn
  <2>4. ContextTrue(u)' BY <1>1, <2>2, <2>3 DEF ContextTrue
  <2> QED BY <2>1, <2>4
<1>5. RecordTrue(t)' /\ ContextTrue(t)' => PersonalInv'
  <2> HAVE RecordTrue(t)' /\ ContextTrue(t)'
  <2> QED BY <1>2, <1>3, <1>4 DEF PersonalInv
<1>6. chat'[t] = row /\ turn'[t] = st /\ delegation'[t] = d /\ submitted'[t] = s BY <1>1
<1> QED BY <1>5, <1>6

\* The same, for a step that leaves the thread and the fact alone and may end the chat.
LEMMA SameContext ==
    ASSUME PersonalInv, NEW t \in Turns, UNCHANGED <<thread, memory>>
    PROVE  /\ thread' \in ThreadRow /\ memory' \in MemoryRow /\ thread.rev <= thread'.rev
           /\ chat'[t].rev = chat[t].rev /\ (chat'[t].alive => chat[t].alive) /\ chat'[t].seen = chat[t].seen
              /\ (chat'[t].at \in {"thinking", "finish"} => chat[t].at \in {"thinking", "finish"})
              => ContextTrue(t)'
           /\ chat'[t] = NoChat => ContextTrue(t)'
<1>1. /\ thread \in ThreadRow /\ memory \in MemoryRow /\ thread.rev \in Nat /\ ContextTrue(t)
  BY TurnRows DEF PersonalInv, PersonalTables, ThreadRow
<1>2. chat'[t] = NoChat => ContextTrue(t)' BY <1>1, NoChatRow DEF ContextTrue
<1> QED BY <1>1, <1>2 DEF ContextTrue

-----------------------------------------------------------------------------
\* The owner of the facts.

LEMMA OwnerKeeps ==
    ASSUME PersonalInv, UNCHANGED <<turn, delegation, submitted, chat>>,
           thread' \in ThreadRow, memory' \in MemoryRow, thread.rev < thread'.rev
    PROVE  PersonalInv'
<1>1. PersonalTables' /\ OneTurn' BY DEF PersonalInv, PersonalTables, OneTurn
<1>2. ASSUME NEW t \in Turns PROVE RecordTrue(t)' /\ ContextTrue(t)'
  <2>1. RecordTrue(t)' BY TurnRows DEF RecordTrue
  <2>2. chat[t].rev \in Nat /\ thread.rev \in Nat /\ thread'.rev \in Nat /\ ContextTrue(t)
    BY TurnRows DEF PersonalInv, PersonalTables, ThreadRow, ChatRow
  <2>3. chat'[t].rev < thread'.rev BY <2>2 DEF ContextTrue
  <2> QED BY <2>1, <2>2, <2>3 DEF ContextTrue
<1> QED BY <1>1, <1>2 DEF PersonalInv

LEMMA BarrierRaises ==
    ASSUME PersonalInv
    PROVE  /\ Barrier \in ThreadRow /\ Barrier.rev = thread.rev + 1 /\ thread.rev \in Nat
           /\ [Barrier EXCEPT !.auto = ~Barrier.auto] \in ThreadRow
           /\ [Barrier EXCEPT !.auto = ~Barrier.auto].rev = thread.rev + 1
<1>1. PICK old \in ThreadRow : old = thread BY DEF PersonalInv, PersonalTables
<1>2. PICK new \in ThreadRow : new = [old EXCEPT !.rev = old.rev + 1]
  <2>1. PICK n \in Nat : n = old.rev + 1 BY DEF ThreadRow
  <2>2. [old EXCEPT !.rev = n] \in ThreadRow BY <2>1 DEF ThreadRow
  <2> QED BY <2>1, <2>2
<1>3. Barrier = new /\ new.rev = thread.rev + 1 /\ thread.rev \in Nat
  BY <1>1, <1>2 DEF Barrier, ThreadRow
<1>4. PICK nx \in BOOLEAN : nx = ~new.auto BY Zenon
<1>5. [new EXCEPT !.auto = nx] \in ThreadRow /\ [new EXCEPT !.auto = nx].rev = new.rev
  BY DEF ThreadRow
<1> QED BY <1>3, <1>4, <1>5

LEMMA WrittenFact ==
    ASSUME PersonalInv, NEW state \in {"live", "gone"}, WriteMemory(state)
    PROVE  memory' \in MemoryRow
<1>1. PICK old \in MemoryRow : old = memory BY DEF PersonalInv, PersonalTables
<1>2. memory' = [state |-> state, rev |-> old.rev + 1, undo |-> old.state] BY <1>1 DEF WriteMemory
<1> QED BY <1>2 DEF MemoryRow, Kept

LEMMA OwnerStep ==
    ASSUME PersonalInv, CreateMemory \/ UpdateMemory \/ Undo \/ SetAutoMemory
    PROVE  PersonalInv'
<1>1. UNCHANGED <<turn, delegation, submitted, chat>>
  BY DEF CreateMemory, UpdateMemory, Undo, SetAutoMemory, ByOwner
<1>2. memory' \in MemoryRow
  <2>1. CASE CreateMemory \/ UpdateMemory BY <2>1, WrittenFact DEF CreateMemory, UpdateMemory
  <2>2. CASE Undo
    <3>1. PICK old \in MemoryRow : old = memory BY DEF PersonalInv, PersonalTables
    <3>2. memory' = [state |-> IF old.undo = "none" THEN "gone" ELSE old.undo,
                     rev |-> old.rev + 1, undo |-> "nothing"] /\ old.undo # "nothing"
      BY <2>2, <3>1 DEF Undo
    <3> QED BY <3>2 DEF MemoryRow, Kept
  <2>3. CASE SetAutoMemory BY <2>3 DEF SetAutoMemory, PersonalInv, PersonalTables
  <2> QED BY <2>1, <2>2, <2>3
<1>3. thread' = Barrier \/ thread' = [Barrier EXCEPT !.auto = ~Barrier.auto]
  BY DEF CreateMemory, UpdateMemory, Undo, SetAutoMemory
<1>4. thread' \in ThreadRow /\ thread'.rev = thread.rev + 1 /\ thread.rev \in Nat BY <1>3, BarrierRaises
<1> QED BY <1>1, <1>2, <1>4, OwnerKeeps

-----------------------------------------------------------------------------
\* The dialogue.

LEMMA TurnBegins ==
    ASSUME PersonalInv, NEW t \in Turns, BeginChat(t)
    PROVE  PersonalInv'
<1>1. /\ UNCHANGED <<thread, memory, delegation, submitted>> /\ turn[t] = "none"
      /\ \A u \in Turns : ~chat[u].alive
      /\ turn' = [u \in Turns |-> IF u = t THEN "pending"
                                  ELSE IF turn[u] = "pending" THEN "interrupted" ELSE turn[u]]
  BY DEF BeginChat, PersonalLockFree
<1>2. PICK old \in ThreadRow : old = thread BY DEF PersonalInv, PersonalTables
<1>3. PICK row : row = [NoChat EXCEPT !.at = "reading", !.rev = old.rev, !.auto = old.auto, !.alive = TRUE]
  OBVIOUS
<1>4. row \in ChatRow /\ row.at = "reading" /\ row.rev = old.rev
  <2>1. TRUE \in BOOLEAN /\ old.rev \in Nat /\ old.auto \in BOOLEAN BY DEF ThreadRow
  <2> QED BY <1>3, <2>1, NoChatRow DEF ChatRow, Working
<1>5. chat' = [chat EXCEPT ![t] = row] BY <1>2, <1>3 DEF BeginChat
<1>6. /\ chat' \in [Turns -> ChatRow] /\ chat'[t] = row
      /\ \A u \in Turns \ {t} : chat'[u] = chat[u]
  BY <1>4, <1>5 DEF PersonalInv, PersonalTables
<1>7. PersonalTables' BY <1>1, <1>6 DEF PersonalInv, PersonalTables, TurnStates
<1>8. OneTurn' BY <1>1, <1>6 DEF OneTurn
<1>9. ASSUME NEW u \in Turns PROVE RecordTrue(u)' /\ ContextTrue(u)'
  <2>1. CASE u = t
    <3>1. turn'[t] = "pending" /\ chat'[t].at = "reading" BY <1>1, <1>4, <1>6
    <3>2. RecordTrue(t)' BY <1>1, <3>1, TurnRows DEF RecordTrue, Working, Delegating
    <3>3. ContextTrue(t)' BY <1>1, <1>2, <1>4, <1>6 DEF ContextTrue, ThreadRow
    <3> QED BY <2>1, <3>2, <3>3
  <2>2. CASE u # t
    <3>1. /\ chat'[u] = chat[u] /\ ~chat[u].alive
          /\ turn'[u] = IF turn[u] = "pending" THEN "interrupted" ELSE turn[u]
      BY <1>1, <1>6, <2>2
    <3>2. RecordTrue(u)' BY <1>1, <3>1, TurnRows DEF RecordTrue, Working, Delegating
    <3>3. ContextTrue(u)' BY <1>1, <3>1, TurnRows DEF ContextTrue
    <3> QED BY <3>2, <3>3
  <2> QED BY <2>1, <2>2
<1> QED BY <1>7, <1>8, <1>9 DEF PersonalInv

\* A step of a handler before its second transaction.
LEMMA ThinkKeeps ==
    ASSUME PersonalInv, NEW t \in Turns, ReadContext(t) \/ ModelReplies(t)
    PROVE  PersonalInv'
<1>1. UNCHANGED <<thread, memory, turn, delegation, submitted>> BY DEF ReadContext, ModelReplies
<1>2. PICK old \in ChatRow, st \in TurnStates, d \in DelegationStates, s \in SubmissionStates, rev \in Nat :
          /\ old = chat[t] /\ st = turn[t] /\ d = delegation[t] /\ s = submitted[t] /\ rev = memory.rev
  BY TurnRows DEF PersonalInv, PersonalTables, MemoryRow
<1>3. PICK row \in ChatRow :
          /\ chat' = [chat EXCEPT ![t] = row]
          /\ old.at \in Working /\ row.at \in {"thinking", "finish"} /\ row.rev = old.rev /\ row.alive = old.alive
          /\ IF old.at = "reading" THEN row.seen = rev ELSE old.at = "thinking" /\ row.seen = old.seen
  <2>1. CASE ReadContext(t)
    <3>1. PICK row \in ChatRow : row = [old EXCEPT !.at = "thinking", !.seen = rev]
      BY DEF ChatRow, Working
    <3>2. chat' = [chat EXCEPT ![t] = row] /\ old.at = "reading"
      BY <1>2, <2>1, <3>1 DEF ReadContext, Context, PersonalInv, PersonalTables
    <3> QED BY <3>1, <3>2 DEF ChatRow, Working
  <2>2. CASE ModelReplies(t)
    <3>1. PICK r \in Replies : chat' = [chat EXCEPT ![t].at = "finish", ![t].op = r.op, ![t].task = r.task]
      BY <2>2 DEF ModelReplies
    <3>2. PICK row \in ChatRow : row = [old EXCEPT !.at = "finish", !.op = r.op, !.task = r.task]
      BY DEF ChatRow, Working, Replies
    <3>3. chat' = [chat EXCEPT ![t] = row] /\ old.at = "thinking"
      BY <1>2, <2>2, <3>1, <3>2 DEF ModelReplies, PersonalInv, PersonalTables
    <3> QED BY <3>2, <3>3 DEF ChatRow, Working
  <2> QED BY <2>1, <2>2
<1>4. /\ turn' = [turn EXCEPT ![t] = st] /\ delegation' = [delegation EXCEPT ![t] = d]
      /\ submitted' = [submitted EXCEPT ![t] = s]
  BY <1>1, <1>2 DEF PersonalInv, PersonalTables
<1>5. /\ chat'[t] = row /\ turn'[t] = st /\ delegation'[t] = d /\ submitted'[t] = s
      /\ RecordTrue(t)' /\ ContextTrue(t)' => PersonalInv'
  <2>1. thread' \in ThreadRow /\ memory' \in MemoryRow /\ thread.rev <= thread'.rev BY <1>1, SameContext
  <2>2. row.alive => chat[t].alive BY <1>2, <1>3
  <2>3. chat' = [chat EXCEPT ![t] = row] /\ (memory' = memory \/ chat[t].alive) BY <1>1, <1>3
  <2> QED BY <1>4, <2>1, <2>2, <2>3, OneTurnMoves
<1>6. RecordTrue(t) /\ ContextTrue(t) BY TurnRows
<1>7. RecordTrue(t)' BY <1>2, <1>3, <1>5, <1>6 DEF RecordTrue, Working, Delegating
<1>8. ContextTrue(t)' BY <1>1, <1>2, <1>3, <1>5, <1>6 DEF ContextTrue, Working
<1> QED BY <1>5, <1>7, <1>8

\* What the second transaction writes of the fact.
LEMMA AppliedFact ==
    ASSUME PersonalInv, NEW op, ApplyMemories(op)
    PROVE  thread' \in ThreadRow /\ memory' \in MemoryRow /\ thread.rev <= thread'.rev
<1>1. thread \in ThreadRow /\ memory \in MemoryRow /\ thread.rev \in Nat
  BY DEF PersonalInv, PersonalTables, ThreadRow
<1>2. thread' = Barrier \/ thread' = thread BY DEF ApplyMemories
<1>3. thread' \in ThreadRow /\ thread.rev <= thread'.rev BY <1>1, <1>2, BarrierRaises
<1>4. memory' = memory \/ WriteMemory("live") \/ WriteMemory("gone") BY DEF ApplyMemories
<1> QED BY <1>1, <1>3, <1>4, WrittenFact

LEMMA TurnFinishes ==
    ASSUME PersonalInv, NEW t \in Turns, FinishChat(t)
    PROVE  PersonalInv'
<1>1. PICK old \in ChatRow, st \in TurnStates, d \in DelegationStates, s \in SubmissionStates :
          old = chat[t] /\ st = turn[t] /\ d = delegation[t] /\ s = submitted[t]
  BY TurnRows
<1>2. RecordTrue(t) /\ old.at = "finish" /\ old.alive /\ st = "pending" /\ d = "none" /\ s = "none"
  BY <1>1, TurnRows DEF FinishChat, RecordTrue, Working
<1>3. PICK row \in ChatRow :
          /\ chat' = [chat EXCEPT ![t] = row]
          /\ row.alive => old.alive
          /\ row = NoChat \/ (row.at = "claim" /\ row.rev = old.rev /\ old.task)
  <2>1. CASE old.task
    <3>1. PICK row \in ChatRow : row = [old EXCEPT !.at = "claim"] BY DEF ChatRow, Delegating
    <3>2. chat' = [chat EXCEPT ![t] = row] BY <1>1, <2>1, <3>1 DEF FinishChat
    <3> QED BY <2>1, <3>1, <3>2 DEF ChatRow
  <2>2. CASE ~old.task
    <3>1. chat' = [chat EXCEPT ![t] = NoChat] BY <1>1, <2>2 DEF FinishChat
    <3> QED BY <3>1, NoChatRow
  <2> QED BY <2>1, <2>2
<1>4. PICK e \in DelegationStates :
          /\ delegation' = [delegation EXCEPT ![t] = e]
          /\ e = "prepared" \/ (e = "none" /\ row = NoChat)
  <2>1. CASE old.task
    <3>1. delegation' = [delegation EXCEPT ![t] = "prepared"] BY <1>1, <2>1 DEF FinishChat
    <3> QED BY <3>1 DEF DelegationStates, InDoubt
  <2>2. CASE ~old.task
    <3>1. delegation' = [delegation EXCEPT ![t] = d] BY <1>1, <2>2 DEF FinishChat
    <3> QED BY <1>2, <1>3, <2>2, <3>1
  <2> QED BY <2>1, <2>2
<1>5. /\ turn' = [turn EXCEPT ![t] = "completed"] /\ submitted' = [submitted EXCEPT ![t] = s]
      /\ "completed" \in TurnStates
  BY <1>1, <1>2 DEF FinishChat, PersonalInv, PersonalTables, TurnStates
<1>6. /\ chat'[t] = row /\ turn'[t] = "completed" /\ delegation'[t] = e /\ submitted'[t] = s
      /\ RecordTrue(t)' /\ ContextTrue(t)' => PersonalInv'
  <2>1. thread' \in ThreadRow /\ memory' \in MemoryRow /\ thread.rev <= thread'.rev
    BY AppliedFact DEF FinishChat
  <2>2. row.alive => chat[t].alive BY <1>1, <1>3
  <2>3. chat' = [chat EXCEPT ![t] = row] /\ (memory' = memory \/ chat[t].alive) BY <1>1, <1>2, <1>3
  <2>4. delegation' = [delegation EXCEPT ![t] = e] BY <1>4
  <2> QED BY <1>5, <2>1, <2>2, <2>3, <2>4, OneTurnMoves
<1>7. RecordTrue(t)'
  BY <1>2, <1>3, <1>4, <1>6, NoChatRow DEF RecordTrue, Working, Delegating
<1>8. ContextTrue(t)'
  <2>1. thread.rev \in Nat /\ thread'.rev \in Nat /\ thread.rev <= thread'.rev /\ old.rev \in Nat
    BY AppliedFact DEF FinishChat, PersonalInv, PersonalTables, ThreadRow, ChatRow
  <2>2. old.rev <= thread.rev BY <1>1, TurnRows DEF ContextTrue
  <2>3. row.rev <= thread'.rev /\ row.at \in {"idle", "claim"} BY <1>3, <2>1, <2>2, NoChatRow
  <2> QED BY <1>6, <2>3 DEF ContextTrue
<1> QED BY <1>6, <1>7, <1>8

\* A handler ends, or goes on without the lock.
LEMMA ChatEnds ==
    ASSUME PersonalInv, NEW t \in Turns, ChatFails(t) \/ ChatLost(t) \/ LosePersonalLock(t)
    PROVE  PersonalInv'
<1>1. UNCHANGED <<thread, memory, delegation, submitted>> BY DEF ChatFails, ChatLost, LosePersonalLock
<1>2. PICK old \in ChatRow, st \in TurnStates, d \in DelegationStates, s \in SubmissionStates :
          old = chat[t] /\ st = turn[t] /\ d = delegation[t] /\ s = submitted[t]
  BY TurnRows
<1>3. PICK row \in ChatRow :
          /\ chat' = [chat EXCEPT ![t] = row] /\ ~row.alive
          /\ \/ row = NoChat
             \/ /\ row.at = old.at /\ row.rev = old.rev /\ row.status = old.status
                /\ turn' = turn
  <2>1. CASE ChatFails(t) \/ ChatLost(t) BY <2>1, NoChatRow DEF ChatFails, ChatLost
  <2>2. CASE LosePersonalLock(t)
    <3>0. FALSE \in BOOLEAN OBVIOUS
    <3>1. PICK row \in ChatRow : row = [old EXCEPT !.alive = FALSE] BY <3>0 DEF ChatRow
    <3>2. chat' = [chat EXCEPT ![t] = row] /\ turn' = turn
      BY <1>2, <2>2, <3>1 DEF LosePersonalLock, PersonalInv, PersonalTables
    <3> QED BY <3>1, <3>2 DEF ChatRow
  <2> QED BY <2>1, <2>2
<1>4. PICK nx \in TurnStates :
          /\ turn' = [turn EXCEPT ![t] = nx]
          /\ nx = st \/ (nx = "failed" /\ st = "pending" /\ row = NoChat)
  <2>1. CASE ChatFails(t) /\ st = "pending"
    <3>1. turn' = [turn EXCEPT ![t] = "failed"] /\ chat' = [chat EXCEPT ![t] = NoChat]
      BY <1>2, <2>1 DEF ChatFails
    <3>2. row = NoChat BY <1>3, <3>1 DEF PersonalInv, PersonalTables
    <3> QED BY <2>1, <3>1, <3>2 DEF TurnStates
  <2>2. CASE ~(ChatFails(t) /\ st = "pending")
    <3>1. turn' = [turn EXCEPT ![t] = st]
      BY <1>2, <2>2 DEF ChatFails, ChatLost, LosePersonalLock, PersonalInv, PersonalTables
    <3> QED BY <3>1
  <2> QED BY <2>1, <2>2
<1>5. delegation' = [delegation EXCEPT ![t] = d] /\ submitted' = [submitted EXCEPT ![t] = s]
  BY <1>1, <1>2 DEF PersonalInv, PersonalTables
<1>6. /\ chat'[t] = row /\ turn'[t] = nx /\ delegation'[t] = d /\ submitted'[t] = s
      /\ RecordTrue(t)' /\ ContextTrue(t)' => PersonalInv'
  <2>1. thread' \in ThreadRow /\ memory' \in MemoryRow /\ thread.rev <= thread'.rev BY <1>1, SameContext
  <2>2. row.alive => chat[t].alive BY <1>3
  <2>3. chat' = [chat EXCEPT ![t] = row] /\ (memory' = memory \/ chat[t].alive) BY <1>1, <1>3
  <2>4. turn' = [turn EXCEPT ![t] = nx] BY <1>4
  <2> QED BY <1>5, <2>1, <2>2, <2>3, <2>4, OneTurnMoves
<1>7. RecordTrue(t) /\ ContextTrue(t) BY TurnRows
<1>8. RecordTrue(t)'
  BY <1>2, <1>3, <1>4, <1>6, <1>7, NoChatRow DEF RecordTrue, Working, Delegating
<1>9. ContextTrue(t)'
  <2>1. thread.rev \in Nat BY DEF PersonalInv, PersonalTables, ThreadRow
  <2>2. row.rev <= thread.rev BY <1>2, <1>3, <1>7, <2>1, NoChatRow DEF ContextTrue
  <2> QED BY <1>1, <1>3, <1>6, <2>2 DEF ContextTrue
<1> QED BY <1>6, <1>8, <1>9

-----------------------------------------------------------------------------
\* The delegation.

LEMMA DelegateKeeps ==
    ASSUME PersonalInv, NEW t \in Turns,
           ClaimDelegation(t) \/ AcceptDelegation(t) \/ DelegationRefused(t) \/ SaveDelegation(t)
    PROVE  PersonalInv'
<1>1. UNCHANGED <<thread, memory, turn>>
  BY DEF ClaimDelegation, AcceptDelegation, DelegationRefused, SaveDelegation
<1>2. PICK old \in ChatRow, st \in TurnStates, d \in DelegationStates, s \in SubmissionStates :
          old = chat[t] /\ st = turn[t] /\ d = delegation[t] /\ s = submitted[t]
  BY TurnRows
<1>3. RecordTrue(t) /\ ContextTrue(t) /\ old.at \in Delegating /\ st = "completed"
  BY <1>2, TurnRows
     DEF ClaimDelegation, AcceptDelegation, DelegationRefused, SaveDelegation, RecordTrue, Delegating
<1>4. PICK row \in ChatRow, e \in DelegationStates, r \in SubmissionStates :
          /\ chat' = [chat EXCEPT ![t] = row] /\ delegation' = [delegation EXCEPT ![t] = e]
          /\ submitted' = [submitted EXCEPT ![t] = r]
          /\ row = NoChat \/ (row.rev = old.rev /\ row.alive = old.alive /\ row.at \in {"accept", "save"})
          /\ \/ old.at = "claim" /\ row.at = "accept" /\ e = "dispatching" /\ r = s
             \/ old.at = "claim" /\ row = NoChat /\ e = d /\ r = s
             \/ /\ old.at = "accept" /\ row.at = "save" /\ e = d
                /\ \/ r \in {"started", "queued"} /\ row.status \in {r, "unknown"}
                   \/ r = s /\ row.status \in {"failed", "unknown"}
             \/ /\ old.at = "save" /\ row = NoChat /\ r = s
                /\ e = IF d = "dispatching" THEN old.status ELSE d
  <2>0. /\ d \in DelegationStates /\ delegation = [delegation EXCEPT ![t] = d]
        /\ submitted = [submitted EXCEPT ![t] = s]
    BY <1>2 DEF PersonalInv, PersonalTables
  <2>1. CASE ClaimDelegation(t)
    <3>1. /\ old.at = "claim" /\ submitted' = submitted
          /\ \/ /\ delegation' = [delegation EXCEPT ![t] = "dispatching"]
                /\ chat' = [chat EXCEPT ![t] = [old EXCEPT !.at = "accept"]]
             \/ /\ delegation' = [delegation EXCEPT ![t] = d]
                /\ chat' = [chat EXCEPT ![t] = NoChat]
      BY <1>2, <2>1 DEF ClaimDelegation
    <3>2. [old EXCEPT !.at = "accept"] \in ChatRow BY DEF ChatRow, Delegating
    <3>3. PICK row \in ChatRow : row = [old EXCEPT !.at = "accept"] BY <3>2
    <3>4. row.at = "accept" /\ row.rev = old.rev /\ row.alive = old.alive BY <3>3 DEF ChatRow
    <3>5. "dispatching" \in DelegationStates BY DEF DelegationStates, InDoubt
    <3>6. CASE delegation' = [delegation EXCEPT ![t] = "dispatching"] /\ chat' = [chat EXCEPT ![t] = row]
      BY <2>0, <3>1, <3>4, <3>5, <3>6
    <3>7. CASE delegation' = [delegation EXCEPT ![t] = d] /\ chat' = [chat EXCEPT ![t] = NoChat]
      BY <2>0, <3>1, <3>7, NoChatRow
    <3> QED BY <3>1, <3>3, <3>6, <3>7
  <2>2. CASE AcceptDelegation(t)
    <3>1. PICK as \in {"started", "queued"} :
              /\ submitted' = [submitted EXCEPT ![t] = as] /\ old.at = "accept" /\ delegation' = delegation
              /\ \/ chat' = [chat EXCEPT ![t].at = "save", ![t].status = as]
                 \/ chat' = [chat EXCEPT ![t].at = "save", ![t].status = "unknown"]
      BY <1>2, <2>2 DEF AcceptDelegation
    <3>2. PICK status \in {as, "unknown"} : chat' = [chat EXCEPT ![t].at = "save", ![t].status = status]
      BY <3>1
    <3>3. PICK row \in ChatRow : row = [old EXCEPT !.at = "save", !.status = status]
      BY <3>1, <3>2 DEF ChatRow, Delegating
    <3>4. row.at = "save" /\ row.status = status /\ row.rev = old.rev /\ row.alive = old.alive
      BY <3>3 DEF ChatRow
    <3>5. chat' = [chat EXCEPT ![t] = row] BY <1>2, <3>2, <3>3 DEF PersonalInv, PersonalTables
    <3>6. as \in SubmissionStates BY <3>1 DEF SubmissionStates
    <3> QED BY <2>0, <3>1, <3>2, <3>4, <3>5, <3>6
  <2>3. CASE DelegationRefused(t)
    <3>1. PICK status \in {"failed", "unknown"} :
              /\ chat' = [chat EXCEPT ![t].at = "save", ![t].status = status]
              /\ old.at = "accept" /\ UNCHANGED <<delegation, submitted>>
      BY <1>2, <2>3 DEF DelegationRefused
    <3>2. PICK row \in ChatRow : row = [old EXCEPT !.at = "save", !.status = status]
      BY <3>1 DEF ChatRow, Delegating
    <3>3. row.at = "save" /\ row.status = status /\ row.rev = old.rev /\ row.alive = old.alive
      BY <3>2 DEF ChatRow
    <3>4. chat' = [chat EXCEPT ![t] = row] BY <1>2, <3>1, <3>2 DEF PersonalInv, PersonalTables
    <3> QED BY <2>0, <3>1, <3>3, <3>4
  <2>4. CASE SaveDelegation(t)
    <3>1. PICK e : e = IF d = "dispatching" THEN old.status ELSE d OBVIOUS
    <3>2. e \in DelegationStates BY <3>1 DEF DelegationStates, ChatRow
    <3>3. /\ old.at = "save" /\ chat' = [chat EXCEPT ![t] = NoChat] /\ submitted' = submitted
          /\ delegation' = [delegation EXCEPT ![t] = e]
      BY <1>2, <2>4, <3>1 DEF SaveDelegation, Receipted
    <3> QED BY <2>0, <3>1, <3>2, <3>3, NoChatRow
  <2> QED BY <2>1, <2>2, <2>3, <2>4
<1>5. turn' = [turn EXCEPT ![t] = st] BY <1>1, <1>2 DEF PersonalInv, PersonalTables
<1>6. /\ chat'[t] = row /\ turn'[t] = st /\ delegation'[t] = e /\ submitted'[t] = r
      /\ RecordTrue(t)' /\ ContextTrue(t)' => PersonalInv'
  <2>1. thread' \in ThreadRow /\ memory' \in MemoryRow /\ thread.rev <= thread'.rev BY <1>1, SameContext
  <2>2. row.alive => chat[t].alive BY <1>2, <1>4, NoChatRow
  <2>3. chat' = [chat EXCEPT ![t] = row] /\ (memory' = memory \/ chat[t].alive) BY <1>1, <1>4
  <2>4. delegation' = [delegation EXCEPT ![t] = e] /\ submitted' = [submitted EXCEPT ![t] = r] BY <1>4
  <2> QED BY <1>5, <2>1, <2>2, <2>3, <2>4, OneTurnMoves
<1>7. RecordTrue(t)'
  BY <1>2, <1>3, <1>4, <1>6, NoChatRow
     DEF RecordTrue, Working, Delegating, DelegationStates, SubmissionStates, InDoubt, ChatRow
<1>8. ContextTrue(t)'
  <2>1. thread.rev \in Nat BY DEF PersonalInv, PersonalTables, ThreadRow
  <2>2. row.rev <= thread.rev /\ row.at \in {"idle", "accept", "save"}
    BY <1>2, <1>3, <1>4, <2>1, NoChatRow DEF ContextTrue
  <2> QED BY <1>1, <1>6, <2>2 DEF ContextTrue
<1> QED BY <1>6, <1>7, <1>8

\* A page that polls, and a queued task that starts, leave the handlers alone.
LEMMA PollKeeps ==
    ASSUME PersonalInv, NEW t \in Turns, PollTurn(t) \/ QueuedTaskStarts(t)
    PROVE  PersonalInv'
<1>1. UNCHANGED <<thread, memory, chat>> BY DEF PollTurn, RecoverTurn, ReconcileDelegation, QueuedTaskStarts
<1>2. PICK old \in ChatRow, st \in TurnStates, d \in DelegationStates, s \in SubmissionStates :
          old = chat[t] /\ st = turn[t] /\ d = delegation[t] /\ s = submitted[t]
  BY TurnRows
<1>3. PICK nx \in TurnStates, e \in DelegationStates, r \in SubmissionStates :
          /\ turn' = [turn EXCEPT ![t] = nx] /\ delegation' = [delegation EXCEPT ![t] = e]
          /\ submitted' = [submitted EXCEPT ![t] = r]
          /\ \/ /\ ~old.alive /\ r = s
                /\ nx = IF st = "pending" THEN "interrupted" ELSE st
                /\ e = IF d \in InDoubt THEN "unknown" ELSE d
             \/ s # "none" /\ e = s /\ d \in InDoubt \cup {"unknown", "queued"} /\ nx = st /\ r = s
             \/ s = "queued" /\ r = "started" /\ nx = st /\ e = d
  <2>0. /\ turn = [turn EXCEPT ![t] = st] /\ delegation = [delegation EXCEPT ![t] = d]
        /\ submitted = [submitted EXCEPT ![t] = s]
    BY <1>2 DEF PersonalInv, PersonalTables
  <2>1. CASE RecoverTurn(t)
    <3>1. PICK nx \in TurnStates, e \in DelegationStates :
              /\ nx = IF st = "pending" THEN "interrupted" ELSE st
              /\ e = IF d \in InDoubt THEN "unknown" ELSE d
      BY DEF TurnStates, DelegationStates
    <3>2. /\ turn' = [turn EXCEPT ![t] = nx] /\ delegation' = [delegation EXCEPT ![t] = e]
          /\ ~old.alive /\ submitted' = submitted
      BY <1>2, <2>1, <3>1 DEF RecoverTurn, Abandoned, PersonalLockFree
    <3> QED BY <2>0, <3>1, <3>2
  <2>2. CASE ReconcileDelegation(t)
    <3>1. /\ s # "none" /\ s \in DelegationStates /\ d \in InDoubt \cup {"unknown", "queued"}
          /\ delegation' = [delegation EXCEPT ![t] = s] /\ UNCHANGED <<turn, submitted>>
      BY <1>2, <2>2 DEF ReconcileDelegation, DelegationStates, SubmissionStates
    <3> QED BY <2>0, <3>1
  <2>3. CASE QueuedTaskStarts(t)
    <3>1. /\ s = "queued" /\ "started" \in SubmissionStates
          /\ submitted' = [submitted EXCEPT ![t] = "started"] /\ UNCHANGED <<turn, delegation>>
      BY <1>2, <2>3 DEF QueuedTaskStarts, SubmissionStates
    <3> QED BY <2>0, <3>1
  <2> QED BY <2>1, <2>2, <2>3 DEF PollTurn
<1>4. chat' = [chat EXCEPT ![t] = old] BY <1>1, <1>2 DEF PersonalInv, PersonalTables
<1>5. /\ chat'[t] = old /\ turn'[t] = nx /\ delegation'[t] = e /\ submitted'[t] = r
      /\ RecordTrue(t)' /\ ContextTrue(t)' => PersonalInv'
  <2>1. thread' \in ThreadRow /\ memory' \in MemoryRow /\ thread.rev <= thread'.rev BY <1>1, SameContext
  <2>2. old.alive => chat[t].alive BY <1>2
  <2>3. memory' = memory \/ chat[t].alive BY <1>1
  <2>4. turn' = [turn EXCEPT ![t] = nx] /\ delegation' = [delegation EXCEPT ![t] = e] BY <1>3
  <2>5. submitted' = [submitted EXCEPT ![t] = r] BY <1>3
  <2> QED BY <1>4, <2>1, <2>2, <2>3, <2>4, <2>5, OneTurnMoves
<1>6. RecordTrue(t) /\ ContextTrue(t) BY TurnRows
<1>7. RecordTrue(t)'
  BY <1>2, <1>3, <1>5, <1>6
     DEF RecordTrue, Working, Delegating, DelegationStates, SubmissionStates, InDoubt
<1>8. ContextTrue(t)' BY <1>1, <1>6 DEF ContextTrue
<1> QED BY <1>5, <1>7, <1>8

-----------------------------------------------------------------------------
LEMMA PersonalStep == PersonalInv /\ [PersonalNext]_personalVars => PersonalInv'
<1> SUFFICES ASSUME PersonalInv, [PersonalNext]_personalVars PROVE PersonalInv' OBVIOUS
<1>1. CASE CreateMemory \/ UpdateMemory \/ Undo \/ SetAutoMemory BY <1>1, OwnerStep
<1>2. CASE RevokePersonal \/ UNCHANGED personalVars
  <2>1. UNCHANGED <<thread, memory, turn, delegation, submitted, chat>>
    BY <1>2 DEF RevokePersonal, personalVars
  <2> QED BY <2>1 DEF PersonalInv, PersonalTables, OneTurn, RecordTrue, ContextTrue
<1>3. ASSUME NEW t \in Turns,
             \/ BeginChat(t) \/ ChatStep(t) \/ ChatLost(t) \/ LosePersonalLock(t)
             \/ PollTurn(t) \/ QueuedTaskStarts(t)
      PROVE  PersonalInv'
  BY <1>3, TurnBegins, ThinkKeeps, TurnFinishes, ChatEnds, DelegateKeeps, PollKeeps DEF ChatStep
<1> QED BY <1>1, <1>2, <1>3 DEF PersonalNext

LEMMA PersonalInvariant == PersonalSpec => []PersonalInv
BY PersonalInitially, PersonalStep, PTL DEF PersonalSpec

LEMMA PersonalTyped == PersonalInv => PersonalTypeOK
<1> SUFFICES ASSUME PersonalInv PROVE PersonalTypeOK OBVIOUS
<1>1. PersonalTables BY DEF PersonalInv
<1>2. thread.rev \in Nat /\ thread.auto \in BOOLEAN BY <1>1 DEF PersonalTables, ThreadRow
<1>3. memory.state \in Kept /\ memory.rev \in Nat /\ memory.undo \in Kept \cup {"nothing"}
  BY <1>1 DEF PersonalTables, MemoryRow
<1>4. ASSUME NEW t \in Turns
      PROVE  /\ turn[t] \in TurnStates /\ delegation[t] \in DelegationStates
             /\ submitted[t] \in SubmissionStates /\ chat[t].at \in {"idle"} \cup Working \cup Delegating
  BY TurnRows DEF ChatRow
<1> QED
  BY <1>2, <1>3, <1>4
     DEF PersonalTypeOK, TurnStates, DelegationStates, SubmissionStates, Working, Delegating

(* The rows of the dialogue, the fact and the delegations hold the values their columns allow.  *)
THEOREM PersonalTypes == PersonalSpec => []PersonalTypeOK
BY PersonalTyped, PersonalInvariant, PTL

(* The record of a turn is true, whichever handler, page and lost session comes last: an        *)
(* interrupted or failed one delegated nothing, a task shown started or queued was accepted and *)
(* one shown as failed never is.                                                                *)
THEOREM TrueTurns == PersonalSpec => []TurnsTrue
<1>1. ASSUME PersonalInv PROVE TurnsTrue
  <2> SUFFICES ASSUME NEW t \in Turns
               PROVE  /\ turn[t] \in {"interrupted", "failed"} =>
                             delegation[t] = "none" /\ chat[t].at \notin {"claim", "accept", "save"}
                      /\ delegation[t] \in {"started", "queued"} => submitted[t] # "none"
                      /\ delegation[t] \in {"none", "prepared", "failed"} => submitted[t] = "none"
    BY DEF TurnsTrue
  <2> QED BY <1>1, TurnRows DEF RecordTrue, Delegating
<1> QED BY <1>1, PersonalInvariant, PTL

(* A turn changes the fact only as the model saw it, and does not bring back automatically what *)
(* was forgotten: the revision of the thread and the lock of the member stand between it and    *)
(* every edit, forgetting, undo and other turn.                                                 *)
THEOREM FactsCurrent == PersonalSpec => CurrentMemory
<1> DEFINE Current(t) ==
        (chat[t].at = "finish" /\ memory' # memory /\ chat'[t] # chat[t]) =>
            /\ chat[t].seen = memory.rev
            /\ chat[t].op = "automatic" => memory.state # "gone"
<1>1. PersonalInv /\ [PersonalNext]_personalVars => [\A t \in Turns : Current(t)]_personalVars
  <2> SUFFICES ASSUME PersonalInv, PersonalNext, NEW t \in Turns PROVE Current(t) OBVIOUS
  <2> SUFFICES ASSUME chat[t].at = "finish", memory' # memory, chat'[t] # chat[t]
               PROVE  /\ chat[t].seen = memory.rev
                      /\ chat[t].op = "automatic" => memory.state # "gone"
    OBVIOUS
  <2>1. \E u \in Turns : FinishChat(u)
    BY DEF PersonalNext, CreateMemory, UpdateMemory, Undo, SetAutoMemory, ByOwner, RevokePersonal, BeginChat,
           ChatStep, ReadContext, ModelReplies, ChatFails, ClaimDelegation, AcceptDelegation,
           DelegationRefused, SaveDelegation, ChatLost, LosePersonalLock, PollTurn, RecoverTurn,
           ReconcileDelegation, QueuedTaskStarts
  <2>2. PICK u \in Turns : FinishChat(u) BY <2>1
  <2>3. u = t BY <2>2 DEF FinishChat, PersonalInv, PersonalTables
  <2>4. chat[t].alive /\ thread.rev = chat[t].rev /\ ApplyMemories(chat[t].op) BY <2>2, <2>3 DEF FinishChat
  <2>5. chat[t].seen = memory.rev BY <2>4, TurnRows DEF ContextTrue
  <2>6. chat[t].op = "automatic" => memory.state # "gone" BY <2>4 DEF ApplyMemories
  <2> QED BY <2>5, <2>6
<1> QED BY <1>1, PersonalInvariant, PTL DEF PersonalSpec, CurrentMemory
-----------------------------------------------------------------------------
(* The delegations are claimed work *)

TurnReport(t) == DelegationReport(delegation[t], turn[t])
ClaimStep == DelegationClaims!Next \/ UNCHANGED <<DelegationReports, TasksSubmitted>>

\* A step of one delegation.
LEMMA DelegationMoves ==
    ASSUME PersonalInv, NEW t \in Turns, NEW st, NEW d, NEW s, NEW r,
           turn' = [turn EXCEPT ![t] = st], delegation' = [delegation EXCEPT ![t] = d],
           submitted' = [submitted EXCEPT ![t] = s], r = DelegationReport(d, st),
           \/ r = TurnReport(t) /\ (s = "none" <=> submitted[t] = "none")
           \/ r = TurnReport(t) /\ r \in {"claimed", "doubt"} /\ submitted[t] = "none" /\ s # "none"
           \/ s = submitted[t] /\ TurnReport(t) = "open" /\ r = "claimed"
           \/ s = submitted[t] /\ TurnReport(t) \in {"open", "claimed"} /\ r = "doubt"
           \/ s = submitted[t] /\ TurnReport(t) \in {"claimed", "doubt"} /\ r = "made" /\ s # "none"
           \/ s = submitted[t] /\ TurnReport(t) = "open" /\ r = "dropped"
           \/ s = submitted[t] /\ TurnReport(t) = "claimed" /\ r = "dropped" /\ s = "none"
    PROVE  ClaimStep
<1>1. /\ DelegationReports \in [Turns -> {DelegationReports[u] : u \in Turns}]
      /\ DelegationReports[t] = TurnReport(t)
  BY DEF DelegationReports, TurnReport
<1>2. DelegationReports' = [DelegationReports EXCEPT ![t] = r]
  BY DEF DelegationReports, PersonalInv, PersonalTables
<1>3. TasksSubmitted' = IF s = "none" THEN TasksSubmitted \ {t} ELSE TasksSubmitted \cup {t}
  BY DEF TasksSubmitted, PersonalInv, PersonalTables
<1>4. t \in TasksSubmitted <=> submitted[t] # "none" BY DEF TasksSubmitted
<1>5. CASE r = TurnReport(t) /\ (s = "none" <=> submitted[t] = "none")
  BY <1>1, <1>2, <1>3, <1>4, <1>5 DEF ClaimStep
<1>6. CASE r = TurnReport(t) /\ r \in {"claimed", "doubt"} /\ submitted[t] = "none" /\ s # "none"
  <2>1. DelegationClaims!Happen(t) BY <1>1, <1>2, <1>3, <1>4, <1>6 DEF DelegationClaims!Happen
  <2> QED BY <2>1 DEF ClaimStep, DelegationClaims!Next
<1>7. CASE s = submitted[t] /\ r # TurnReport(t)
  <2>1. TasksSubmitted' = TasksSubmitted BY <1>3, <1>4, <1>7
  <2>2. CASE r = "claimed" /\ TurnReport(t) = "open"
    BY <1>1, <1>2, <2>1, <2>2 DEF DelegationClaims!Claim, ClaimStep, DelegationClaims!Next
  <2>3. CASE r = "doubt" /\ TurnReport(t) \in {"open", "claimed"}
    BY <1>1, <1>2, <2>1, <2>3 DEF DelegationClaims!Doubt, ClaimStep, DelegationClaims!Next
  <2>4. CASE r = "made" /\ TurnReport(t) \in {"claimed", "doubt"} /\ s # "none"
    BY <1>1, <1>2, <1>4, <1>7, <2>1, <2>4 DEF DelegationClaims!Confirm, ClaimStep, DelegationClaims!Next
  <2>5. CASE r = "dropped" /\ (TurnReport(t) = "open" \/ (TurnReport(t) = "claimed" /\ s = "none"))
    <3>1. DelegationReports' = [w \in Turns |-> IF w \in {t} THEN "dropped" ELSE DelegationReports[w]]
      BY <1>1, <1>2, <2>5
    <3>2. DelegationClaims!Drop({t})
      BY <1>1, <1>4, <1>7, <2>1, <2>5, <3>1 DEF DelegationClaims!Drop
    <3> QED BY <3>2 DEF ClaimStep, DelegationClaims!Next
  <2> QED BY <1>7, <2>2, <2>3, <2>4, <2>5
<1> QED BY <1>5, <1>6, <1>7

\* The rows of a turn before a step that changes at most those.
LEMMA TurnFound ==
    ASSUME PersonalInv, NEW t \in Turns
    PROVE  /\ turn = [turn EXCEPT ![t] = turn[t]] /\ delegation = [delegation EXCEPT ![t] = delegation[t]]
           /\ submitted = [submitted EXCEPT ![t] = submitted[t]]
           /\ turn[t] \in TurnStates /\ delegation[t] \in DelegationStates
           /\ RecordTrue(t)
BY DEF PersonalInv, PersonalTables

\* A new turn interrupts the others, whose handlers are gone: nothing they wanted is delegated.
LEMMA BeginDrops ==
    ASSUME PersonalInv, NEW t \in Turns, BeginChat(t)
    PROVE  ClaimStep
<1> DEFINE S == {u \in Turns \ {t} : turn[u] = "pending"}
<1>1. \A u \in Turns : turn[u] # "completed" => delegation[u] = "none" BY TurnFound DEF RecordTrue
<1>2. \A u \in S : DelegationReports[u] = "open" BY <1>1 DEF DelegationReports, DelegationReport
<1>3. DelegationReports' = [w \in Turns |-> IF w \in S THEN "dropped" ELSE DelegationReports[w]]
  BY <1>1 DEF BeginChat, DelegationReports, DelegationReport, PersonalInv, PersonalTables
<1>4. TasksSubmitted' = TasksSubmitted BY DEF BeginChat, TasksSubmitted
<1>5. DelegationClaims!Drop(S) BY <1>2, <1>3, <1>4 DEF DelegationClaims!Drop
<1> QED BY <1>5 DEF ClaimStep, DelegationClaims!Next

\* The record of a reply, and of one that failed.
LEMMA ReplyClaims ==
    ASSUME PersonalInv, NEW t \in Turns, FinishChat(t) \/ ChatFails(t)
    PROVE  ClaimStep
<1>1. submitted' = [submitted EXCEPT ![t] = submitted[t]] BY TurnFound DEF FinishChat, ChatFails
<1>2. CASE FinishChat(t)
  <2>1. turn[t] = "pending" /\ delegation[t] = "none" BY <1>2, TurnFound DEF FinishChat, RecordTrue, Working
  <2>2. PICK d \in {"none", "prepared"} :
            turn' = [turn EXCEPT ![t] = "completed"] /\ delegation' = [delegation EXCEPT ![t] = d]
    BY <1>2, <2>1 DEF FinishChat
  <2>3. DelegationReport(d, "completed") = "open" /\ TurnReport(t) = "open"
    BY <2>1 DEF DelegationReport, TurnReport
  <2> QED BY <1>1, <2>2, <2>3, DelegationMoves
<1>3. CASE ChatFails(t)
  <2>1. delegation' = [delegation EXCEPT ![t] = delegation[t]] BY <1>3, TurnFound DEF ChatFails
  <2>2. CASE turn[t] = "pending"
    <3>1. delegation[t] = "none" /\ turn' = [turn EXCEPT ![t] = "failed"]
      BY <1>3, <2>2, TurnFound DEF ChatFails, RecordTrue
    <3>2. TurnReport(t) = "open" /\ DelegationReport(delegation[t], "failed") = "dropped"
      BY <2>2, <3>1 DEF DelegationReport, TurnReport
    <3> QED BY <1>1, <2>1, <3>1, <3>2, DelegationMoves
  <2>3. CASE turn[t] # "pending"
    <3>1. turn' = [turn EXCEPT ![t] = turn[t]] BY <1>3, <2>3, TurnFound DEF ChatFails
    <3> QED BY <1>1, <2>1, <3>1, DelegationMoves DEF TurnReport
  <2> QED BY <2>2, <2>3
<1> QED BY <1>2, <1>3

\* Only a prepared delegation is claimed, and what was claimed is accepted or refused once.
LEMMA DispatchClaims ==
    ASSUME PersonalInv, NEW t \in Turns,
           ClaimDelegation(t) \/ AcceptDelegation(t) \/ DelegationRefused(t) \/ SaveDelegation(t)
    PROVE  ClaimStep
<1>1. turn' = [turn EXCEPT ![t] = turn[t]]
  BY TurnFound DEF ClaimDelegation, AcceptDelegation, DelegationRefused, SaveDelegation
<1>2. CASE ClaimDelegation(t)
  <2>1. submitted' = [submitted EXCEPT ![t] = submitted[t]] BY <1>2, TurnFound DEF ClaimDelegation
  <2>2. CASE delegation' = [delegation EXCEPT ![t] = "dispatching"] /\ delegation[t] = "prepared"
    <3>1. TurnReport(t) = "open" /\ DelegationReport("dispatching", turn[t]) = "claimed"
      BY <2>2 DEF DelegationReport, TurnReport
    <3> QED BY <1>1, <2>1, <2>2, <3>1, DelegationMoves
  <2>3. CASE delegation' = [delegation EXCEPT ![t] = delegation[t]]
    BY <1>1, <2>1, <2>3, DelegationMoves DEF TurnReport
  <2> QED BY <1>2, <2>2, <2>3 DEF ClaimDelegation
<1>3. CASE AcceptDelegation(t)
  <2>1. PICK as \in {"started", "queued"} : submitted' = [submitted EXCEPT ![t] = as]
    BY <1>3 DEF AcceptDelegation
  <2>2. /\ delegation' = [delegation EXCEPT ![t] = delegation[t]]
        /\ submitted[t] = "none" /\ delegation[t] \in {"dispatching", "unknown"}
    BY <1>3, TurnFound DEF AcceptDelegation, RecordTrue, DelegationStates, InDoubt
  <2>3. TurnReport(t) \in {"claimed", "doubt"} BY <2>2 DEF DelegationReport, TurnReport
  <2> QED BY <1>1, <2>1, <2>2, <2>3, DelegationMoves DEF TurnReport
<1>4. CASE DelegationRefused(t)
  BY <1>4 DEF DelegationRefused, ClaimStep, DelegationReports, TasksSubmitted
<1>5. CASE SaveDelegation(t)
  <2>1. submitted' = [submitted EXCEPT ![t] = submitted[t]] BY <1>5, TurnFound DEF SaveDelegation
  <2>2. CASE delegation[t] = "dispatching"
    <3>1. PICK d \in {"started", "queued", "failed", "unknown"} : d = chat[t].status
      BY <1>5, TurnFound, TurnRows DEF SaveDelegation, RecordTrue, ChatRow
    <3>2. delegation' = [delegation EXCEPT ![t] = d] BY <1>5, <2>2, <3>1 DEF SaveDelegation, Receipted
    <3>3. /\ d \in {"started", "queued"} => submitted[t] # "none"
          /\ d = "failed" => submitted[t] = "none"
      BY <1>5, <3>1, TurnFound DEF SaveDelegation, RecordTrue
    <3>4. /\ TurnReport(t) = "claimed"
          /\ DelegationReport(d, turn[t]) = IF d \in {"started", "queued"} THEN "made"
                                            ELSE IF d = "failed" THEN "dropped" ELSE "doubt"
      BY <2>2, <3>1 DEF DelegationReport, TurnReport
    <3> QED BY <1>1, <2>1, <3>1, <3>2, <3>3, <3>4, DelegationMoves
  <2>3. CASE delegation[t] # "dispatching"
    <3>1. delegation' = [delegation EXCEPT ![t] = delegation[t]]
      BY <1>5, <2>3, TurnFound DEF SaveDelegation, Receipted
    <3> QED BY <1>1, <2>1, <3>1, DelegationMoves DEF TurnReport
  <2> QED BY <2>2, <2>3
<1> QED BY <1>2, <1>3, <1>4, <1>5

\* A page only puts in doubt, or reports what was accepted.
LEMMA PollClaims ==
    ASSUME PersonalInv, NEW t \in Turns, PollTurn(t) \/ QueuedTaskStarts(t)
    PROVE  ClaimStep
<1>1. CASE RecoverTurn(t)
  <2>1. submitted' = [submitted EXCEPT ![t] = submitted[t]] BY <1>1, TurnFound DEF RecoverTurn
  <2>2. CASE turn[t] = "pending"
    <3>1. delegation[t] = "none" BY <2>2, TurnFound DEF RecordTrue
    <3>2. /\ turn' = [turn EXCEPT ![t] = "interrupted"]
          /\ delegation' = [delegation EXCEPT ![t] = delegation[t]]
      BY <1>1, <2>2, <3>1 DEF RecoverTurn, InDoubt
    <3>3. TurnReport(t) = "open" /\ DelegationReport(delegation[t], "interrupted") = "dropped"
      BY <2>2, <3>1 DEF DelegationReport, TurnReport
    <3> QED BY <2>1, <3>2, <3>3, DelegationMoves
  <2>3. CASE turn[t] # "pending"
    <3>1. delegation[t] \in InDoubt /\ turn' = [turn EXCEPT ![t] = turn[t]]
      BY <1>1, <2>3, TurnFound DEF RecoverTurn
    <3>2. delegation' = [delegation EXCEPT ![t] = "unknown"] BY <1>1, <3>1 DEF RecoverTurn
    <3>3. TurnReport(t) \in {"open", "claimed"} /\ DelegationReport("unknown", turn[t]) = "doubt"
      BY <3>1 DEF DelegationReport, TurnReport, InDoubt
    <3> QED BY <2>1, <3>1, <3>2, <3>3, DelegationMoves
  <2> QED BY <2>2, <2>3
<1>2. CASE ReconcileDelegation(t)
  <2>1. /\ submitted' = [submitted EXCEPT ![t] = submitted[t]] /\ turn' = [turn EXCEPT ![t] = turn[t]]
        /\ delegation' = [delegation EXCEPT ![t] = submitted[t]]
    BY <1>2, TurnFound DEF ReconcileDelegation
  <2>2. /\ submitted[t] \in {"started", "queued"}
        /\ delegation[t] \in {"dispatching", "unknown", "queued"}
    BY <1>2, TurnFound, TurnRows DEF ReconcileDelegation, RecordTrue, InDoubt, SubmissionStates
  <2>3. DelegationReport(submitted[t], turn[t]) = "made" BY <2>2 DEF DelegationReport
  <2>4. TurnReport(t) \in {"claimed", "doubt", "made"} BY <2>2 DEF DelegationReport, TurnReport
  <2> QED BY <2>1, <2>2, <2>3, <2>4, DelegationMoves
<1>3. CASE QueuedTaskStarts(t)
  <2>1. /\ submitted[t] # "none" /\ submitted' = [submitted EXCEPT ![t] = "started"]
        /\ turn' = [turn EXCEPT ![t] = turn[t]] /\ delegation' = [delegation EXCEPT ![t] = delegation[t]]
    BY <1>3, TurnFound DEF QueuedTaskStarts
  <2> QED BY <2>1, DelegationMoves DEF TurnReport
<1> QED BY <1>1, <1>2, <1>3 DEF PollTurn

(* The delegation of a turn is claimed work: claimed once, then only reported truly and for good. *)
(* A turn that was interrupted or failed delegates nothing later, and one in doubt is resolved by *)
(* the task that was accepted, never by a second claim.                                           *)
THEOREM DelegatesOnce == PersonalSpec => DelegatedOnce
<1>1. PersonalInit => DelegationClaims!Init
  BY DEF PersonalInit, DelegationClaims!Init, DelegationReports, DelegationReport, TasksSubmitted
<1>2. PersonalInv /\ [PersonalNext]_personalVars
          => [DelegationClaims!Next]_<<DelegationReports, TasksSubmitted>>
  <2> SUFFICES ASSUME PersonalInv, [PersonalNext]_personalVars PROVE ClaimStep BY DEF ClaimStep
  <2>1. CASE UNCHANGED <<turn, delegation, submitted>>
    BY <2>1 DEF ClaimStep, DelegationReports, TasksSubmitted
  <2>2. ASSUME NEW t \in Turns,
               \/ BeginChat(t) \/ FinishChat(t) \/ ChatFails(t) \/ PollTurn(t) \/ QueuedTaskStarts(t)
               \/ ClaimDelegation(t) \/ AcceptDelegation(t) \/ DelegationRefused(t) \/ SaveDelegation(t)
        PROVE  ClaimStep
    BY <2>2, BeginDrops, ReplyClaims, DispatchClaims, PollClaims
  <2>3. CASE \E t \in Turns : ReadContext(t) \/ ModelReplies(t) \/ ChatLost(t) \/ LosePersonalLock(t)
    BY <2>1, <2>3 DEF ReadContext, ModelReplies, ChatLost, LosePersonalLock
  <2>4. CASE \/ CreateMemory \/ UpdateMemory \/ Undo \/ SetAutoMemory \/ RevokePersonal
             \/ UNCHANGED personalVars
    BY <2>1, <2>4
       DEF CreateMemory, UpdateMemory, Undo, SetAutoMemory, ByOwner, RevokePersonal, personalVars
  <2> QED BY <2>2, <2>3, <2>4 DEF PersonalNext, ChatStep
<1> QED BY <1>1, <1>2, TrueTurns, PersonalInvariant, PTL DEF PersonalSpec, DelegatedOnce, DelegationClaims!Spec

-----------------------------------------------------------------------------
(*****************************************************************************)
(* GitHubWork: a proposal is published once.                                 *)
(*****************************************************************************)

ProposalStatuses == {"none", "prepared", "publishing", "unknown", "pushed", "completed", "failed"}
Receipts == {"", "checking_branch", "branch_intent", "commit_intent", "commit_observed", "pr_intent",
             "pr_observed", "commit_reconciled", "pr_reconciled"}
ProposalRow ==
    [status : ProposalStatuses, stage : Receipts, grant : Nat, run : Nat, new : BOOLEAN, pr : BOOLEAN,
     commit : BOOLEAN, pull : BOOLEAN, expired : BOOLEAN]
Places == {"check", "branch", "commit", "pushed", "pull", "commits", "pulls", "receipt"}
PublisherRow ==
    [at : Places \cup {"idle", "claim"},
     run : Nat, item : ProposalRow, locks : BOOLEAN, sent : {"none", "sent", "answered"}]
PreparerRow == [at : {"idle", "head", "export"}, grant : Nat, run : Nat, new : BOOLEAN]
HubRow ==
    [branch : {"absent", "base", "ours", "other"}, pull : {"none", "open", "closed"}, seen : BOOLEAN]

HubTables ==
    /\ proposal \in ProposalRow /\ preparer \in PreparerRow
    /\ publisher \in [Publishers -> PublisherRow]
    /\ hub \in HubRow /\ onTheWay \subseteq Writes
    /\ written \in [Writes -> 0..1]
    /\ codeGrant \in Nat /\ taskRun \in Nat

\* The call that claimed the proposal and still writes.
Author(row) == row.at \in {"check", "branch", "commit", "pushed", "pull"}

\* What a call may still send.
Left(at, sent) ==
    {w \in Writes :
        \/ at = "check"
        \/ at = "branch" /\ (w # "branch" \/ sent = "none")
        \/ at = "commit" /\ (w = "pull" \/ (w = "commit" /\ sent = "none"))
        \/ at = "pushed" /\ w = "pull"
        \/ at = "pull" /\ w = "pull" /\ sent = "none"}
Ahead(row) == Left(row.at, row.sent)

Untouched == onTheWay = {} /\ \A w \in Writes : written[w] = 0

\* A receipt, stored or at hand, reports only what was written.
HonestReceipt(item) ==
    /\ item.commit => written["commit"] = 1
    /\ item.status \in {"pushed", "completed"} => written["commit"] = 1
    /\ item.status = "completed" /\ item.pr => written["pull"] = 1

UnderWay == {"publishing", "unknown", "pushed", "completed"}

\* What a call knows of the proposal, however long ago it read it.
RowTrue(row) ==
    row.at # "idle" =>
        /\ row.item.pr = proposal.pr /\ HonestReceipt(row.item) /\ proposal.status # "none"
        /\ row.at # "claim" => row.item.status \in UnderWay /\ proposal.status # "prepared"
        /\ row.at \in {"pulls", "receipt", "pushed", "pull"} => written["commit"] = 1
        /\ row.sent = "answered" => row.at \in Writes /\ written[row.at] = 1
        /\ \A w \in Ahead(row) : w \notin onTheWay /\ written[w] = 0
        /\ Author(row) => proposal.status # "failed"

OneAuthor == \A p, q \in Publishers : Author(publisher[p]) /\ Author(publisher[q]) => p = q

HubFacts ==
    /\ preparer.at # "idle" => proposal.status = "none"
    /\ proposal.status \in {"none", "prepared", "failed"} => Untouched
    /\ \A w \in onTheWay : written[w] = 0
    /\ hub.seen => written["commit"] = 1
    /\ hub.pull # "none" => written["pull"] = 1
    /\ HonestReceipt(proposal)

HubInv ==
    /\ HubTables /\ HubFacts /\ OneAuthor
    /\ \A p \in Publishers : RowTrue(publisher[p])

-----------------------------------------------------------------------------
LEMMA EmptyRows ==
    /\ NoProposal \in ProposalRow /\ NoPublisher \in PublisherRow
    /\ NoProposal.status = "none" /\ NoProposal.commit = FALSE
    /\ NoPublisher.at = "idle"
<1>1. 0 \in Nat OBVIOUS
<1>2. NoProposal \in ProposalRow BY <1>1, Zenon DEF NoProposal, ProposalRow, ProposalStatuses, Receipts
<1>3. NoPublisher \in PublisherRow BY <1>1, <1>2, Zenon DEF NoPublisher, PublisherRow
<1> QED BY <1>2, <1>3, Zenon DEF NoProposal, NoPublisher

LEMMA HubInitially == HubInit => HubInv
<1> SUFFICES ASSUME HubInit PROVE HubInv OBVIOUS
<1>1. 0 \in Nat /\ 1 \in Nat /\ 0 \in 0..1 OBVIOUS
<1>2. preparer \in PreparerRow BY <1>1, Zenon DEF HubInit, PreparerRow
<1>3. hub \in HubRow /\ hub.seen = FALSE /\ hub.pull = "none" BY DEF HubInit, HubRow
<1>4. HubTables BY <1>1, <1>2, <1>3, EmptyRows DEF HubInit, HubTables
<1>5. Untouched BY DEF HubInit, Untouched
<1>6. preparer.at = "idle" BY Zenon DEF HubInit
<1>7. HubFacts BY <1>3, <1>5, <1>6, EmptyRows DEF HubInit, HubFacts, HonestReceipt
<1> QED BY <1>4, <1>7, EmptyRows DEF HubInit, HubInv, OneAuthor, RowTrue, Author

\* The row with the receipt of a call.
SavedProposal(item) == [proposal EXCEPT !.status = item.status, !.stage = item.stage,
                                !.commit = item.commit, !.pull = item.pull]

LEMMA SavedRow ==
    ASSUME proposal \in ProposalRow, NEW item \in ProposalRow
    PROVE  /\ SavedProposal(item) \in ProposalRow
           /\ SavedProposal(item).status = item.status /\ SavedProposal(item).commit = item.commit
           /\ SavedProposal(item).pr = proposal.pr
BY DEF SavedProposal, ProposalRow

\* What a call holds when it goes on.
HeldRow(old, item, at) == [old EXCEPT !.item = item, !.at = at, !.sent = "none"]

-----------------------------------------------------------------------------
\* A step of one call that sends nothing: it keeps a true row, stores a true receipt, and writes on
\* only if it was the author or claims the proposal.
LEMMA CallKeeps ==
    ASSUME HubInv, NEW p \in Publishers, NEW row \in PublisherRow,
           publisher' = [publisher EXCEPT ![p] = row],
           UNCHANGED <<preparer, hub, written, onTheWay, codeGrant, taskRun>>,
           proposal.status # "none",
           proposal' \in ProposalRow, proposal'.pr = proposal.pr, HonestReceipt(proposal)',
           \/ proposal'.status = proposal.status
           \/ proposal'.status \in UnderWay
           \/ proposal'.status = "failed" /\ publisher[p].at = "check" /\ ~Author(row),
           RowTrue(row)',
           Author(row) => Author(publisher[p]) \/ proposal.status = "prepared"
    PROVE  HubInv'
<1> USE DEF HubInv
<1>1. HubTables' BY DEF HubTables
<1>2. publisher[p].at = "check" => Untouched
  BY DEF HubTables, RowTrue, Ahead, Left, Untouched, Writes
<1>3. Untouched' = Untouched BY DEF Untouched
<1>4. preparer.at = "idle" BY DEF HubFacts
<1>5. HubFacts'
  <2>1. proposal'.status \in {"none", "prepared", "failed"} => Untouched'
    BY <1>2, <1>3 DEF HubFacts, UnderWay
  <2> QED BY <1>4, <2>1 DEF HubFacts
<1>6. \A q \in Publishers : publisher'[q] = IF q = p THEN row ELSE publisher[q]
  BY DEF HubTables
<1>7. \A q \in Publishers : Author(publisher[q]) => proposal.status # "prepared"
  BY DEF RowTrue, Author
<1>8. OneAuthor' BY <1>6, <1>7 DEF OneAuthor, Author
<1>9. ASSUME NEW q \in Publishers PROVE RowTrue(publisher[q])'
  <2>1. CASE q = p BY <1>6, <2>1 DEF RowTrue, HonestReceipt, Ahead, Author
  <2>2. CASE q # p
    <3>1. publisher'[q] = publisher[q] BY <1>6, <2>2
    <3>2. Author(publisher[q]) => proposal'.status # "failed"
      BY <2>2 DEF OneAuthor, RowTrue, Author, UnderWay
    <3> QED BY <3>1, <3>2 DEF RowTrue, HonestReceipt, Ahead, Author, UnderWay
  <2> QED BY <2>1, <2>2
<1> QED BY <1>1, <1>5, <1>8, <1>9

\* A call returns, with or without having saved a receipt.
LEMMA CallReturns ==
    ASSUME HubInv, NEW p \in Publishers, Returns(p), proposal.status # "none",
           UNCHANGED <<preparer, hub, written, onTheWay, codeGrant, taskRun>>,
           \/ UNCHANGED proposal
           \/ \E item \in ProposalRow :
                  /\ SaveReceipt(item) /\ HonestReceipt(item) /\ item.pr = proposal.pr
                  /\ item.status \in UnderWay \/ (item.status = "failed" /\ publisher[p].at = "check")
    PROVE  HubInv'
<1>1. NoPublisher \in PublisherRow /\ ~Author(NoPublisher) /\ RowTrue(NoPublisher)'
  BY EmptyRows DEF Author, RowTrue
<1>2. publisher' = [publisher EXCEPT ![p] = NoPublisher] BY DEF Returns
<1>3. proposal \in ProposalRow /\ HonestReceipt(proposal) BY DEF HubInv, HubTables, HubFacts
<1>4. CASE UNCHANGED proposal
  <2>1. HonestReceipt(proposal)' BY <1>3, <1>4 DEF HonestReceipt
  <2> QED BY <1>1, <1>2, <1>3, <1>4, <2>1, CallKeeps
<1>5. CASE \E item \in ProposalRow :
               /\ SaveReceipt(item) /\ HonestReceipt(item) /\ item.pr = proposal.pr
               /\ item.status \in UnderWay \/ (item.status = "failed" /\ publisher[p].at = "check")
  <2> PICK item \in ProposalRow :
          /\ SaveReceipt(item) /\ HonestReceipt(item) /\ item.pr = proposal.pr
          /\ item.status \in UnderWay \/ (item.status = "failed" /\ publisher[p].at = "check")
    BY <1>5
  <2>1. proposal' = SavedProposal(item) BY DEF SaveReceipt, SavedProposal
  <2>2. /\ proposal' \in ProposalRow /\ proposal'.status = item.status
        /\ proposal'.commit = item.commit /\ proposal'.pr = proposal.pr
    BY <1>3, <2>1, SavedRow
  <2>3. HonestReceipt(proposal)' BY <2>2 DEF HonestReceipt
  <2> QED BY <1>1, <1>2, <2>2, <2>3, CallKeeps
<1> QED BY <1>4, <1>5

\* A call goes on with what it holds.
LEMMA CallGoesOn ==
    ASSUME HubInv, NEW p \in Publishers, NEW item \in ProposalRow,
           NEW at \in Places,
           Holding(p, item, at), proposal.status # "none",
           UNCHANGED <<preparer, hub, written, onTheWay, codeGrant, taskRun>>,
           proposal' \in ProposalRow, proposal'.pr = proposal.pr, HonestReceipt(proposal)',
           proposal'.status = proposal.status \/ proposal'.status \in UnderWay,
           item.pr = proposal.pr, HonestReceipt(item), item.status \in UnderWay,
           proposal'.status # "prepared",
           at \in {"pulls", "receipt", "pushed", "pull"} => written["commit"] = 1,
           at \in {"check", "branch", "commit", "pushed", "pull"} =>
               /\ Author(publisher[p]) \/ proposal.status = "prepared"
               /\ proposal'.status # "failed"
               /\ \A w \in Left(at, "none") : w \notin onTheWay /\ written[w] = 0
    PROVE  HubInv'
<1>1. publisher[p] \in PublisherRow /\ publisher \in [Publishers -> PublisherRow]
  BY DEF HubInv, HubTables
<1>2. PICK row : row = HeldRow(publisher[p], item, at) OBVIOUS
<1>3. row \in PublisherRow /\ row.item = item /\ row.at = at /\ row.sent = "none"
  BY <1>1, <1>2 DEF PublisherRow, HeldRow
<1>4. publisher' = [publisher EXCEPT ![p] = row] BY <1>1, <1>2 DEF Holding, HeldRow
<1>5. Author(row) => at \in {"check", "branch", "commit", "pushed", "pull"} BY <1>3 DEF Author
<1>6. \A w \in Ahead(row) : w \notin onTheWay /\ written[w] = 0
  <2>1. Ahead(row) = Left(at, "none") BY <1>3 DEF Ahead
  <2>2. at \notin {"check", "branch", "commit", "pushed", "pull"} => Left(at, "none") = {}
    BY DEF Left
  <2> QED BY <2>1, <2>2
<1>7. RowTrue(row)'
  <2>1. proposal'.status # "none" BY DEF UnderWay
  <2>2. \A w \in Ahead(row) : w \notin onTheWay' /\ written'[w] = 0 BY <1>6
  <2> QED BY <1>3, <1>5, <2>1, <2>2 DEF RowTrue, HonestReceipt, Author, Ahead
<1>8. Author(row) => Author(publisher[p]) \/ proposal.status = "prepared" BY <1>5
<1> QED BY <1>3, <1>4, <1>7, <1>8, CallKeeps

-----------------------------------------------------------------------------
(* The calls of github_publish *)

LEMMA CallRow ==
    ASSUME HubInv, NEW p \in Publishers
    PROVE  /\ publisher[p] \in PublisherRow /\ publisher[p].item \in ProposalRow
           /\ publisher \in [Publishers -> PublisherRow]
           /\ proposal \in ProposalRow /\ HonestReceipt(proposal) /\ RowTrue(publisher[p])
BY DEF HubInv, HubTables, HubFacts, PublisherRow

LEMMA StartKeeps ==
    ASSUME HubInv, NEW p \in Publishers, StartPublish(p)
    PROVE  HubInv'
<1> DEFINE at == IF proposal.status = "prepared" THEN "claim" ELSE "commits"
<1>1. PICK row : row = [at |-> at, run |-> taskRun, item |-> proposal, locks |-> TRUE, sent |-> "none"]
  OBVIOUS
<1>2. /\ publisher' = [publisher EXCEPT ![p] = row] /\ proposal.status # "none"
      /\ proposal.status # "prepared" => proposal.status \in UnderWay
  BY <1>1, CallRow DEF StartPublish, ProposalRow, ProposalStatuses, UnderWay
<1>3. taskRun \in Nat /\ at \in Places \cup {"idle", "claim"} /\ "none" \in {"none", "sent", "answered"}
  BY DEF HubInv, HubTables, Places
<1>4. row \in PublisherRow
  <2> HIDE DEF at
  <2> QED BY <1>1, <1>3, CallRow, Zenon DEF PublisherRow
<1>5. row.at = at /\ row.item = proposal /\ row.sent = "none" BY <1>1
<1>6. Ahead(row) = {} /\ ~Author(row) BY <1>5 DEF Ahead, Left, Author
<1>7. RowTrue(row)' BY <1>2, <1>5, <1>6, CallRow DEF StartPublish, RowTrue, HonestReceipt, Ahead
<1>8. HonestReceipt(proposal)' BY CallRow DEF StartPublish, HonestReceipt
<1> QED BY <1>2, <1>4, <1>6, <1>7, <1>8, CallRow, CallKeeps DEF StartPublish

LEMMA ClaimKeeps ==
    ASSUME HubInv, NEW p \in Publishers, ClaimProposal(p)
    PROVE  HubInv'
<1>1. proposal.status # "none" BY CallRow DEF ClaimProposal, Publishing, RowTrue
<1>2. CASE Returns(p) /\ UNCHANGED proposal
  BY <1>1, <1>2, CallReturns DEF ClaimProposal
<1>3. CASE /\ proposal.status = "prepared" /\ Holding(p, proposal', "check")
           /\ proposal' = [proposal EXCEPT !.status = "publishing", !.stage = "checking_branch"]
  <2>1. PICK item : item = proposal' OBVIOUS
  <2>2. /\ item \in ProposalRow /\ item.status = "publishing"
        /\ item.commit = proposal.commit /\ item.pr = proposal.pr
    BY <1>3, <2>1, CallRow DEF ProposalRow, ProposalStatuses, Receipts
  <2>3. Untouched BY <1>3 DEF HubInv, HubFacts
  <2>4. HonestReceipt(item) BY <1>3, <2>2, CallRow DEF HonestReceipt
  <2>5. HonestReceipt(proposal)' BY <2>1, <2>4 DEF ClaimProposal, HonestReceipt
  <2>6. "check" \in Places /\ item.status \in UnderWay BY <2>2 DEF Places, UnderWay
  <2>7. \A w \in Left("check", "none") : w \notin onTheWay /\ written[w] = 0
    BY <2>3 DEF Left, Untouched
  <2> QED BY <1>1, <1>3, <2>1, <2>2, <2>4, <2>5, <2>6, <2>7, CallGoesOn DEF ClaimProposal
<1> QED BY <1>2, <1>3 DEF ClaimProposal, Unclaimed

\* What a call past its claim knows.
LEMMA CallKnows ==
    ASSUME HubInv, NEW p \in Publishers, publisher[p].at \in Places
    PROVE  /\ proposal.status # "none" /\ proposal.status # "prepared"
           /\ publisher[p].item.status \in UnderWay /\ publisher[p].item.pr = proposal.pr
           /\ HonestReceipt(publisher[p].item)
BY CallRow DEF RowTrue, Places

LEMMA StageKeeps ==
    ASSUME HubInv, NEW p \in Publishers, NEW stage \in Receipts, NEW at \in {"branch", "commit", "pull"},
           SaveStage(p, stage, at), Author(publisher[p]), at = "pull" => written["commit"] = 1,
           UNCHANGED <<preparer, hub, written, onTheWay, codeGrant, taskRun>>,
           \A w \in Left(at, "none") : w \notin onTheWay /\ written[w] = 0
    PROVE  HubInv'
<1>1. PICK item : item = [publisher[p].item EXCEPT !.stage = stage] OBVIOUS
<1>2. publisher[p].at \in Places BY DEF Author, Places
<1>3. /\ item \in ProposalRow /\ item.status = publisher[p].item.status
      /\ item.commit = publisher[p].item.commit /\ item.pr = publisher[p].item.pr
  BY <1>1, CallRow DEF ProposalRow
<1>4. /\ proposal' \in ProposalRow /\ proposal'.status = proposal.status
      /\ proposal'.commit = proposal.commit /\ proposal'.pr = proposal.pr
  BY CallRow DEF SaveStage, ProposalRow
<1>5. HonestReceipt(item) /\ HonestReceipt(proposal)' BY <1>2, <1>3, <1>4, CallKnows, CallRow DEF HonestReceipt
<1>6. proposal.status # "failed" BY <1>2, CallRow DEF RowTrue, Places
<1>7. at \in Places /\ Holding(p, item, at) BY <1>1 DEF Places, SaveStage
<1> QED BY <1>2, <1>3, <1>4, <1>5, <1>6, <1>7, CallKnows, CallGoesOn

\* A receipt saved by a call that goes on.
LEMMA SaveGoesOn ==
    ASSUME HubInv, NEW p \in Publishers, NEW item \in ProposalRow, NEW at \in {"pushed", "commits"},
           publisher[p].at \in Places, SaveReceipt(item), Holding(p, item, at),
           UNCHANGED <<preparer, hub, written, onTheWay, codeGrant, taskRun>>,
           item.pr = proposal.pr, HonestReceipt(item), item.status \in UnderWay,
           at = "pushed" => /\ Author(publisher[p]) /\ written["commit"] = 1
                            /\ "pull" \notin onTheWay /\ written["pull"] = 0
    PROVE  HubInv'
<1>1. proposal' = SavedProposal(item) BY DEF SaveReceipt, SavedProposal
<1>2. /\ proposal' \in ProposalRow /\ proposal'.status = item.status
      /\ proposal'.commit = item.commit /\ proposal'.pr = proposal.pr
  BY <1>1, CallRow, SavedRow
<1>3. HonestReceipt(proposal)' BY <1>2 DEF HonestReceipt
<1>4. at \in Places BY DEF Places
<1>5. proposal'.status \notin {"prepared", "failed"} BY <1>2 DEF UnderWay
<1>6. at = "pushed" => \A w \in Left(at, "none") : w \notin onTheWay /\ written[w] = 0 BY DEF Left
<1>7. at \in {"check", "branch", "commit", "pushed", "pull"} => at = "pushed" OBVIOUS
<1> QED BY <1>2, <1>3, <1>4, <1>5, <1>6, <1>7, CallKnows, CallGoesOn

LEMMA CheckKeeps ==
    ASSUME HubInv, NEW p \in Publishers, CheckBranch(p)
    PROVE  HubInv'
<1>1. publisher[p].at = "check" /\ publisher[p].at \in Places /\ Author(publisher[p])
  BY DEF CheckBranch, Publishing, Places, Author
<1>2. \A w \in Writes : w \notin onTheWay /\ written[w] = 0
  BY <1>1, CallRow DEF RowTrue, Ahead, Left
<1>3. Left("branch", "none") \subseteq Writes /\ Left("commit", "none") \subseteq Writes
      /\ "branch_intent" \in Receipts /\ "commit_intent" \in Receipts
  BY DEF Left, Receipts
<1>4. CASE SaveStage(p, "branch_intent", "branch") \/ SaveStage(p, "commit_intent", "commit")
  BY <1>1, <1>2, <1>3, <1>4, StageKeeps DEF CheckBranch
<1>5. CASE Returns(p) /\ UNCHANGED proposal
  BY <1>1, <1>5, CallKnows, CallReturns DEF CheckBranch
<1>6. CASE Returns(p) /\ SaveReceipt(Reported(publisher[p].item))
  <2>1. PICK item : item = Reported(publisher[p].item) OBVIOUS
  <2>2. /\ item \in ProposalRow /\ item.status = "failed"
        /\ item.commit = publisher[p].item.commit /\ item.pr = publisher[p].item.pr
    BY <2>1, CallRow DEF Reported, ProposalRow, ProposalStatuses
  <2>3. HonestReceipt(item) BY <1>1, <2>2, CallKnows DEF HonestReceipt
  <2> QED BY <1>1, <1>6, <2>1, <2>2, <2>3, CallKnows, CallReturns DEF CheckBranch
<1> QED BY <1>4, <1>5, <1>6 DEF CheckBranch

LEMMA AnsweredKeeps ==
    ASSUME HubInv, NEW p \in Publishers, WriteAnswered(p)
    PROVE  HubInv'
<1>1. /\ publisher[p].sent = "answered" /\ publisher[p].at \in Writes /\ publisher[p].at \in Places
      /\ Author(publisher[p]) /\ written[publisher[p].at] = 1
      /\ \A w \in Left(publisher[p].at, "answered") : w \notin onTheWay /\ written[w] = 0
  BY CallRow DEF WriteAnswered, Publishing, RowTrue, Ahead, Places, Author, Writes
<1>2. CASE Publishing(p, "branch") /\ SaveStage(p, "commit_intent", "commit")
  <2>1. Left("commit", "none") \subseteq Left("branch", "answered") BY DEF Left, Writes
  <2>2. "commit_intent" \in Receipts BY DEF Receipts
  <2> QED BY <1>1, <1>2, <2>1, <2>2, StageKeeps DEF WriteAnswered, Publishing
<1>3. CASE Publishing(p, "commit")
  <2>1. PICK item : item = [publisher[p].item EXCEPT !.commit = TRUE, !.stage = "commit_observed",
                                                     !.status = "pushed"]
    OBVIOUS
  <2>2. SaveReceipt(item) /\ Holding(p, item, "pushed")
    BY <1>3, <2>1 DEF WriteAnswered, Publishing
  <2>3. item \in ProposalRow /\ item.status = "pushed" /\ item.pr = publisher[p].item.pr
    BY <2>1, CallRow DEF ProposalRow, ProposalStatuses, Receipts
  <2>4. "pull" \notin onTheWay /\ written["pull"] = 0 /\ written["commit"] = 1
    BY <1>1, <1>3 DEF Publishing, Left, Writes
  <2>5. HonestReceipt(item) /\ item.status \in UnderWay BY <2>3, <2>4 DEF HonestReceipt, UnderWay
  <2> QED BY <1>1, <2>2, <2>3, <2>4, <2>5, CallKnows, SaveGoesOn DEF WriteAnswered
<1>4. CASE Publishing(p, "pull")
  <2>1. PICK item : item = [publisher[p].item EXCEPT !.pull = TRUE, !.stage = "pr_observed",
                                                     !.status = "completed"]
    OBVIOUS
  <2>2. SaveReceipt(item) /\ Returns(p)
    BY <1>4, <2>1 DEF WriteAnswered, Publishing
  <2>3. item \in ProposalRow /\ item.status = "completed" /\ item.pr = publisher[p].item.pr
    BY <2>1, CallRow DEF ProposalRow, ProposalStatuses, Receipts
  <2>4. written["pull"] = 1 /\ written["commit"] = 1
    BY <1>1, <1>4, CallRow DEF Publishing, RowTrue
  <2>5. HonestReceipt(item) /\ item.status \in UnderWay BY <2>3, <2>4 DEF HonestReceipt, UnderWay
  <2> QED BY <1>1, <2>2, <2>3, <2>5, CallKnows, CallReturns DEF WriteAnswered
<1> QED BY <1>2, <1>3, <1>4 DEF WriteAnswered

LEMMA PushedKeeps ==
    ASSUME HubInv, NEW p \in Publishers, AfterPush(p)
    PROVE  HubInv'
<1>1. publisher[p].at = "pushed" /\ publisher[p].at \in Places /\ Author(publisher[p])
  BY DEF AfterPush, Publishing, Places, Author
<1>2. written["commit"] = 1 /\ "pull" \notin onTheWay /\ written["pull"] = 0
  BY <1>1, CallRow DEF RowTrue, Ahead, Left, Writes
<1>3. CASE SaveStage(p, "pr_intent", "pull")
  <2>1. Left("pull", "none") \subseteq {"pull"} /\ "pr_intent" \in Receipts BY DEF Left, Receipts
  <2> QED BY <1>1, <1>2, <1>3, <2>1, StageKeeps DEF AfterPush
<1>4. CASE ~publisher[p].item.pr
  <2>1. PICK item : item = [publisher[p].item EXCEPT !.status = "completed"] OBVIOUS
  <2>2. SaveReceipt(item) /\ Returns(p) BY <1>4, <2>1 DEF AfterPush
  <2>3. item \in ProposalRow /\ item.status = "completed" /\ item.pr = publisher[p].item.pr
    BY <2>1, CallRow DEF ProposalRow, ProposalStatuses
  <2>4. HonestReceipt(item) /\ item.status \in UnderWay BY <1>2, <1>4, <2>3 DEF HonestReceipt, UnderWay
  <2> QED BY <1>1, <2>2, <2>3, <2>4, CallKnows, CallReturns DEF AfterPush
<1> QED BY <1>3, <1>4 DEF AfterPush

LEMMA UncertainKeeps ==
    ASSUME HubInv, NEW p \in Publishers, WriteUncertain(p)
    PROVE  HubInv'
<1>1. publisher[p].at \in Places /\ publisher[p].at \in Writes
  BY DEF WriteUncertain, Places, Writes
<1>2. PICK item : item = [publisher[p].item EXCEPT !.status = "unknown"] OBVIOUS
<1>3. /\ item \in ProposalRow /\ item.status = "unknown" /\ item.pr = publisher[p].item.pr
      /\ item.commit = publisher[p].item.commit
  BY <1>2, CallRow DEF ProposalRow, ProposalStatuses
<1>4. HonestReceipt(item) /\ item.status \in UnderWay BY <1>1, <1>3, CallKnows DEF HonestReceipt, UnderWay
<1>5. SaveReceipt(item) \/ UNCHANGED proposal BY <1>2 DEF WriteUncertain
<1>6. CASE Returns(p)
  BY <1>1, <1>3, <1>4, <1>5, <1>6, CallKnows, CallReturns DEF WriteUncertain
<1>7. CASE Holding(p, item, "commits")
  <2>1. CASE SaveReceipt(item)
    BY <1>1, <1>3, <1>4, <1>7, <2>1, CallKnows, SaveGoesOn DEF WriteUncertain
  <2>2. CASE UNCHANGED proposal
    <3>1. HonestReceipt(proposal)' BY <2>2, CallRow DEF HonestReceipt, WriteUncertain
    <3>2. "commits" \in Places BY DEF Places
    <3> QED
      BY <1>1, <1>3, <1>4, <1>7, <2>2, <3>1, <3>2, CallRow, CallKnows, CallGoesOn
         DEF WriteUncertain
  <2> QED BY <1>5, <2>1, <2>2
<1> QED BY <1>2, <1>6, <1>7 DEF WriteUncertain

\* What a reconciling call finds at GitHub is there.
LEMMA FoundKeeps ==
    ASSUME HubInv, NEW p \in Publishers, NEW item \in ProposalRow, NEW at \in {"pulls", "receipt"},
           publisher[p].at \in Places, Holding(p, item, at), item.pr = proposal.pr, HonestReceipt(item),
           item.status \in UnderWay, written["commit"] = 1,
           UNCHANGED <<proposal, preparer, hub, written, onTheWay, codeGrant, taskRun>>
    PROVE  HubInv'
<1>1. HonestReceipt(proposal)' BY CallRow DEF HonestReceipt
<1>2. at \in Places BY DEF Places
<1> QED BY <1>1, <1>2, CallRow, CallKnows, CallGoesOn

LEMMA ReconcileKeeps ==
    ASSUME HubInv, NEW p \in Publishers, FindCommit(p) \/ FindPull(p) \/ SaveReconciled(p)
    PROVE  HubInv'
<1>1. publisher[p].at \in Places BY DEF FindCommit, FindPull, SaveReconciled, Publishing, Places
<1>2. CASE FindCommit(p)
  <2>1. CASE Returns(p) BY <1>1, <1>2, <2>1, CallKnows, CallReturns DEF FindCommit
  <2>2. CASE CommitSeen(p)
    <3>1. written["commit"] = 1
      BY <1>1, <2>2, CallKnows DEF CommitSeen, HubInv, HubFacts, HonestReceipt
    <3>2. PICK item : item = [publisher[p].item EXCEPT !.commit = TRUE, !.status = "pushed"] OBVIOUS
    <3>3. item \in ProposalRow /\ item.status = "pushed" /\ item.pr = publisher[p].item.pr
      BY <3>2, CallRow DEF ProposalRow, ProposalStatuses
    <3>4. HonestReceipt(item) /\ item.status \in UnderWay BY <3>1, <3>3 DEF HonestReceipt, UnderWay
    <3>5. Holding(p, item, "pulls") \/ Holding(p, item, "receipt") \/ Returns(p)
      BY <1>2, <3>2 DEF FindCommit
    <3> QED BY <1>1, <1>2, <2>1, <3>1, <3>3, <3>4, <3>5, CallKnows, FoundKeeps DEF FindCommit
  <2> QED BY <1>2, <2>1, <2>2 DEF FindCommit
<1>3. CASE FindPull(p)
  <2>1. written["commit"] = 1 BY <1>3, CallRow DEF FindPull, Publishing, RowTrue
  <2>2. CASE Holding(p, publisher[p].item, "receipt")
    BY <1>1, <1>3, <2>1, <2>2, CallRow, CallKnows, FoundKeeps DEF FindPull
  <2>3. CASE hub.pull # "none" /\ ~Holding(p, publisher[p].item, "receipt")
    <3>1. PICK item : item = [publisher[p].item EXCEPT !.pull = TRUE, !.stage = "pr_reconciled",
                                                       !.status = "completed"]
      OBVIOUS
    <3>2. item \in ProposalRow /\ item.status = "completed" /\ item.pr = publisher[p].item.pr
      BY <3>1, CallRow DEF ProposalRow, ProposalStatuses, Receipts
    <3>3. written["pull"] = 1 BY <2>3 DEF HubInv, HubFacts
    <3>4. HonestReceipt(item) /\ item.status \in UnderWay BY <2>1, <3>2, <3>3 DEF HonestReceipt, UnderWay
    <3>5. Holding(p, item, "receipt") BY <1>3, <2>3, <3>1 DEF FindPull
    <3> QED BY <1>1, <1>3, <2>1, <3>2, <3>4, <3>5, CallKnows, FoundKeeps DEF FindPull
  <2> QED BY <1>3, <2>2, <2>3 DEF FindPull
<1>4. CASE SaveReconciled(p)
  <2>1. written["commit"] = 1 BY <1>4, CallRow DEF SaveReconciled, Publishing, RowTrue
  <2>2. CASE publisher[p].item.pr
    BY <1>1, <1>4, <2>2, CallRow, CallKnows, CallReturns DEF SaveReconciled
  <2>3. CASE ~publisher[p].item.pr
    <3>1. PICK item : item = [publisher[p].item EXCEPT !.status = "completed",
                                                       !.stage = "commit_reconciled"]
      OBVIOUS
    <3>2. item \in ProposalRow /\ item.status = "completed" /\ item.pr = publisher[p].item.pr
      BY <3>1, CallRow DEF ProposalRow, ProposalStatuses, Receipts
    <3>3. HonestReceipt(item) /\ item.status \in UnderWay BY <2>1, <2>3, <3>2 DEF HonestReceipt, UnderWay
    <3>4. SaveReceipt(item) /\ Returns(p) BY <1>4, <2>3, <3>1 DEF SaveReconciled
    <3> QED BY <1>1, <1>4, <3>2, <3>3, <3>4, CallKnows, CallReturns DEF SaveReconciled
  <2> QED BY <2>2, <2>3
<1> QED BY <1>2, <1>3, <1>4

LEMMA LosesKeep ==
    ASSUME HubInv, NEW p \in Publishers, PublisherEnds(p) \/ LosePublishLock(p)
    PROVE  HubInv'
<1>1. CASE PublisherEnds(p)
  <2>1. proposal.status # "none" BY <1>1, CallRow DEF PublisherEnds, Publishing, RowTrue
  <2> QED BY <1>1, <2>1, CallReturns DEF PublisherEnds
<1>2. CASE LosePublishLock(p)
  <2>1. \A q \in Publishers :
            /\ publisher'[q] \in PublisherRow
            /\ publisher'[q].at = publisher[q].at /\ publisher'[q].item = publisher[q].item
            /\ publisher'[q].sent = publisher[q].sent
    BY <1>2, CallRow DEF LosePublishLock, PublisherRow
  <2>2. HubTables'
    <3>1. publisher' \in [Publishers -> PublisherRow] BY <1>2, <2>1, CallRow DEF LosePublishLock
    <3> QED BY <1>2, <3>1 DEF LosePublishLock, HubInv, HubTables
  <2>3. HubFacts' BY <1>2 DEF LosePublishLock, HubInv, HubFacts, HonestReceipt, Untouched
  <2>4. OneAuthor' BY <2>1 DEF HubInv, OneAuthor, Author
  <2>5. \A q \in Publishers : RowTrue(publisher[q])'
    BY <1>2, <2>1 DEF LosePublishLock, HubInv, RowTrue, HonestReceipt, Ahead, Author
  <2> QED BY <2>2, <2>3, <2>4, <2>5 DEF HubInv
<1> QED BY <1>1, <1>2

-----------------------------------------------------------------------------
(* GitHub *)

LEMMA SendKeeps ==
    ASSUME HubInv, NEW p \in Publishers, SendWrite(p)
    PROVE  HubInv'
<1>1. PICK w \in Writes : w = publisher[p].at BY DEF SendWrite
<1>2. /\ publisher[p].sent = "none" /\ Author(publisher[p]) /\ w \in Ahead(publisher[p])
      /\ publisher[p].at \in Places
  BY <1>1 DEF SendWrite, Author, Ahead, Left, Writes, Places
<1>3. w \notin onTheWay /\ written[w] = 0
      /\ proposal.status \notin {"none", "prepared", "failed"}
  BY <1>2, CallRow, CallKnows DEF RowTrue, Places
<1>4. /\ onTheWay' = onTheWay \cup {w}
      /\ UNCHANGED <<proposal, preparer, hub, written, codeGrant, taskRun>>
  BY <1>1 DEF SendWrite
<1>5. \A q \in Publishers :
          /\ publisher'[q] \in PublisherRow
          /\ publisher'[q].at = publisher[q].at /\ publisher'[q].item = publisher[q].item
          /\ publisher'[q].sent = IF q = p THEN "sent" ELSE publisher[q].sent
  BY CallRow DEF SendWrite, PublisherRow
<1>6. HubTables'
  <2>1. publisher' \in [Publishers -> PublisherRow] BY <1>5, CallRow DEF SendWrite
  <2> QED BY <1>4, <2>1 DEF HubInv, HubTables
<1>7. HubFacts' BY <1>3, <1>4 DEF HubInv, HubFacts, HonestReceipt, Untouched
<1>8. OneAuthor' BY <1>5 DEF HubInv, OneAuthor, Author
<1>9. ASSUME NEW q \in Publishers PROVE RowTrue(publisher[q])'
  <2>1. \A v \in Ahead(publisher[q])' : v \notin onTheWay' /\ (publisher[q].at # "idle" => written'[v] = 0)
    <3>1. CASE q = p
      <4>1. Ahead(publisher[q])' = Ahead(publisher[p]) \ {w}
        BY <1>1, <1>2, <1>5, <3>1 DEF Ahead, Left, Writes
      <4> QED BY <1>2, <1>4, <4>1, CallRow DEF RowTrue, Places
    <3>2. CASE q # p
      <4>1. ~Author(publisher[q]) BY <1>2, <3>2 DEF HubInv, OneAuthor
      <4>2. Ahead(publisher[q])' = {} BY <1>5, <4>1 DEF Ahead, Left, Author
      <4> QED BY <4>2
    <3> QED BY <3>1, <3>2
  <2> QED BY <1>3, <1>4, <1>5, <2>1, CallRow DEF RowTrue, HonestReceipt, Author
<1> QED BY <1>6, <1>7, <1>8, <1>9 DEF HubInv

LEMMA DecideKeeps ==
    ASSUME HubInv, NEW w \in Writes, HubDecides(w)
    PROVE  HubInv'
<1>1. /\ w \in onTheWay /\ onTheWay' = onTheWay \ {w} /\ written[w] = 0
      /\ proposal.status \notin {"none", "prepared", "failed"}
      /\ UNCHANGED <<proposal, preparer, codeGrant, taskRun>>
  BY DEF HubDecides, HubInv, HubFacts, Untouched
<1>2. /\ written \in [Writes -> 0..1] /\ publisher \in [Publishers -> PublisherRow] /\ hub \in HubRow
      /\ onTheWay \subseteq Writes
  BY DEF HubInv, HubTables
<1>3. CASE Accepts(w)
  <2>1. written' \in [Writes -> 0..1] /\ written'[w] = 1
        /\ \A v \in Writes \ {w} : written'[v] = written[v]
    BY <1>1, <1>2, <1>3 DEF HubDecides
  <2>2. /\ hub' \in HubRow
        /\ hub'.seen => hub.seen \/ w = "commit"
        /\ hub'.pull # "none" => hub.pull # "none" \/ w = "pull"
    BY <1>2, <1>3 DEF HubDecides, HubRow, Writes
  <2>3. \A q \in Publishers :
            /\ publisher'[q] \in PublisherRow
            /\ publisher'[q].at = publisher[q].at /\ publisher'[q].item = publisher[q].item
            /\ \/ publisher'[q].sent = publisher[q].sent
               \/ publisher[q].at = w /\ publisher[q].sent = "sent" /\ publisher'[q].sent = "answered"
    BY <1>2, <1>3 DEF HubDecides, PublisherRow
  <2>4. HubTables'
    <3>1. publisher' \in [Publishers -> PublisherRow] BY <1>3, <2>3 DEF HubDecides
    <3> QED BY <1>1, <1>2, <2>1, <2>2, <3>1 DEF HubInv, HubTables
  <2>5. HubFacts'
    BY <1>1, <1>2, <2>1, <2>2 DEF HubInv, HubFacts, HonestReceipt, Untouched, Writes
  <2>6. OneAuthor' BY <2>3 DEF HubInv, OneAuthor, Author
  <2>7. ASSUME NEW q \in Publishers PROVE RowTrue(publisher[q])'
    <3>1. Ahead(publisher[q])' = Ahead(publisher[q]) BY <2>3 DEF Ahead, Left
    <3>2. publisher[q].at # "idle" => w \notin Ahead(publisher[q])
      BY <1>1 DEF HubInv, RowTrue
    <3>3. Ahead(publisher[q]) \subseteq Writes BY DEF Ahead, Left
    <3>4. PICK item : item = publisher[q].item OBVIOUS
    <3>5. \A v \in Writes : written[v] = 1 => written'[v] = 1 BY <1>1, <2>1
    <3>6. "commit" \in Writes /\ "pull" \in Writes BY DEF Writes
    <3>7. HonestReceipt(item) => HonestReceipt(item)' BY <3>5, <3>6 DEF HonestReceipt
    <3>8. HonestReceipt(publisher[q].item)' = HonestReceipt(item)' BY <2>3, <3>4 DEF HonestReceipt
    <3>9. \A v \in Ahead(publisher[q]) : written[v] = 0 /\ v # w => written'[v] = 0
      BY <2>1, <3>3
    <3>10. publisher'[q].sent = "answered" =>
              publisher[q].sent = "answered" \/ (publisher[q].at \in Writes /\ written'[publisher[q].at] = 1)
      BY <2>1, <2>3
    <3>11. RowTrue(publisher[q]) BY DEF HubInv
    <3> QED
      BY <1>1, <2>3, <3>1, <3>2, <3>4, <3>5, <3>6, <3>7, <3>8, <3>9, <3>10, <3>11
         DEF RowTrue, Author
  <2> QED BY <2>4, <2>5, <2>6, <2>7 DEF HubInv
<1>4. CASE ~Accepts(w)
  <2>1. UNCHANGED <<written, hub, publisher>> BY <1>4 DEF HubDecides
  <2>2. HubTables' BY <1>1, <1>2, <2>1 DEF HubInv, HubTables
  <2>3. HubFacts' BY <1>1, <2>1 DEF HubInv, HubFacts, HonestReceipt, Untouched
  <2>4. OneAuthor' BY <2>1 DEF HubInv, OneAuthor, Author
  <2>5. \A q \in Publishers : RowTrue(publisher[q])'
    BY <1>1, <2>1 DEF HubInv, RowTrue, HonestReceipt, Ahead, Author
  <2> QED BY <2>2, <2>3, <2>4, <2>5 DEF HubInv
<1> QED BY <1>3, <1>4

-----------------------------------------------------------------------------
(* Checkout, preparation and the others *)

\* A step that leaves calls and writes alone.
LEMMA AroundKeeps ==
    ASSUME HubInv, UNCHANGED <<publisher, onTheWay, written>>, HubTables',
           proposal'.status = proposal.status, proposal'.pr = proposal.pr,
           proposal'.commit = proposal.commit,
           preparer'.at # "idle" => proposal.status = "none",
           hub'.seen => hub.seen, hub'.pull # "none" => hub.pull # "none"
    PROVE  HubInv'
<1>1. HubFacts' BY DEF HubInv, HubFacts, HonestReceipt, Untouched
<1>2. OneAuthor' BY DEF HubInv, OneAuthor, Author
<1>3. \A q \in Publishers : RowTrue(publisher[q])'
  BY DEF HubInv, RowTrue, HonestReceipt, Ahead, Author
<1> QED BY <1>1, <1>2, <1>3 DEF HubInv

\* The proposal is inserted once, when no call knows of one.
LEMMA PrepareKeeps ==
    ASSUME HubInv, NEW pr \in BOOLEAN, FinishPrepare(pr)
    PROVE  HubInv'
<1>1. /\ preparer \in PreparerRow /\ proposal \in ProposalRow
      /\ preparer.at = "export" /\ proposal.status = "none"
  BY DEF HubInv, HubTables, HubFacts, FinishPrepare
<1>2. preparer' \in PreparerRow /\ preparer'.at = "idle"
  BY <1>1 DEF FinishPrepare, PreparerRow
<1>3. CASE UNCHANGED proposal
  <2>1. HubTables' BY <1>2, <1>3 DEF FinishPrepare, HubInv, HubTables
  <2> QED BY <1>2, <1>3, <2>1, AroundKeeps DEF FinishPrepare
<1>4. CASE proposal' = [NoProposal EXCEPT !.status = "prepared", !.grant = preparer.grant,
                                          !.run = preparer.run, !.new = preparer.new, !.pr = pr]
  <2>1. proposal' \in ProposalRow /\ proposal'.status = "prepared" /\ proposal'.commit = FALSE
    BY <1>1, <1>4, EmptyRows DEF ProposalRow, PreparerRow, ProposalStatuses
  <2>2. \A p \in Publishers : publisher[p].at = "idle" BY <1>1 DEF HubInv, RowTrue
  <2>3. HubTables' BY <1>2, <2>1 DEF FinishPrepare, HubInv, HubTables
  <2>4. HubFacts'
    BY <1>1, <1>2, <2>1 DEF FinishPrepare, HubInv, HubFacts, HonestReceipt, Untouched
  <2>5. OneAuthor' /\ \A p \in Publishers : RowTrue(publisher[p])'
    BY <2>2 DEF FinishPrepare, OneAuthor, RowTrue, Author
  <2> QED BY <2>3, <2>4, <2>5 DEF HubInv
<1> QED BY <1>3, <1>4 DEF FinishPrepare

LEMMA EnvironmentKeeps ==
    ASSUME HubInv,
           \/ BeginCheckout \/ FinishCheckout \/ BeginPrepare \/ PrepareHead
           \/ GrantReplaced \/ NextTaskRun \/ ProposalExpires \/ OthersWork
    PROVE  HubInv'
<1>0. /\ preparer \in PreparerRow /\ proposal \in ProposalRow /\ hub \in HubRow
      /\ codeGrant \in Nat /\ taskRun \in Nat
      /\ preparer.at # "idle" => proposal.status = "none"
  BY DEF HubInv, HubTables, HubFacts
<1>1. CASE BeginCheckout \/ FinishCheckout
  <2>1. UNCHANGED <<proposal, preparer, publisher, hub, onTheWay, written, codeGrant, taskRun>>
    BY <1>1 DEF BeginCheckout, FinishCheckout
  <2>2. HubTables' BY <2>1 DEF HubInv, HubTables
  <2> QED BY <1>0, <2>1, <2>2, AroundKeeps
<1>2. CASE BeginPrepare
  <2>1. preparer' \in PreparerRow BY <1>0, <1>2 DEF BeginPrepare, PreparerRow
  <2>2. HubTables' BY <1>2, <2>1 DEF BeginPrepare, HubInv, HubTables
  <2> QED BY <1>2, <2>2, AroundKeeps DEF BeginPrepare
<1>3. CASE PrepareHead
  <2>1. preparer' \in PreparerRow
    <3>1. (hub.branch = "absent") \in BOOLEAN OBVIOUS
    <3>2. PICK new \in BOOLEAN : new = (hub.branch = "absent") BY <3>1, Zenon
    <3>3. preparer' = [preparer EXCEPT !.at = "export", !.new = new]
          \/ preparer' = [preparer EXCEPT !.at = "idle"]
      BY <1>3, <3>2, Zenon DEF PrepareHead
    <3> QED BY <1>0, <3>3 DEF PreparerRow
  <2>2. HubTables' BY <1>3, <2>1 DEF PrepareHead, HubInv, HubTables
  <2> QED BY <1>0, <1>3, <2>2, AroundKeeps DEF PrepareHead
<1>4. CASE GrantReplaced \/ NextTaskRun
  <2>1. UNCHANGED <<proposal, preparer, publisher, hub, onTheWay, written>>
        /\ codeGrant' \in Nat /\ taskRun' \in Nat
    BY <1>0, <1>4 DEF GrantReplaced, NextTaskRun
  <2>2. HubTables' BY <2>1 DEF HubInv, HubTables
  <2> QED BY <1>0, <2>1, <2>2, AroundKeeps
<1>5. CASE ProposalExpires
  <2>1. /\ proposal' \in ProposalRow /\ proposal'.status = proposal.status
        /\ proposal'.pr = proposal.pr /\ proposal'.commit = proposal.commit
    BY <1>0, <1>5 DEF ProposalExpires, ProposalRow
  <2>2. HubTables' BY <1>5, <2>1 DEF ProposalExpires, HubInv, HubTables
  <2> QED BY <1>0, <1>5, <2>1, <2>2, AroundKeeps DEF ProposalExpires
<1>6. CASE OthersWork
  <2>1. /\ hub' \in HubRow /\ (hub'.seen => hub.seen)
        /\ (hub'.pull # "none" => hub.pull # "none")
    BY <1>0, <1>6 DEF OthersWork, HubRow
  <2>2. HubTables' BY <1>6, <2>1 DEF OthersWork, HubInv, HubTables
  <2> QED BY <1>0, <1>6, <2>1, <2>2, AroundKeeps DEF OthersWork
<1> QED BY <1>1, <1>2, <1>3, <1>4, <1>5, <1>6

LEMMA HubStep ==
    ASSUME HubInv, [HubNext]_hubVars
    PROVE  HubInv'
<1>1. CASE UNCHANGED hubVars
  <2>1. HubTables' BY <1>1 DEF hubVars, HubInv, HubTables
  <2> QED BY <1>1, <2>1, AroundKeeps DEF hubVars, HubInv, HubFacts
<1>2. CASE \E p \in Publishers : PublisherStep(p)
  BY <1>2, StartKeeps, ClaimKeeps, CheckKeeps, AnsweredKeeps, PushedKeeps, UncertainKeeps,
     ReconcileKeeps, LosesKeep, SendKeeps
     DEF PublisherStep
<1> QED BY <1>1, <1>2, DecideKeeps, PrepareKeeps, EnvironmentKeeps DEF HubNext

\* The checkout is another row, and grants and runs are counted.
HubCounted ==
    /\ checkout.status \in {"none", "preparing", "ready", "failed"}
    /\ codeGrant \in 1..MaxCodeGrants /\ taskRun \in 1..MaxTaskRuns

LEMMA HubCountedStep ==
    ASSUME HubCounted, [HubNext]_hubVars
    PROVE  HubCounted'
<1>s. UNCHANGED <<checkout, codeGrant, taskRun>> => HubCounted' BY DEF HubCounted
<1>1. CASE UNCHANGED hubVars BY <1>1, <1>s DEF hubVars
<1>2. CASE BeginCheckout BY <1>2 DEF BeginCheckout, HubCounted
<1>3. CASE FinishCheckout
  <2>1. /\ UNCHANGED <<codeGrant, taskRun>>
        /\ \E status \in {"ready", "failed"} : checkout' = [checkout EXCEPT !.status = status]
    BY <1>3 DEF FinishCheckout
  <2>2. checkout'.status \in {"ready", "failed", checkout.status} BY <2>1
  <2> QED BY <2>1, <2>2 DEF HubCounted
<1>4. CASE GrantReplaced \/ NextTaskRun
  BY <1>4, HubConstants, SMT DEF GrantReplaced, NextTaskRun, HubCounted, HubConstants
<1>5. CASE BeginPrepare \/ PrepareHead \/ \E pr \in BOOLEAN : FinishPrepare(pr)
  BY <1>5, <1>s DEF BeginPrepare, PrepareHead, FinishPrepare
<1>6. CASE \E p \in Publishers : PublisherStep(p)
  BY <1>6, <1>s
     DEF PublisherStep, StartPublish, ClaimProposal, CheckBranch, SendWrite, WriteAnswered,
         AfterPush, WriteUncertain, FindCommit, FindPull, SaveReconciled, PublisherEnds,
         LosePublishLock
<1>7. CASE (\E w \in Writes : HubDecides(w)) \/ ProposalExpires \/ OthersWork
  BY <1>7, <1>s DEF HubDecides, ProposalExpires, OthersWork
<1> QED BY <1>1, <1>2, <1>3, <1>4, <1>5, <1>6, <1>7 DEF HubNext

LEMMA HubBegins == HubInit => HubCounted
BY HubConstants, SMT DEF HubInit, HubCounted, NoCheckout, HubConstants

LEMMA HubTyped == HubInv /\ HubCounted => HubTypeOK
<1> SUFFICES ASSUME HubInv, HubCounted PROVE HubTypeOK OBVIOUS
<1>1. written \in [Writes -> 0..2] BY DEF HubInv, HubTables
<1> QED BY <1>1 DEF HubInv, HubTables, HubCounted, HubTypeOK, ProposalRow, ProposalStatuses, Receipts,
               PublisherRow, PreparerRow, HubRow

\* Receipts, calls, grants and runs stay in their domains.
THEOREM HubTypes == HubSpec => []HubTypeOK
<1>1. HubCounted /\ [HubNext]_hubVars => HubCounted' BY HubCountedStep
<1> QED BY <1>1, HubBegins, HubTyped, HubInitially, HubStep, PTL DEF HubSpec

\* Whoever publishes a proposal, dies, loses the lock or an answer, and whatever is pushed beside
\* it: GitHub has it once, and its receipt says what GitHub has.
THEOREM OncePublished == HubSpec => []PublishedOnce
<1>1. HubInv => PublishedOnce
  BY DEF HubInv, HubTables, HubFacts, HonestReceipt, Untouched, PublishedOnce
<1> QED BY <1>1, HubInitially, HubStep, PTL DEF HubSpec

-----------------------------------------------------------------------------
(*****************************************************************************)
(* Together.                                                                 *)
(*****************************************************************************)

(* Every part of the composition behaves as its own specification allows, moving or at rest: what *)
(* is proved of a part alone holds of the composition TLC checks.                                 *)
THEOREM AccessParts == AccessSpec => FileSpec /\ PersonalSpec /\ SessionSpec /\ AppSpec /\ HubSpec
<1>1. AccessInit => FileInit /\ PersonalInit /\ SessionInit /\ AppInit /\ HubInit BY DEF AccessInit
<1>2. [AccessNext]_accessVars => /\ [FileNext]_fileVars /\ [PersonalNext]_personalVars
                                /\ [SessionNext]_sessionVars /\ [AppNext]_appVars /\ [HubNext]_hubVars
  BY DEF AccessNext, accessVars
<1> QED BY <1>1, <1>2, PTL DEF AccessSpec, FileSpec, PersonalSpec, SessionSpec, AppSpec, HubSpec

(* Whichever part moves, and whatever crashes, retries and lost answers do to it: every row, *)
(* request and counter stays in its domain.                                                  *)
THEOREM AccessTypes == AccessSpec => []AccessTypeOK
<1>1. FileTypeOK /\ PersonalTypeOK /\ SessionTypeOK /\ AppTypeOK /\ HubTypeOK => AccessTypeOK
  BY DEF AccessTypeOK
<1> QED BY <1>1, AccessParts, FileTypes, PersonalTypes, SessionTypes, AppTypes, HubTypes, PTL
=============================================================================
