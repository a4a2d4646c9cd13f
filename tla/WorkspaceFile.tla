--------------------------- MODULE WorkspaceFile ---------------------------
(***************************************************************************)
(* One file of a conversation: the write and edit tools of a run, which    *)
(* must have seen what they replace, the helper processes in the Computer  *)
(* that check and replace it, the user's editor, shell commands, and the   *)
(* restoration of a recorded change.                                       *)
(*                                                                         *)
(* A file has two lines; a digest is as good as the content.  One recorded *)
(* change is followed, any of those the tools make.                        *)
(*                                                                         *)
(* Source: backend/internal/toolboxfs, agenttool/file_state.go, read.go,   *)
(* write.go, edit.go, file_change.go, conversation/file_changes.go,        *)
(* file_rollback.go, sandbox/acs_files.go, docker.go.                      *)
(***************************************************************************)
EXTENDS Integers, FiniteSets

CONSTANTS
    Helpers,        \* processes of the native helper
    Rollbacks,      \* ids of restore requests
    MaxFileOps,     \* bound: writes of tools, pages and shells
    MaxFileFaults   \* bound: lost answers, killed helpers, lost guards

ASSUME FileConstants ==
    /\ {MaxFileOps, MaxFileFaults} \subseteq Nat
    /\ "none" \notin Helpers
    /\ {"none", "run"} \cap Rollbacks = {}

VARIABLES
    target,         \* the content of the file
    pathLock,       \* the helper that holds the lock file of the path
    helper,         \* per process, the write it carries out
    observed,       \* FileState of the run: a version and the text seen under it
    change,         \* the followed row of file_changes
    rolling,        \* per request, its row of file_rollbacks and where its handler is
    fileGuard,      \* holder of the advisory lock of the conversation
    restores,       \* history: restorations that took effect
    lostGuards,     \* history: guards whose session dropped
    fileOps, fileFaults

fileVars == <<target, pathLock, helper, observed, change, rolling, fileGuard, restores,
              lostGuards, fileOps, fileFaults>>

FileLines == {1, 2}
Versions == [FileLines -> {0, 1}]
ToolText == <<1, 1>>        \* what the write tool, the editor and a command write
PageText == <<0, 1>>
ShellText == <<0, 0>>
Absent   == <<>>            \* no file
Odd      == <<2>>           \* a directory, a link or binary data
AnyVersion == <<3>>         \* of a write without a condition
Blank    == [l \in FileLines |-> 2]
Unseen   == [sha |-> Absent, text |-> Blank]
Resting_ == [kind |-> "none", at |-> "idle", expected |-> Absent, new |-> Absent,
             seen |-> Blank, followed |-> FALSE, for |-> "none", moved |-> FALSE]
NoChange == [status |-> "none", before |-> Absent, after |-> Absent, retained |-> FALSE,
             applied |-> FALSE, rollback |-> "none", by |-> "none"]
Unasked  == [at |-> "idle", status |-> "none", current |-> Absent]

\* What FileState lets a run edit and replace.
SeenLines == {l \in FileLines : observed.text[l] # Blank[l]}
Complete == SeenLines = FileLines
ToolBusy == \E h \in Helpers : helper[h].kind \in {"write", "edit"}

FileTypeOK ==
    /\ target \in Versions \cup {Absent, Odd}
    /\ pathLock \in Helpers \cup {"none"}
    /\ \A h \in Helpers :
           /\ helper[h].kind \in {"none", "write", "edit", "page", "rollback", "orphan"}
           /\ helper[h].at \in {"idle", "prepared", "checked", "done", "failed"}
    /\ observed.sha \in Versions \cup {Absent} /\ observed.text \in [FileLines -> 0..2]
    /\ change.status \in {"none", "pending", "confirmed", "unknown"}
    /\ change.rollback \in {"none", "pending", "conflict", "unknown", "completed"}
    /\ \A r \in Rollbacks : rolling[r].at \in {"idle", "read", "writing", "save", "done"}
    /\ fileGuard \in Rollbacks \cup {"none", "run"}

FileInit ==
    /\ target \in {Absent, [l \in FileLines |-> 0]}
    /\ pathLock = "none"
    /\ helper = [h \in Helpers |-> Resting_]
    /\ observed = Unseen
    /\ change = NoChange
    /\ rolling = [r \in Rollbacks |-> Unasked]
    /\ fileGuard = "none"
    /\ restores = 0 /\ lostGuards = 0 /\ fileOps = 0 /\ fileFaults = 0

FileOp == fileOps < MaxFileOps /\ fileOps' = fileOps + 1
FileFault == fileFaults < MaxFileFaults /\ fileFaults' = fileFaults + 1

-----------------------------------------------------------------------------
\* The run and its FileState.

\* FileState is rebuilt from the tool messages the model can still see.
RunTakesGuard ==
    /\ fileGuard = "none" /\ fileGuard' = "run"
    /\ observed' \in {observed, Unseen}
    /\ UNCHANGED <<target, pathLock, helper, change, rolling, restores, lostGuards, fileOps, fileFaults>>
RunLeavesGuard ==
    /\ fileGuard = "run" /\ ~ToolBusy /\ fileGuard' = "none"
    /\ UNCHANGED <<target, pathLock, helper, observed, change, rolling, restores, lostGuards, fileOps, fileFaults>>

ObserveRead_Merged(version, lines) == \* mutant: pages of different versions are put together
    [sha |-> version, text |-> [l \in FileLines |-> IF l \in lines THEN version[l] ELSE observed.text[l]]]
\* Pages of one version add up; a complete observation of it stays.
ObserveRead(version, lines) ==
    LET earlier == IF observed.sha = version THEN observed.text ELSE Blank
    IN  [sha |-> version, text |-> [l \in FileLines |-> IF l \in lines THEN version[l] ELSE earlier[l]]]

\* The lines of a page and the digest of the whole file come from one open file.
Page(lines) == [sha |-> target, lines |-> lines]

\* The read tool shows a page, or nothing of it when the file is not text.
ReadPage(lines) ==
    /\ fileGuard = "run" /\ lines # {}
    /\ target \in Versions
    /\ observed' = ObserveRead(Page(lines).sha, Page(lines).lines)
    /\ UNCHANGED <<target, pathLock, helper, change, rolling, fileGuard, restores, lostGuards, fileOps, fileFaults>>

\* The intent of the change; its contents are kept if the original is the one expected.
CaptureChange(before, after, follow) ==
    change' = IF follow THEN [NoChange EXCEPT !.status = "pending", !.before = before,
                                  !.after = after, !.retained = target = before /\ before # Absent]
                        ELSE change

\* A helper is started: it resolves the path and prepares the bytes in a temporary file.
StartHelper(h, kind, expected, new, follow, request) ==
    /\ helper[h] = Resting_
    /\ helper' = [helper EXCEPT ![h] = [Resting_ EXCEPT !.kind = kind, !.at = "prepared",
                     !.expected = expected, !.new = new, !.followed = follow, !.for = request,
                     !.seen = IF kind = "write" THEN observed.text ELSE Blank]]

MayFollow(follow) == follow => change = NoChange

\* Never seen: only to be created.  Seen in part: refused.
WriteTool(h) ==
    /\ FileOp
    /\ fileGuard = "run" /\ ~ToolBusy
    /\ observed = Unseen \/ Complete
    /\ \E follow \in BOOLEAN :
           /\ MayFollow(follow)
           /\ CaptureChange(observed.sha, ToolText, follow)
           /\ StartHelper(h, "write", observed.sha, ToolText, follow, "none")
    /\ UNCHANGED <<target, pathLock, observed, rolling, fileGuard, restores, lostGuards, fileFaults>>

\* One line that was seen is replaced.
EditTool(h) ==
    /\ FileOp
    /\ fileGuard = "run" /\ ~ToolBusy
    /\ \E l \in SeenLines, follow \in BOOLEAN :
          LET new == [observed.sha EXCEPT ![l] = 1 - @]
          IN  /\ MayFollow(follow)
              /\ CaptureChange(observed.sha, new, follow)
              /\ StartHelper(h, "edit", observed.sha, new, follow, "none")
    /\ UNCHANGED <<target, pathLock, observed, rolling, fileGuard, restores, lostGuards, fileFaults>>

\* The receipt of the tool call, whatever the helper does from now on.
FinishChange(h, status) ==
    change' = IF helper[h].followed THEN [change EXCEPT !.status = status] ELSE change

\* Written text is known; after an edit of a partly seen version nothing is.
ToolConfirmed(h) ==
    /\ helper[h].kind \in {"write", "edit"} /\ helper[h].at = "done"
    /\ observed' = IF helper[h].kind = "write" \/ Complete
                   THEN [sha |-> helper[h].new, text |-> helper[h].new] ELSE Unseen
    /\ FinishChange(h, "confirmed")
    /\ helper' = [helper EXCEPT ![h] = Resting_]
    /\ UNCHANGED <<target, pathLock, rolling, fileGuard, restores, lostGuards, fileOps, fileFaults>>

ToolRefused(h) ==
    /\ helper[h].kind \in {"write", "edit"} /\ helper[h].at = "failed"
    /\ FinishChange(h, "unknown")
    /\ helper' = [helper EXCEPT ![h] = Resting_]
    /\ UNCHANGED <<target, pathLock, observed, rolling, fileGuard, restores, lostGuards, fileOps, fileFaults>>

\* No answer: the helper goes on by itself.
ToolUnanswered(h) ==
    /\ FileFault
    /\ helper[h].kind \in {"write", "edit"}
    /\ FinishChange(h, "unknown")
    /\ helper' = [helper EXCEPT ![h].kind = "orphan"]
    /\ UNCHANGED <<target, pathLock, observed, rolling, fileGuard, restores, lostGuards, fileOps>>

-----------------------------------------------------------------------------
\* The helper process.

Regular == target \in Versions
PathLockFree == pathLock = "none"

\* Under the lock of the path: it must still be a file or nothing, in the version expected.
CheckVersion(h) ==
    LET expected == helper[h].expected
        good == target # Odd /\ (expected \in Versions => target = expected)
    IN  /\ helper[h].at = "prepared" /\ PathLockFree
        /\ pathLock' = IF good THEN h ELSE pathLock
        /\ helper' = [helper EXCEPT ![h].at = IF good THEN "checked" ELSE "failed"]
        /\ UNCHANGED <<target, observed, change, rolling, fileGuard, restores, lostGuards, fileOps, fileFaults>>

\* A hard link creates, a rename replaces.
CommitWrite(h) ==
    LET creates == helper[h].expected = Absent
        fails == target = Odd \/ (creates /\ target # Absent)
    IN  /\ helper[h].at = "checked"
        /\ pathLock' = IF pathLock = h THEN "none" ELSE pathLock
        /\ helper' = [helper EXCEPT ![h].at = IF fails THEN "failed" ELSE "done"]
        /\ target' = IF fails THEN target ELSE helper[h].new
        /\ restores' = IF ~fails /\ helper[h].for # "none" THEN restores + 1 ELSE restores
        /\ change' = IF ~fails /\ helper[h].followed THEN [change EXCEPT !.applied = TRUE] ELSE change
        /\ UNCHANGED <<observed, rolling, fileGuard, lostGuards, fileOps, fileFaults>>

\* Killed, or its request could not be staged, or a system call failed; the lock goes with it.
HelperFails(h) ==
    /\ FileFault
    /\ helper[h].at \in {"prepared", "checked"}
    /\ helper' = [helper EXCEPT ![h].at = "failed"]
    /\ pathLock' = IF pathLock = h THEN "none" ELSE pathLock
    /\ UNCHANGED <<target, observed, change, rolling, fileGuard, restores, lostGuards, fileOps>>

HelperEnds(h) ==
    /\ helper[h].kind \in {"page", "orphan"} /\ helper[h].at \in {"done", "failed"}
    /\ helper' = [helper EXCEPT ![h] = Resting_]
    /\ UNCHANGED <<target, pathLock, observed, change, rolling, fileGuard, restores, lostGuards, fileOps, fileFaults>>

\* The user saves the file in the editor: no condition.
PageWrite(h) ==
    /\ FileOp
    /\ StartHelper(h, "page", AnyVersion, PageText, FALSE, "none")
    /\ UNCHANGED <<target, pathLock, observed, change, rolling, fileGuard, restores, lostGuards, fileFaults>>

\* A command writes, removes or replaces the file, without the lock.
ShellWrite ==
    /\ FileOp
    /\ target' \in {ShellText, Absent, Odd} \ {target}
    /\ helper' = [h \in Helpers |-> IF helper[h].at = "checked" THEN [helper[h] EXCEPT !.moved = TRUE]
                                                              ELSE helper[h]]
    /\ UNCHANGED <<pathLock, observed, change, rolling, fileGuard, restores, lostGuards, fileFaults>>

-----------------------------------------------------------------------------
\* RollbackFileChange.

Restorable_Again == \* mutant: an unknown restoration may be tried again
    /\ change.status = "confirmed" /\ change.retained
    /\ change.rollback \notin {"completed", "pending"}
\* Retained, confirmed, and never tried with an outcome other than a conflict.
Restorable ==
    /\ change.status = "confirmed" /\ change.retained
    /\ change.rollback \notin {"completed", "pending", "unknown"}

Release_(r) == fileGuard' = IF fileGuard = r THEN "none" ELSE fileGuard

\* The receipt is looked up, the guard taken, the change and the current file are read.
BeginRollback(r) ==
    /\ rolling[r] = Unasked
    /\ fileGuard = "none" /\ fileGuard' = r
    /\ Restorable /\ Regular
    /\ rolling' = [rolling EXCEPT ![r].at = "read", ![r].current = target]
    /\ UNCHANGED <<target, pathLock, helper, observed, change, restores, lostGuards, fileOps, fileFaults>>

\* The intent, or the conflict, is committed; then the helper is started.
CommitIntent(r) ==
    LET status == IF rolling[r].current = change.after THEN "pending" ELSE "conflict"
    IN  /\ rolling[r].at = "read" /\ fileGuard # "run"
        /\ change' = [change EXCEPT !.rollback = status, !.by = r]
        /\ IF status = "pending"
           THEN /\ \E h \in Helpers : StartHelper(h, "rollback", change.after, change.before, FALSE, r)
                /\ rolling' = [rolling EXCEPT ![r].at = "writing", ![r].status = status]
                /\ UNCHANGED fileGuard
           ELSE /\ rolling' = [rolling EXCEPT ![r].at = "done", ![r].status = status]
                /\ Release_(r) /\ UNCHANGED helper
        /\ UNCHANGED <<target, pathLock, observed, restores, lostGuards, fileOps, fileFaults>>

\* What the helper answers, or 'unknown'.
RollbackAnswered(h) ==
    LET r == helper[h].for
    IN  /\ helper[h].kind = "rollback" /\ helper[h].at \in {"done", "failed"}
        /\ rolling' = [rolling EXCEPT ![r].at = "save",
                          ![r].status = IF helper[h].at = "done" THEN "completed" ELSE "unknown"]
        /\ helper' = [helper EXCEPT ![h] = Resting_]
        /\ UNCHANGED <<target, pathLock, observed, change, fileGuard, restores, lostGuards, fileOps, fileFaults>>
RollbackUnanswered(h) ==
    /\ FileFault
    /\ helper[h].kind = "rollback"
    /\ rolling' = [rolling EXCEPT ![helper[h].for].at = "save", ![helper[h].for].status = "unknown"]
    /\ helper' = [helper EXCEPT ![h].kind = "orphan"]
    /\ UNCHANGED <<target, pathLock, observed, change, fileGuard, restores, lostGuards, fileOps>>

\* Both rows, the change only if it still names this request; or the save fails.
SaveRollback(r) ==
    /\ rolling[r].at = "save"
    /\ change' = IF change.by = r THEN [change EXCEPT !.rollback = rolling[r].status] ELSE change
    /\ rolling' = [rolling EXCEPT ![r].at = "done"]
    /\ Release_(r)
    /\ UNCHANGED <<target, pathLock, helper, observed, restores, lostGuards, fileOps, fileFaults>>
SaveRollbackFails(r) ==
    /\ FileFault
    /\ rolling[r].at = "save"
    /\ rolling' = [rolling EXCEPT ![r].at = "done", ![r].status = "pending"]
    /\ Release_(r)
    /\ UNCHANGED <<target, pathLock, helper, observed, change, restores, lostGuards, fileOps>>

\* The session of the guard drops; the handler goes on.
LoseFileGuard(r) ==
    /\ FileFault
    /\ fileGuard = r /\ fileGuard' = "none"
    /\ lostGuards' = lostGuards + 1
    /\ UNCHANGED <<target, pathLock, helper, observed, change, rolling, restores, fileOps>>

-----------------------------------------------------------------------------
FileNext ==
    \/ RunTakesGuard \/ RunLeavesGuard \/ ShellWrite
    \/ \E lines \in SUBSET FileLines : ReadPage(lines)
    \/ \E h \in Helpers :
           \/ WriteTool(h) \/ EditTool(h) \/ ToolConfirmed(h) \/ ToolRefused(h) \/ ToolUnanswered(h)
           \/ CheckVersion(h) \/ CommitWrite(h) \/ HelperFails(h) \/ HelperEnds(h) \/ PageWrite(h)
           \/ RollbackAnswered(h) \/ RollbackUnanswered(h)
    \/ \E r \in Rollbacks :
           BeginRollback(r) \/ CommitIntent(r) \/ SaveRollback(r) \/ SaveRollbackFails(r) \/ LoseFileGuard(r)

FileSpec == FileInit /\ [][FileNext]_fileVars

-----------------------------------------------------------------------------
Commits(h) == helper[h].at = "checked" /\ helper'[h].at = "done"

(* What a conditional write replaces is the version its author meant, and an author that is the *)
(* model has been shown all of it, or the line it edits: two tools, a late helper, the editor   *)
(* and a restoration never overwrite each other unseen.  Only a command that writes between the *)
(* check and the rename escapes.                                                                *)
NoLostUpdate ==
    [][\A h \in Helpers : (Commits(h) /\ helper[h].expected # AnyVersion) =>
           /\ target = helper[h].expected \/ helper[h].moved
           /\ (helper[h].kind = "write" /\ helper[h].expected # Absent) =>
                  helper[h].seen = helper[h].expected]_fileVars

(* Receipts are true and a restoration is not repeated: a confirmed change was made, a restored *)
(* one was restored, one never tried or in conflict was not, and without lost guards at most    *)
(* one restoration of a change ever takes effect, late helpers included.                        *)
ReceiptsTrue ==
    /\ change.status = "confirmed" => change.applied
    /\ change.rollback = "completed" => restores > 0
    /\ restores <= 1 + lostGuards
    /\ (change.rollback \in {"none", "conflict"} /\ lostGuards = 0) => restores = 0
=============================================================================
