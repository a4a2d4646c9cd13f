------------------------ MODULE RunAuthority_proofs ------------------------
(***************************************************************************)
(* Proofs about RunAuthority, for any number of tool calls, requests,      *)
(* members and changes of the permission mode.                             *)
(***************************************************************************)
EXTENDS RunAuthority, TLAPS

\* What the assumptions on the constants say of the sets they build.
LEMMA Constants ==
    /\ MaxRevision \in Nat /\ NoCall \notin Calls /\ Submitter \in Members /\ Nobody \notin Members
    /\ \A c \in Calls : \A op \in Requests[c] : op \in Operations
    /\ \A op \in Operations : op \in [tool : Tools, sensitive : BOOLEAN]
BY AuthorityConstants DEF AuthorityConstants, Operations

-----------------------------------------------------------------------------
(* Types *)

\* The rows that the code writes are rows of the table.
LEMMA RowTypes ==
    ASSUME NEW r \in Row
    PROVE  /\ NoRow \in Row
           /\ Withdrawn(r) \in Row
           /\ \A s \in {"rejected", "cancelled"} : Closed(r, s) \in Row
           /\ \A u \in Members, d \in {"once", "run", "full"} : Approved(r, u, d) \in Row
           /\ \A m \in Modes, rev \in 0..MaxRevision : Rewritten(r, m, rev) \in Row
<1>1. NoRow \in Row BY Constants DEF NoRow, Row
<1>2. ASSUME NEW s \in {"rejected", "cancelled"} PROVE Closed(r, s) \in Row
  <2>1. Closed(r, s) = [NoRow EXCEPT !.op = r.op, !.status = s] BY DEF Closed
  <2>2. r.op \in Operations \cup {NoOp} BY DEF Row
  <2> QED BY <1>1, <2>1, <2>2 DEF Row
<1>3. Withdrawn(r) \in Row BY <1>2 DEF Withdrawn
<1>4. \A u \in Members, d \in {"once", "run", "full"} : Approved(r, u, d) \in Row
  BY DEF Approved, Row
<1>5. ASSUME NEW m \in Modes, NEW rev \in 0..MaxRevision PROVE Rewritten(r, m, rev) \in Row
  <2> DEFINE st == IF DecidedByMode(m, r.op) THEN "approved"
                   ELSE IF m = "auto" /\ r.op.tool = "bash" THEN "reviewing" ELSE "pending"
             dc == IF ~DecidedByMode(m, r.op) THEN "none" ELSE IF m = "auto" THEN "once" ELSE "full"
  <2>1. st \in {"pending", "reviewing", "approved"} /\ dc \in {"none", "once", "full"} OBVIOUS
  <2>2. Rewritten(r, m, rev) = [r EXCEPT !.status = st, !.decision = dc, !.source = "mode",
            !.by = Nobody, !.revision = rev, !.token = -1, !.reviewed = FALSE]
    BY DEF Rewritten
  <2> HIDE DEF st, dc
  <2>3. -1 \in -1..MaxRevision BY Constants
  <2> QED BY <2>1, <2>2, <2>3 DEF Row
<1> QED BY <1>1, <1>2, <1>3, <1>4, <1>5

\* What authorizePermission, consumePermission and the reviewer write into a row.
LEMMA RowUpdates ==
    ASSUME NEW r \in Row, NEW rev \in 0..MaxRevision
    PROVE  /\ [r EXCEPT !.consumed = TRUE] \in Row
           /\ [r EXCEPT !.status = "reviewing", !.token = rev] \in Row
           /\ [r EXCEPT !.status = "approved", !.decision = "once", !.source = "llm",
                        !.reviewed = TRUE, !.token = -1] \in Row
           /\ [r EXCEPT !.status = "pending", !.source = "llm",
                        !.reviewed = TRUE, !.token = -1] \in Row
<1> rev \in -1..MaxRevision /\ -1 \in -1..MaxRevision BY Constants
<1>1. [r EXCEPT !.consumed = TRUE] \in Row BY DEF Row
<1>2. [r EXCEPT !.status = "reviewing", !.token = rev] \in Row BY DEF Row
<1>3. [r EXCEPT !.status = "approved", !.decision = "once", !.source = "llm",
                !.reviewed = TRUE, !.token = -1] \in Row BY DEF Row
<1>4. [r EXCEPT !.status = "pending", !.source = "llm", !.reviewed = TRUE, !.token = -1] \in Row
  BY DEF Row
<1> QED BY <1>1, <1>2, <1>3, <1>4

\* Writing one row keeps the table.
LEMMA PutRow ==
    ASSUME NEW f \in [Calls -> Row], NEW c \in Calls, NEW x \in Row
    PROVE  [f EXCEPT ![c] = x] \in [Calls -> Row]
OBVIOUS

\* A change of the mode keeps the types.
LEMMA SetModeType ==
    ASSUME TypeOK, NEW m \in Modes, SetMode(m)
    PROVE  /\ RowsUnder(m) \in [Calls -> Row]
           /\ mode' \in Modes
           /\ revision' \in 0..MaxRevision
           /\ decided' \in [Calls -> 0..MaxRevision]
<1>1. revision + 1 \in 0..MaxRevision BY Constants DEF SetMode, TypeOK
<1>2. RowsUnder(m) \in [Calls -> Row] BY <1>1, RowTypes DEF RowsUnder, TypeOK
<1> QED BY <1>1, <1>2 DEF SetMode, TypeOK

ExType == {e \in Executor : e.pc # "idle" => e.call \in Calls}

\* The executor of a call moves on.
LEMMA GoType ==
    ASSUME TypeOK, ex.pc # "idle",
           NEW pc \in {"plan_check", "read_mode", "ask", "poll", "recheck", "consume",
                       "claim", "review", "cleanup", "start", "wait", "done"}, Go(pc)
    PROVE  ex' \in ExType
<1>1. CASE pc = "done"
  <2>1. ex' = Resting BY <1>1 DEF Go
  <2>2. Resting \in ExType BY Constants DEF Resting, ExType, Executor
  <2> QED BY <2>1, <2>2
<1>2. CASE pc # "done"
  <2>1. ex' = [ex EXCEPT !.pc = pc] BY <1>2 DEF Go
  <2>2. ex \in Executor /\ ex.call \in Calls BY DEF TypeOK
  <2> QED BY <1>2, <2>1, <2>2 DEF ExType, Executor
<1> QED BY <1>1, <1>2

LEMMA TypeInit == Init => TypeOK
<1> SUFFICES ASSUME Init PROVE TypeOK OBVIOUS
<1>1. row \in [Calls -> Row] BY Constants DEF Init, NoRow, Row
<1>2. inter \in [Calls -> Interaction] BY DEF Init, NoInter, Interaction
<1>3. ex \in ExType BY Constants DEF Init, Resting, ExType, Executor
<1>4. revision \in 0..MaxRevision /\ decided \in [Calls -> 0..MaxRevision] /\ uses \in [Calls -> Nat]
  BY Constants DEF Init
<1>5. entered \in SUBSET (Calls \cup {NoCall}) BY DEF Init
<1>6. /\ status \in {"running", "stopped"} /\ mode \in Modes /\ execution \in {"execute", "plan"}
      /\ approvedPlan \in Calls \cup {NoCall} /\ lost \in BOOLEAN /\ proposed \in SUBSET Calls
  BY DEF Init
<1> QED BY <1>1, <1>2, <1>3, <1>4, <1>5, <1>6 DEF TypeOK, ExType

\* The steps that authorize a call keep the types.
LEMMA TypeAuthorize == TypeOK /\ Authorize => TypeOK'
<1> SUFFICES ASSUME TypeOK, Authorize PROVE TypeOK' OBVIOUS
<1> USE DEF TypeOK, ExType
<1>1. CASE PlanCheck BY <1>1, GoType DEF PlanCheck, run
<1>2. CASE Recheck BY <1>2, GoType DEF Recheck, run
<1>3. CASE ReadMode BY <1>3, GoType DEF ReadMode, run
<1>4. CASE AskNothing BY <1>4, GoType DEF AskNothing, run
<1>5. CASE AskPermission
  <2>1. ex' \in ExType BY <1>5, GoType DEF AskPermission
  <2>2. row' \in [Calls -> Row]
    <3> DEFINE asked == [NoRow EXCEPT !.op = ex.op, !.revision = revision, !.source = "user",
                          !.status = IF mode = "auto" /\ ex.op.tool = "bash"
                                     THEN "reviewing" ELSE "pending"]
    <3>1. ex.op \in Operations \cup {NoOp} BY DEF Executor
    <3>2. NoRow \in Row BY Constants DEF NoRow, Row
    <3>3. asked \in Row BY <3>1, <3>2 DEF Row
    <3>4. row' = [row EXCEPT ![ex.call] = asked] BY <1>5 DEF AskPermission
    <3> QED BY <3>3, <3>4
  <2> QED BY <1>5, <2>1, <2>2 DEF AskPermission, run
<1>6. CASE Poll BY <1>6, GoType DEF Poll, run
<1>7. CASE ConsumePermission
  <2> DEFINE used == [row EXCEPT ![ex.call].consumed = TRUE]
  <2>1. ex.call \in Calls /\ ex.pc # "idle" BY <1>7 DEF ConsumePermission
  <2>2. ex' \in ExType BY <1>7, <2>1, GoType DEF ConsumePermission
  <2>3. row' \in [Calls -> Row]
    <3>1. used \in [Calls -> Row] BY <2>1, RowUpdates, PutRow
    <3> QED BY <1>7, <3>1 DEF ConsumePermission
  <2>4. decided' \in [Calls -> 0..MaxRevision] /\ uses' \in [Calls -> Nat]
    BY <1>7, <2>1, Constants DEF ConsumePermission
  <2> QED BY <1>7, <2>2, <2>3, <2>4 DEF ConsumePermission, run
<1>8. CASE ClaimPermissionReview
  <2>1. ex.call \in Calls /\ ex.pc # "idle" BY <1>8 DEF ClaimPermissionReview
  <2>2. row' \in [Calls -> Row]
    <3>1. [row EXCEPT ![ex.call].status = "reviewing", ![ex.call].token = revision] \in [Calls -> Row]
      BY <2>1, RowUpdates, PutRow
    <3> QED BY <1>8, <3>1 DEF ClaimPermissionReview
  <2>3. ex' \in ExType
    <3>1. [ex EXCEPT !.pc = "review", !.claim = revision] \in ExType
      <4>1. revision \in -1..MaxRevision BY Constants
      <4> QED BY <2>1, <4>1 DEF Executor
    <3>2. Go("poll") => ex' \in ExType BY <2>1, GoType
    <3> QED BY <1>8, <3>1, <3>2 DEF ClaimPermissionReview
  <2> QED BY <1>8, <2>2, <2>3 DEF ClaimPermissionReview, run
<1>9. ASSUME NEW v \in {"allow", "deny", "ask_user"}, ReviewPermission(v) PROVE TypeOK'
  <2>1. ex.call \in Calls /\ ex.pc # "idle" BY <1>9 DEF ReviewPermission
  <2>2. row' \in [Calls -> Row]
    <3>1. row[ex.call] \in Row BY <2>1
    <3>2. ASSUME NEW r \in Row
          PROVE  /\ Closed(r, "rejected") \in Row
                 /\ [r EXCEPT !.status = "approved", !.decision = "once", !.source = "llm",
                              !.reviewed = TRUE, !.token = -1] \in Row
                 /\ [r EXCEPT !.status = "pending", !.source = "llm",
                              !.reviewed = TRUE, !.token = -1] \in Row
      <4>1. revision \in 0..MaxRevision OBVIOUS
      <4> QED BY <4>1, RowTypes, RowUpdates
    <3>3. row' = row \/ \E x \in Row : row' = [row EXCEPT ![ex.call] = x]
      BY <1>9, <3>1, <3>2 DEF ReviewPermission
    <3> QED BY <3>3
  <2>3. ex' \in ExType
    <3>1. [ex EXCEPT !.pc = "poll", !.claim = -1] \in ExType
      <4>1. -1 \in -1..MaxRevision BY Constants
      <4> QED BY <2>1, <4>1 DEF Executor
    <3> QED BY <1>9, <3>1 DEF ReviewPermission
  <2>4. decided' \in [Calls -> 0..MaxRevision] BY <1>9 DEF ReviewPermission
  <2> QED BY <1>9, <2>2, <2>3, <2>4 DEF ReviewPermission, run
<1>10. CASE Cleanup
  <2>1. ex.call \in Calls /\ ex.pc # "idle" BY <1>10 DEF Cleanup
  <2>2. Withdrawn(row[ex.call]) \in Row BY <2>1, RowTypes
  <2> QED BY <1>10, <2>1, <2>2, GoType DEF Cleanup, run
<1> QED BY <1>1, <1>2, <1>3, <1>4, <1>5, <1>6, <1>7, <1>8, <1>9, <1>10 DEF Authorize

\* The steps of the tools, and the failures of a step, keep the types.
LEMMA TypeExecutor ==
    ASSUME TypeOK,
           UseTool \/ StepFails \/ CleanupLost \/ \E c \in Calls : \E op \in Requests[c] : IssueCall(c, op)
    PROVE  TypeOK'
<1> USE DEF TypeOK, ExType
<1>1. CASE RunTool BY <1>1, GoType DEF RunTool, run
<1>2. CASE EnterPlanMode
  <2>1. ex' \in ExType BY <1>2, GoType DEF EnterPlanMode
  <2>2. ex.call \in Calls BY <1>2 DEF EnterPlanMode
  <2> QED BY <1>2, <2>1, <2>2 DEF EnterPlanMode
<1>3. CASE CreateRunInteraction
  <2>1. ex' \in ExType BY <1>3, GoType DEF CreateRunInteraction
  <2>2. ex.call \in Calls /\ ex.op \in Operations \cup {NoOp}
    BY <1>3 DEF CreateRunInteraction, Executor
  <2>3. [op |-> ex.op, status |-> "pending", by |-> Nobody] \in Interaction BY <2>2 DEF Interaction
  <2>4. inter' \in [Calls -> Interaction] BY <1>3, <2>2, <2>3 DEF CreateRunInteraction
  <2> QED BY <1>3, <2>1, <2>4 DEF CreateRunInteraction, run
<1>4. CASE WaitRunInteraction BY <1>4, GoType DEF WaitRunInteraction, run
<1>5. CASE StepFails BY <1>5, GoType DEF StepFails, run
<1>6. CASE CleanupLost BY <1>6, GoType DEF CleanupLost, run
<1>7. ASSUME NEW c \in Calls, NEW op \in Requests[c], IssueCall(c, op) PROVE TypeOK'
  <2>1. -1 \in -1..MaxRevision /\ op \in Operations BY Constants
  <2>2. [pc |-> "plan_check", call |-> c, op |-> op, claim |-> -1] \in ExType BY <2>1 DEF Executor
  <2> QED BY <1>7, <2>2 DEF IssueCall, run
<1> QED BY <1>1, <1>2, <1>3, <1>4, <1>5, <1>6, <1>7 DEF UseTool

\* Withdrawing what waits for the user keeps the tables.
LEMMA WithdrawTypes ==
    ASSUME TypeOK
    PROVE  /\ WithdrawRows \in [Calls -> Row]
           /\ WithdrawInteractions \in [Calls -> Interaction]
<1>1. WithdrawRows \in [Calls -> Row] BY RowTypes DEF WithdrawRows, TypeOK
<1>2. ASSUME NEW i \in Interaction PROVE [i EXCEPT !.status = "cancelled"] \in Interaction
  BY DEF Interaction
<1>3. WithdrawInteractions \in [Calls -> Interaction] BY <1>2 DEF WithdrawInteractions, TypeOK
<1> QED BY <1>1, <1>3

\* What members of the workspace do, and the ends of the run, keep the types.
LEMMA TypeUsers == TypeOK /\ (UserStep \/ StopRun \/ CompleteRun) => TypeOK'
<1> SUFFICES ASSUME TypeOK, UserStep \/ StopRun \/ CompleteRun PROVE TypeOK' OBVIOUS
<1> USE DEF TypeOK, ExType
<1>1. ASSUME NEW m \in Modes, ChangeRunPermissionMode(m) PROVE TypeOK'
  <2>1. SetMode(m) BY <1>1 DEF ChangeRunPermissionMode
  <2> QED BY <1>1, <2>1, SetModeType DEF ChangeRunPermissionMode
<1>2. ASSUME NEW c \in Calls, NEW u \in Members, NEW d \in {"once", "run", "reject", "full"},
             RespondPermission(c, u, d)
      PROVE  TypeOK'
  <2>1. CASE d = "full"
    <3>1. SetMode("full") /\ "full" \in Modes BY <1>2, <2>1 DEF RespondPermission, Modes
    <3>2. RowsUnder("full")[c] \in Row BY <3>1, SetModeType
    <3>3. Approved(RowsUnder("full")[c], u, "full") \in Row BY <3>2, RowTypes
    <3>4. row' \in [Calls -> Row]
      BY <1>2, <2>1, <3>1, <3>3, SetModeType, PutRow DEF RespondPermission
    <3> QED BY <1>2, <3>1, <3>4, SetModeType DEF RespondPermission
  <2>2. CASE d # "full"
    <3>1. row[c] \in Row OBVIOUS
    <3>2. Closed(row[c], "rejected") \in Row BY <3>1, RowTypes
    <3>3. d # "reject" => Approved(row[c], u, d) \in Row BY <2>2, <3>1, RowTypes
    <3>4. row' \in [Calls -> Row] BY <1>2, <2>2, <3>2, <3>3, PutRow DEF RespondPermission
    <3>5. decided' \in [Calls -> 0..MaxRevision] BY <1>2, <2>2 DEF RespondPermission
    <3> QED BY <1>2, <2>2, <3>4, <3>5 DEF RespondPermission
  <2> QED BY <2>1, <2>2
<1>3. ASSUME NEW c \in Calls, NEW u \in Members, NEW v \in {"answered", "approved", "rejected"},
             RespondRunInteraction(c, u, v)
      PROVE  TypeOK'
  <2>1. ASSUME NEW i \in Interaction, NEW w \in Members \cup {Nobody}
        PROVE  [i EXCEPT !.status = v, !.by = w] \in Interaction
    BY DEF Interaction
  <2>2. inter' \in [Calls -> Interaction] BY <1>3, <2>1 DEF RespondRunInteraction
  <2> QED BY <1>3, <2>2 DEF RespondRunInteraction
<1>4. CASE AdjustRun BY <1>4, WithdrawTypes DEF AdjustRun, run
<1>5. CASE StopRun BY <1>5, WithdrawTypes DEF StopRun
<1>6. CASE CompleteRun BY <1>6, WithdrawTypes DEF CompleteRun
<1> QED BY <1>1, <1>2, <1>3, <1>4, <1>5, <1>6 DEF UserStep

LEMMA TypeNext == TypeOK /\ [Next]_vars => TypeOK'
<1> SUFFICES ASSUME TypeOK, [Next]_vars PROVE TypeOK' OBVIOUS
<1>1. CASE UNCHANGED vars BY <1>1 DEF TypeOK, vars, run
<1>2. CASE Next BY <1>2, TypeAuthorize, TypeExecutor, TypeUsers DEF Next
<1> QED BY <1>1, <1>2

\* Type correctness: permission_mode and its revision, the consent rows, the
\* interactions and the executor keep their shape under every step.
THEOREM TypeCorrect == Spec => []TypeOK
BY TypeInit, TypeNext, PTL DEF Spec

-----------------------------------------------------------------------------
(***************************************************************************)
(* Consent.  The invariant speaks of one row at a time: what can still be  *)
(* used or decided is of the present revision, what was used stays as it   *)
(* was, and an individual consent to publish is the submitter's.           *)
(***************************************************************************)

RowOK(r, m, rev, epoch, n) ==
    /\ Unused(r) => r.revision = rev
    /\ (r.status = "approved" /\ ~r.consumed) => epoch = rev
    /\ r.status = "reviewing" => m = "auto" /\ r.op.tool = "bash" /\ r.token \in {-1, rev}
    /\ r.consumed => r.status = "approved"
    /\ n = 0 \/ (n = 1 /\ r.consumed)
    /\ (r.op.tool = "github_publish" /\ r.status = "approved"
            /\ r.source = "user" /\ r.decision = "once") => r.by = Submitter
    /\ (r.op.tool = "github_publish" /\ r.consumed) => r.source = "user" /\ r.decision = "once"

Consent == \A c \in Calls : RowOK(row[c], mode, revision, decided[c], uses[c])

\* Consent gives the invariants that the runs check.
LEMMA ConsentImplies ==
    ASSUME TypeOK, Consent
    PROVE  ReceiptsAreCurrent /\ ReviewsAreCurrent /\ SingleUse
           /\ \A c \in Calls : (row[c].op.tool = "github_publish" /\ row[c].consumed) =>
                row[c].by = Submitter /\ row[c].source = "user" /\ row[c].decision = "once"
<1>1. ReceiptsAreCurrent BY DEF ReceiptsAreCurrent, Consent, RowOK, Unused, TypeOK
<1>2. ReviewsAreCurrent BY DEF ReviewsAreCurrent, Consent, RowOK, Unused, Unanswered, TypeOK
<1>3. SingleUse
  <2>1. \A c \in Calls : uses[c] = 0 \/ uses[c] = 1 BY Zenon DEF Consent, RowOK
  <2>2. ASSUME NEW c \in Calls PROVE uses[c] <= 1
    <3>1. CASE uses[c] = 0 BY <3>1
    <3>2. CASE uses[c] = 1 BY <3>2
    <3> QED BY <2>1, <3>1, <3>2
  <2> QED BY <2>2 DEF SingleUse
<1>4. \A c \in Calls : (row[c].op.tool = "github_publish" /\ row[c].consumed) =>
            row[c].by = Submitter /\ row[c].source = "user" /\ row[c].decision = "once"
  BY DEF Consent, RowOK, TypeOK
<1> QED BY <1>1, <1>2, <1>3, <1>4

\* A row that waits for an answer has not been used.
LEMMA WaitingUnused ==
    ASSUME NEW r \in Row, NEW m, NEW rev, NEW epoch, NEW n \in Nat,
           RowOK(r, m, rev, epoch, n), r.status \in Unanswered
    PROVE  ~r.consumed /\ n = 0 /\ r.revision = rev
BY DEF RowOK, Unanswered, Unused

\* A row that is closed satisfies the invariant under any mode.
LEMMA ClosedOK ==
    ASSUME NEW r \in Row, NEW s \in {"rejected", "cancelled"}, NEW m, NEW rev, NEW epoch
    PROVE  RowOK(Closed(r, s), m, rev, epoch, 0)
<1>1. Closed(r, s).status = s /\ Closed(r, s).consumed = FALSE BY DEF Closed, NoRow
<1> QED BY <1>1 DEF RowOK, Unused, Unanswered

\* Withdrawing a row keeps the invariant.
LEMMA WithdrawnOK ==
    ASSUME NEW r \in Row, NEW m, NEW rev, NEW epoch, NEW n \in Nat, RowOK(r, m, rev, epoch, n)
    PROVE  RowOK(Withdrawn(r), m, rev, epoch, n)
<1>1. CASE r.status \in Unanswered BY <1>1, WaitingUnused, ClosedOK DEF Withdrawn
<1>2. CASE r.status \notin Unanswered BY <1>2 DEF Withdrawn
<1> QED BY <1>1, <1>2

\* A change of the mode decides every row that was not used again.
LEMMA RewrittenOK ==
    ASSUME NEW r \in Row, NEW m0, NEW rev0, NEW epoch0, NEW n \in Nat,
           RowOK(r, m0, rev0, epoch0, n), NEW m \in Modes, NEW rev \in 0..MaxRevision
    PROVE  RowOK(IF Unused(r) THEN Rewritten(r, m, rev) ELSE r, m, rev,
                 IF Unused(r) THEN rev ELSE epoch0, n)
<1>1. CASE ~Unused(r) BY <1>1 DEF RowOK, Unused, Unanswered
<1>2. CASE Unused(r)
  <2> DEFINE w == Rewritten(r, m, rev)
  <2>1. w.op = r.op /\ w.consumed = r.consumed /\ w.revision = rev /\ w.source = "mode" /\ w.token = -1
    BY DEF Rewritten, Row
  <2>2. w.status = "reviewing" => m = "auto" /\ r.op.tool = "bash" BY DEF Rewritten, Row
  <2>3. r.consumed = FALSE /\ n = 0 BY <1>2 DEF RowOK, Unused, Unanswered, Row
  <2> HIDE DEF w
  <2>4. RowOK(w, m, rev, rev, n) BY <2>1, <2>2, <2>3 DEF RowOK, Unused, Unanswered
  <2> QED BY <1>2, <2>4 DEF w
<1> QED BY <1>1, <1>2

LEMMA ConsentInit == Init => Consent
<1>1. RowOK(NoRow, mode, 0, 0, 0) BY DEF RowOK, NoRow, Unused, Unanswered
<1> QED BY <1>1 DEF Init, Consent

\* A step that rewrites the row of one call keeps the others.
LEMMA OneRow ==
    ASSUME TypeOK, Consent, NEW c \in Calls, NEW x, row' = [row EXCEPT ![c] = x],
           mode' = mode, revision' = revision,
           \A d \in Calls \ {c} : decided'[d] = decided[d] /\ uses'[d] = uses[d],
           RowOK(x, mode, revision, decided'[c], uses'[c])
    PROVE  Consent'
<1> SUFFICES ASSUME NEW d \in Calls PROVE RowOK(row[d], mode, revision, decided[d], uses[d])'
  BY DEF Consent
<1>1. CASE d = c
  <2>1. row'[d] = x BY <1>1 DEF TypeOK
  <2> QED BY <1>1, <2>1
<1>2. CASE d # c
  <2>1. row'[d] = row[d] /\ decided'[d] = decided[d] /\ uses'[d] = uses[d] BY <1>2 DEF TypeOK
  <2>2. RowOK(row[d], mode, revision, decided[d], uses[d]) BY DEF Consent
  <2> QED BY <2>1, <2>2
<1> QED BY <1>1, <1>2

\* A step that does not touch the rows and the mode.
LEMMA NoRowTouched ==
    ASSUME Consent, UNCHANGED <<mode, revision, row, decided, uses>>
    PROVE  Consent'
BY DEF Consent

\* A withdrawal of everything that waits.
LEMMA AllWithdrawn ==
    ASSUME TypeOK, Consent, row' = WithdrawRows, UNCHANGED <<mode, revision, decided, uses>>
    PROVE  Consent'
<1> SUFFICES ASSUME NEW d \in Calls PROVE RowOK(row[d], mode, revision, decided[d], uses[d])'
  BY DEF Consent
<1>1. row'[d] = Withdrawn(row[d]) BY DEF WithdrawRows
<1>2. row[d] \in Row /\ uses[d] \in Nat /\ RowOK(row[d], mode, revision, decided[d], uses[d])
  BY DEF TypeOK, Consent
<1> QED BY <1>1, <1>2, WithdrawnOK

\* A change of the mode.
LEMMA AllRewritten ==
    ASSUME TypeOK, Consent, NEW m \in Modes, SetMode(m), row' = RowsUnder(m), uses' = uses
    PROVE  Consent'
<1> SUFFICES ASSUME NEW d \in Calls PROVE RowOK(row[d], mode, revision, decided[d], uses[d])'
  BY DEF Consent
<1>1. mode' = m /\ revision' = revision + 1 /\ revision' \in 0..MaxRevision
  BY SetModeType DEF SetMode
<1>2. /\ row'[d] = IF Unused(row[d]) THEN Rewritten(row[d], m, revision') ELSE row[d]
      /\ decided'[d] = IF Unused(row[d]) THEN revision' ELSE decided[d]
  BY <1>1 DEF RowsUnder, SetMode
<1>3. row[d] \in Row /\ uses[d] \in Nat /\ RowOK(row[d], mode, revision, decided[d], uses[d])
  BY DEF TypeOK, Consent
<1> QED BY <1>1, <1>2, <1>3, RewrittenOK

LEMMA ConsentNext == TypeOK /\ Consent /\ [Next]_vars => Consent'
<1> SUFFICES ASSUME TypeOK, Consent, [Next]_vars PROVE Consent' OBVIOUS
<1>k. ASSUME NEW c \in Calls
      PROVE  row[c] \in Row /\ uses[c] \in Nat /\ RowOK(row[c], mode, revision, decided[c], uses[c])
  BY DEF TypeOK, Consent
<1>e. ex.pc # "idle" => ex.call \in Calls BY DEF TypeOK
<1>1. CASE UNCHANGED vars BY <1>1, NoRowTouched DEF vars, run
<1>2. CASE Authorize
  <2>1. CASE PlanCheck \/ Recheck \/ ReadMode \/ AskNothing \/ Poll
    BY <2>1, NoRowTouched DEF PlanCheck, Recheck, ReadMode, AskNothing, Poll, run
  <2>2. CASE AskPermission
    <3> DEFINE asked == [NoRow EXCEPT !.op = ex.op, !.revision = revision, !.source = "user",
                          !.status = IF mode = "auto" /\ ex.op.tool = "bash"
                                     THEN "reviewing" ELSE "pending"]
               c == ex.call
    <3>1. c \in Calls /\ row[c] = NoRow BY <2>2, <1>e DEF AskPermission
    <3>2. uses[c] = 0
      <4>1. ~row[c].consumed BY <3>1 DEF NoRow
      <4> QED BY <4>1, <3>1, <1>k, Zenon DEF RowOK
    <3>3. /\ asked.op = ex.op /\ asked.revision = revision /\ asked.consumed = FALSE /\ asked.token = -1
          /\ asked.status = IF mode = "auto" /\ ex.op.tool = "bash" THEN "reviewing" ELSE "pending"
      BY DEF NoRow
    <3> HIDE DEF asked
    <3>4. RowOK(asked, mode, revision, decided[c], uses[c])
      BY <3>2, <3>3 DEF RowOK, Unused, Unanswered
    <3>5. row' = [row EXCEPT ![c] = asked] /\ UNCHANGED <<mode, revision, decided, uses>>
      BY <2>2 DEF AskPermission, run, asked
    <3> QED BY <3>1, <3>4, <3>5, OneRow
  <2>3. CASE ConsumePermission
    <3> DEFINE c == ex.call
    <3>1. c \in Calls BY <2>3, <1>e DEF ConsumePermission
    <3>2. CASE UNCHANGED <<row, decided, uses>>
      BY <2>3, <3>2, NoRowTouched DEF ConsumePermission, run
    <3>3. CASE ~UNCHANGED <<row, decided, uses>>
      <4> DEFINE used == [row[c] EXCEPT !.consumed = TRUE]
      <4>1. /\ row[c].status = "approved" /\ ~row[c].consumed
            /\ row[c].op.tool = "github_publish" => row[c].source = "user" /\ row[c].decision = "once"
            /\ row' = [row EXCEPT ![c] = used]
            /\ decided' = [decided EXCEPT ![c] = 0] /\ uses' = [uses EXCEPT ![c] = @ + 1]
            /\ mode' = mode /\ revision' = revision
        BY <2>3, <3>3 DEF ConsumePermission, Consumable, run
      <4>2. uses[c] = 0 BY <3>1, <1>k, <4>1, Zenon DEF RowOK
      <4>3. uses'[c] = 1 /\ \A d \in Calls \ {c} : decided'[d] = decided[d] /\ uses'[d] = uses[d]
        BY <3>1, <4>1, <4>2 DEF TypeOK
      <4>4. /\ used.op = row[c].op /\ used.status = "approved" /\ used.consumed = TRUE
            /\ used.source = row[c].source /\ used.decision = row[c].decision
            /\ used.by = row[c].by
        BY <3>1, <1>k, <4>1 DEF Row
      <4> HIDE DEF used
      <4>5. RowOK(used, mode, revision, decided'[c], uses'[c])
        BY <3>1, <1>k, <4>1, <4>3, <4>4 DEF RowOK, Unused, Unanswered
      <4> QED BY <3>1, <4>1, <4>3, <4>5, OneRow
    <3> QED BY <3>2, <3>3
  <2>4. CASE ClaimPermissionReview
    <3> DEFINE c == ex.call
               claimed == [row[c] EXCEPT !.status = "reviewing", !.token = revision]
    <3>1. c \in Calls BY <2>4, <1>e DEF ClaimPermissionReview
    <3>2. CASE UNCHANGED row BY <2>4, <3>2, NoRowTouched DEF ClaimPermissionReview, run
    <3>3. CASE row' # row
      <4>1. /\ mode = "auto" /\ row[c].op.tool = "bash" /\ row[c].revision = revision
            /\ row[c].status \in Unanswered /\ row' = [row EXCEPT ![c] = claimed]
            /\ UNCHANGED <<mode, revision, decided, uses>>
        BY <2>4, <3>1, <3>3 DEF ClaimPermissionReview, run, TypeOK
      <4>2. ~row[c].consumed /\ uses[c] = 0 BY <3>1, <4>1, <1>k, WaitingUnused
      <4>3. /\ claimed.op = row[c].op /\ claimed.status = "reviewing" /\ claimed.token = revision
            /\ claimed.consumed = row[c].consumed /\ claimed.revision = revision
        BY <3>1, <1>k, <4>1 DEF Row
      <4> HIDE DEF claimed
      <4>4. RowOK(claimed, mode, revision, decided[c], uses[c])
        BY <4>1, <4>2, <4>3 DEF RowOK, Unused, Unanswered
      <4> QED BY <3>1, <4>1, <4>4, OneRow
    <3> QED BY <3>2, <3>3
  <2>5. ASSUME NEW v \in {"allow", "deny", "ask_user"}, ReviewPermission(v) PROVE Consent'
    <3> DEFINE c == ex.call
               allowed == [row[c] EXCEPT !.status = "approved", !.decision = "once", !.source = "llm",
                                         !.reviewed = TRUE, !.token = -1]
               put == [row[c] EXCEPT !.status = "pending", !.source = "llm", !.reviewed = TRUE, !.token = -1]
    <3>1. c \in Calls BY <2>5, <1>e DEF ReviewPermission
    <3>2. CASE ~ReviewCurrent(row[c]) BY <2>5, <3>2, NoRowTouched DEF ReviewPermission, run
    <3>3. CASE ReviewCurrent(row[c])
      <4>1. row[c].status \in Unanswered /\ row[c].op.tool = "bash"
        BY <3>1, <3>3, <1>k DEF ReviewCurrent, Unanswered, RowOK
      <4>2. ~row[c].consumed /\ uses[c] = 0 /\ row[c].revision = revision
        BY <3>1, <4>1, <1>k, WaitingUnused
      <4>3. mode' = mode /\ revision' = revision /\ uses' = uses
        BY <2>5 DEF ReviewPermission, run
      <4>4. CASE v = "allow"
        <5>1. row' = [row EXCEPT ![c] = allowed] /\ decided' = [decided EXCEPT ![c] = revision]
          BY <2>5, <3>3, <4>4 DEF ReviewPermission
        <5>2. /\ allowed.op = row[c].op /\ allowed.status = "approved" /\ allowed.source = "llm"
              /\ allowed.consumed = row[c].consumed /\ allowed.revision = row[c].revision
          BY <3>1, <1>k DEF Row
        <5>3. decided'[c] = revision /\ \A d \in Calls \ {c} : decided'[d] = decided[d]
          BY <3>1, <5>1 DEF TypeOK
        <5> HIDE DEF allowed
        <5>4. RowOK(allowed, mode, revision, decided'[c], uses'[c])
          BY <4>1, <4>2, <4>3, <5>2, <5>3 DEF RowOK, Unused, Unanswered
        <5> QED BY <3>1, <4>3, <5>1, <5>3, <5>4, OneRow
      <4>5. CASE v = "deny"
        <5>1. row' = [row EXCEPT ![c] = Closed(row[c], "rejected")] /\ decided' = decided
          BY <2>5, <3>3, <4>5 DEF ReviewPermission
        <5>2. RowOK(Closed(row[c], "rejected"), mode, revision, decided'[c], uses'[c])
          BY <3>1, <1>k, <4>2, <4>3, ClosedOK
        <5> QED BY <3>1, <4>3, <5>1, <5>2, OneRow
      <4>6. CASE v = "ask_user"
        <5>1. row' = [row EXCEPT ![c] = put] /\ decided' = decided
          BY <2>5, <3>3, <4>6 DEF ReviewPermission
        <5>2. /\ put.op = row[c].op /\ put.status = "pending"
              /\ put.consumed = row[c].consumed /\ put.revision = row[c].revision
          BY <3>1, <1>k DEF Row
        <5> HIDE DEF put
        <5>3. RowOK(put, mode, revision, decided'[c], uses'[c])
          BY <4>1, <4>2, <4>3, <5>2 DEF RowOK, Unused, Unanswered
        <5> QED BY <3>1, <4>3, <5>1, <5>3, OneRow
      <4> QED BY <4>4, <4>5, <4>6
    <3> QED BY <3>2, <3>3
  <2>6. CASE Cleanup
    <3>1. ex.call \in Calls BY <2>6, <1>e DEF Cleanup
    <3>2. RowOK(Withdrawn(row[ex.call]), mode, revision, decided[ex.call], uses[ex.call])
      BY <3>1, <1>k, WithdrawnOK
    <3> QED BY <2>6, <3>1, <3>2, OneRow DEF Cleanup, run
  <2> QED BY <1>2, <2>1, <2>2, <2>3, <2>4, <2>5, <2>6 DEF Authorize
<1>3. CASE UseTool \/ StepFails \/ CleanupLost \/ \E c \in Calls : \E op \in Requests[c] : IssueCall(c, op)
  BY <1>3, NoRowTouched
     DEF UseTool, RunTool, EnterPlanMode, CreateRunInteraction, WaitRunInteraction,
         StepFails, CleanupLost, IssueCall, run
<1>4. ASSUME NEW m \in Modes, ChangeRunPermissionMode(m) PROVE Consent'
  BY <1>4, AllRewritten DEF ChangeRunPermissionMode
<1>5. ASSUME NEW c \in Calls, NEW u \in Members, NEW d \in {"once", "run", "reject", "full"},
             RespondPermission(c, u, d)
      PROVE  Consent'
  <2>1. row[c].status = "pending" /\ MayRespond(u, row[c], d) /\ uses' = uses
    BY <1>5 DEF RespondPermission
  <2>2. ~row[c].consumed /\ uses[c] = 0 /\ row[c].revision = revision
    BY <2>1, <1>k, WaitingUnused DEF Unanswered
  <2>3. CASE d = "reject"
    <3>1. row' = [row EXCEPT ![c] = Closed(row[c], "rejected")]
          /\ mode' = mode /\ revision' = revision /\ decided' = decided
      BY <1>5, <2>3 DEF RespondPermission
    <3>2. RowOK(Closed(row[c], "rejected"), mode, revision, decided'[c], uses'[c])
      BY <1>k, <2>1, <2>2, <3>1, ClosedOK
    <3> QED BY <2>1, <3>1, <3>2, OneRow
  <2>4. CASE d \in {"once", "run"}
    <3> DEFINE x == Approved(row[c], u, d)
    <3>1. /\ row' = [row EXCEPT ![c] = x] /\ decided' = [decided EXCEPT ![c] = revision]
          /\ mode' = mode /\ revision' = revision
      BY <1>5, <2>4 DEF RespondPermission
    <3>2. /\ x.op = row[c].op /\ x.status = "approved" /\ x.by = u /\ x.decision = d
          /\ x.consumed = row[c].consumed /\ x.revision = row[c].revision
      BY <1>k DEF Approved, Row
    <3>3. decided'[c] = revision /\ \A e \in Calls \ {c} : decided'[e] = decided[e]
      BY <3>1 DEF TypeOK
    <3> HIDE DEF x
    <3>4. RowOK(x, mode, revision, decided'[c], uses'[c])
      BY <2>1, <2>2, <3>2, <3>3 DEF RowOK, Unused, Unanswered, MayRespond
    <3> QED BY <2>1, <3>1, <3>3, <3>4, OneRow
  <2>5. CASE d = "full"
    <3> DEFINE x == Approved(RowsUnder("full")[c], u, "full")
    <3>1. /\ SetMode("full") /\ "full" \in Modes /\ row' = [RowsUnder("full") EXCEPT ![c] = x]
      BY <1>5, <2>5 DEF RespondPermission, Modes
    <3> SUFFICES ASSUME NEW e \in Calls PROVE RowOK(row[e], mode, revision, decided[e], uses[e])'
      BY DEF Consent
    <3>2. mode' = "full" /\ revision' = revision + 1 /\ revision' \in 0..MaxRevision
      BY <3>1, SetModeType DEF SetMode
    <3>3. /\ RowsUnder("full")[e] = IF Unused(row[e]) THEN Rewritten(row[e], "full", revision') ELSE row[e]
          /\ decided'[e] = IF Unused(row[e]) THEN revision' ELSE decided[e]
      BY <3>1, <3>2 DEF RowsUnder, SetMode
    <3>4. CASE e # c
      <4>1. row'[e] = RowsUnder("full")[e] BY <3>1, <3>4 DEF RowsUnder
      <4> QED BY <1>k, <2>1, <3>1, <3>2, <3>3, <4>1, RewrittenOK
    <3>5. CASE e = c
      <4> DEFINE w == Rewritten(row[c], "full", revision')
      <4>1. Unused(row[c]) BY <2>1 DEF Unused, Unanswered
      <4>2. row'[e] = Approved(w, u, "full") /\ decided'[e] = revision'
        BY <3>1, <3>3, <3>5, <4>1 DEF RowsUnder
      <4>3. w \in Row BY <1>k, <3>1, <3>2, RowTypes
      <4>4. w.op = row[c].op /\ w.consumed = row[c].consumed /\ w.revision = revision'
        BY <1>k DEF Rewritten, Row
      <4> HIDE DEF w
      <4> DEFINE y == Approved(w, u, "full")
      <4>5. /\ y.op = row[c].op /\ y.status = "approved" /\ y.decision = "full"
            /\ y.consumed = row[c].consumed /\ y.revision = revision'
        BY <4>3, <4>4 DEF Approved, Row
      <4> HIDE DEF y
      <4>6. RowOK(y, mode', revision', revision', 0)
        BY <2>2, <4>5 DEF RowOK, Unused, Unanswered
      <4> QED BY <2>1, <2>2, <3>5, <4>2, <4>6 DEF y
    <3> QED BY <3>4, <3>5
  <2> QED BY <2>3, <2>4, <2>5
<1>6. ASSUME NEW c \in Calls, NEW u \in Members, NEW v \in {"answered", "approved", "rejected"},
             RespondRunInteraction(c, u, v)
      PROVE  Consent'
  BY <1>6, NoRowTouched DEF RespondRunInteraction
<1>7. CASE AdjustRun BY <1>7, AllWithdrawn DEF AdjustRun, run
<1>8. CASE StopRun BY <1>8, AllWithdrawn DEF StopRun
<1>9. CASE CompleteRun BY <1>9, NoRowTouched DEF CompleteRun
<1> QED BY <1>1, <1>2, <1>3, <1>4, <1>5, <1>6, <1>7, <1>8, <1>9 DEF Next, UserStep

\* Consent is current: no receipt outlives a change of the permission mode.
THEOREM CurrentReceipts == Spec => []ReceiptsAreCurrent
<1>1. TypeOK /\ Consent => ReceiptsAreCurrent BY ConsentImplies
<1> QED BY <1>1, TypeInit, TypeNext, ConsentInit, ConsentNext, PTL DEF Spec

\* A review that can still decide was claimed under the present mode.
THEOREM CurrentReviews == Spec => []ReviewsAreCurrent
<1>1. TypeOK /\ Consent => ReviewsAreCurrent BY ConsentImplies
<1> QED BY <1>1, TypeInit, TypeNext, ConsentInit, ConsentNext, PTL DEF Spec

\* consumePermission lets one operation through per call id.
THEOREM OneUse == Spec => []SingleUse
<1>1. TypeOK /\ Consent => SingleUse BY ConsentImplies
<1> QED BY <1>1, TypeInit, TypeNext, ConsentInit, ConsentNext, PTL DEF Spec

-----------------------------------------------------------------------------
(***************************************************************************)
(* Plan mode and individual confirmations.  The executor alone enters plan *)
(* mode and is between two calls when it has, so a call that got past the  *)
(* check of authorizeRunTool in plan mode is one that only reads.          *)
(* A plan that waits was put to the user in this planning: it is the only  *)
(* interaction that waits, so no other answer can end plan mode before it. *)
(***************************************************************************)

Pending(c) == inter[c].status = "pending"

Plans ==
    /\ PlanApproved
    /\ \A c \in Calls : (inter[c].op.tool = "propose_schedule" /\ inter[c].status = "approved") =>
            inter[c].by = Submitter
    /\ (execution = "plan" /\ ex.pc \notin {"idle", "plan_check", "cleanup"}) =>
            PlanReadOnlyTool(ex.op.tool)
    /\ \A c \in Calls : (Pending(c) /\ inter[c].op.tool = "propose_plan") =>
            execution = "plan" /\ c \in proposed
    /\ \A c, d \in Calls : Pending(c) /\ Pending(d) => c = d

LEMMA PlansInit == Init => Plans
BY Constants DEF Init, Plans, PlanApproved, Pending, NoInter, NoOp, Resting

\* Withdrawing interactions and letting the executor move on keep Plans.
LEMMA PlansKept ==
    ASSUME TypeOK, Plans, UNCHANGED <<execution, approvedPlan, entered>>,
           \/ UNCHANGED <<inter, proposed>>
           \/ /\ inter' = WithdrawInteractions
              /\ proposed' = proposed \/ proposed' = {c \in proposed : inter[c].status # "pending"},
           \/ ex' = ex
           \/ ex'.pc \in {"idle", "plan_check", "cleanup"}
           \/ ex'.op = ex.op /\ ex.pc \notin {"idle", "plan_check", "cleanup"}
           \/ ex'.op = ex.op /\ (execution = "plan" => PlanReadOnlyTool(ex.op.tool))
    PROVE  Plans'
<1>1. ASSUME NEW c \in Calls
      PROVE  /\ inter'[c].op = inter[c].op /\ inter'[c].by = inter[c].by
             /\ inter'[c].status = "approved" <=> inter[c].status = "approved"
             /\ inter'[c].status = "pending" =>
                    inter[c].status = "pending" /\ UNCHANGED proposed
             /\ inter[c].status # "pending" => (c \in proposed => c \in proposed')
  <2>1. inter[c] \in Interaction BY DEF TypeOK
  <2>2. CASE UNCHANGED <<inter, proposed>> BY <2>2
  <2>3. CASE inter' = WithdrawInteractions
    <3>1. inter'[c] = IF inter[c].status = "pending" THEN [inter[c] EXCEPT !.status = "cancelled"]
                      ELSE inter[c]
      BY <2>3 DEF WithdrawInteractions
    <3>2. inter'[c].status # "pending" BY <2>1, <3>1 DEF Interaction
    <3>3. inter[c].status # "pending" => (c \in proposed => c \in proposed') OBVIOUS
    <3>4. /\ inter'[c].op = inter[c].op /\ inter'[c].by = inter[c].by
          /\ inter'[c].status = "approved" <=> inter[c].status = "approved"
      BY <2>1, <3>1 DEF Interaction
    <3> QED BY <3>2, <3>3, <3>4
  <2> QED BY <2>2, <2>3
<1>2. PlanApproved'
  <2>1. approvedPlan \in Calls \cup {NoCall} BY DEF TypeOK
  <2> QED BY <1>1, <2>1 DEF Plans, PlanApproved
<1>3. (\A c \in Calls : (inter[c].op.tool = "propose_schedule" /\ inter[c].status = "approved") =>
            inter[c].by = Submitter)'
  BY <1>1 DEF Plans
<1>4. ((execution = "plan" /\ ex.pc \notin {"idle", "plan_check", "cleanup"}) =>
            PlanReadOnlyTool(ex.op.tool))'
  BY DEF Plans
<1>5. (/\ \A c \in Calls : (Pending(c) /\ inter[c].op.tool = "propose_plan") =>
               execution = "plan" /\ c \in proposed
       /\ \A c, d \in Calls : Pending(c) /\ Pending(d) => c = d)'
  BY <1>1 DEF Plans, Pending
<1> QED BY <1>2, <1>3, <1>4, <1>5 DEF Plans

LEMMA PlansNext == TypeOK /\ Plans /\ [Next]_vars => Plans'
<1> SUFFICES ASSUME TypeOK, Plans, [Next]_vars PROVE Plans' OBVIOUS
<1>g. ASSUME NEW pc, Go(pc), pc # "done"
      PROVE  ex'.pc = pc /\ ex'.op = ex.op
  BY <1>g DEF Go, TypeOK, Executor
<1>d. Go("done") => ex'.pc = "idle" BY DEF Go, Resting
<1>1. CASE UNCHANGED vars BY <1>1, PlansKept DEF vars, run
<1>2. CASE Authorize
  <2>1. CASE PlanCheck BY <2>1, <1>g, <1>d, PlansKept DEF PlanCheck, PlanAllows, run
  <2>2. CASE Recheck BY <2>2, <1>g, <1>d, PlansKept DEF Recheck, run
  <2>3. CASE ReadMode BY <2>3, <1>g, <1>d, PlansKept DEF ReadMode, run
  <2>4. CASE AskNothing BY <2>4, <1>g, <1>d, PlansKept DEF AskNothing, run
  <2>5. CASE AskPermission BY <2>5, <1>g, <1>d, PlansKept DEF AskPermission, run
  <2>6. CASE Poll BY <2>6, <1>g, <1>d, PlansKept DEF Poll, run
  <2>7. CASE ConsumePermission BY <2>7, <1>g, <1>d, PlansKept DEF ConsumePermission, run
  <2>8. CASE ClaimPermissionReview
    <3>1. ex.pc = "claim" /\ UNCHANGED <<execution, approvedPlan, entered, inter, proposed>>
      BY <2>8 DEF ClaimPermissionReview, run
    <3>2. ex'.op = ex.op
      <4>1. Go("poll") => ex'.op = ex.op BY <1>g
      <4>2. [ex EXCEPT !.pc = "review", !.claim = revision].op = ex.op BY DEF TypeOK, Executor
      <4> QED BY <2>8, <4>1, <4>2 DEF ClaimPermissionReview
    <3> QED BY <3>1, <3>2, PlansKept
  <2>9. ASSUME NEW v \in {"allow", "deny", "ask_user"}, ReviewPermission(v) PROVE Plans'
    <3>1. ex.pc = "review" /\ UNCHANGED <<execution, approvedPlan, entered, inter, proposed>>
      BY <2>9 DEF ReviewPermission, run
    <3>2. ex'.op = ex.op BY <2>9 DEF ReviewPermission, TypeOK, Executor
    <3> QED BY <3>1, <3>2, PlansKept
  <2>10. CASE Cleanup BY <2>10, <1>d, PlansKept DEF Cleanup, run
  <2> QED BY <1>2, <2>1, <2>2, <2>3, <2>4, <2>5, <2>6, <2>7, <2>8, <2>9, <2>10 DEF Authorize
<1>3. CASE RunTool BY <1>3, <1>d, PlansKept DEF RunTool, run
<1>4. CASE EnterPlanMode
  <2>1. ex'.pc = "idle" /\ inter' = inter BY <1>4, <1>d DEF EnterPlanMode
  <2>2. CASE UNCHANGED <<execution, approvedPlan, entered, proposed>> BY <2>1, <2>2, PlansKept
  <2>3. CASE /\ execution' = "plan" /\ approvedPlan' = NoCall
             /\ proposed' = IF execution = "execute" THEN {} ELSE proposed
    <3>1. \A c \in Calls : (Pending(c) /\ inter[c].op.tool = "propose_plan") => c \in proposed'
      BY <2>3 DEF Plans
    <3> QED BY <2>1, <2>3, <3>1 DEF Plans, PlanApproved, Pending
  <2> QED BY <1>4, <2>2, <2>3 DEF EnterPlanMode
<1>5. CASE CreateRunInteraction
  <2> DEFINE c == ex.call
             new == [op |-> ex.op, status |-> "pending", by |-> Nobody]
  <2>1. c \in Calls /\ ex.pc = "start" /\ UNCHANGED <<execution, approvedPlan, entered>>
    BY <1>5 DEF CreateRunInteraction, run, TypeOK
  <2>2. ex'.pc = "idle" \/ (ex'.op = ex.op /\ ex'.pc = "wait")
    BY <1>5, <1>g, <1>d DEF CreateRunInteraction
  <2>3. CASE UNCHANGED <<inter, proposed>> BY <2>1, <2>2, <2>3, PlansKept
  <2>4. CASE ~UNCHANGED <<inter, proposed>>
    <3>1. /\ inter' = [inter EXCEPT ![c] = new] /\ inter[c].status = "none"
          /\ \A d \in Calls : ~Pending(d)
          /\ ex.op.tool = "propose_plan" => execution = "plan"
          /\ proposed' = IF ex.op.tool = "propose_plan" THEN proposed \cup {c} ELSE proposed
      BY <1>5, <2>4 DEF CreateRunInteraction, Pending
    <3>2. \A d \in Calls : inter'[d].status = "approved" => inter'[d] = inter[d] /\ d # c
      BY <2>1, <3>1 DEF TypeOK
    <3>3. \A d \in Calls : inter[d].status = "approved" => inter'[d] = inter[d]
      BY <2>1, <3>1 DEF TypeOK
    <3>4. \A d \in Calls : d \in proposed => d \in proposed' BY <3>1
    <3>5. PlanApproved' BY <2>1, <3>3, <3>4 DEF Plans, PlanApproved, TypeOK
    <3>6. inter'[c] = new /\ \A d \in Calls : Pending(d)' => d = c
      BY <2>1, <3>1 DEF TypeOK, Pending
    <3>7. (\A d \in Calls : (Pending(d) /\ inter[d].op.tool = "propose_plan") =>
                execution = "plan" /\ d \in proposed)'
      BY <2>1, <3>1, <3>6
    <3>8. (\A d, e \in Calls : Pending(d) /\ Pending(e) => d = e)' BY <3>6
    <3>9. ((execution = "plan" /\ ex.pc \notin {"idle", "plan_check", "cleanup"}) =>
            PlanReadOnlyTool(ex.op.tool))'
      BY <2>1, <2>2 DEF Plans
    <3>10. (\A d \in Calls : (inter[d].op.tool = "propose_schedule" /\ inter[d].status = "approved") =>
            inter[d].by = Submitter)'
      BY <3>2 DEF Plans
    <3> HIDE DEF c, new
    <3> QED BY <3>5, <3>7, <3>8, <3>9, <3>10 DEF Plans
  <2> QED BY <2>3, <2>4
<1>6. CASE WaitRunInteraction BY <1>6, <1>d, PlansKept DEF WaitRunInteraction, run
<1>7. CASE StepFails BY <1>7, <1>g, <1>d, PlansKept DEF StepFails, run
<1>8. CASE CleanupLost BY <1>8, <1>d, PlansKept DEF CleanupLost, run
<1>9. ASSUME NEW c \in Calls, NEW op \in Requests[c], IssueCall(c, op) PROVE Plans'
  BY <1>9, PlansKept DEF IssueCall, run
<1>10. ASSUME NEW m \in Modes, ChangeRunPermissionMode(m) PROVE Plans'
  BY <1>10, PlansKept DEF ChangeRunPermissionMode
<1>11. ASSUME NEW c \in Calls, NEW u \in Members, NEW d \in {"once", "run", "reject", "full"},
              RespondPermission(c, u, d)
       PROVE  Plans'
  BY <1>11, PlansKept DEF RespondPermission
<1>12. ASSUME NEW c \in Calls, NEW u \in Members, NEW v \in {"answered", "approved", "rejected"},
              RespondRunInteraction(c, u, v)
       PROVE  Plans'
  <2> DEFINE tool == inter[c].op.tool
             by == IF tool = "propose_schedule" THEN u ELSE Nobody
  <2>1. /\ inter[c].status = "pending" /\ MayConfirm(u, tool, v)
        /\ UNCHANGED <<ex, entered, proposed>> /\ v # "pending"
        /\ inter' = [inter EXCEPT ![c].status = v, ![c].by = by]
        /\ IF PlanTakesEffect(c, v) THEN execution' = "execute" /\ approvedPlan' = c
           ELSE UNCHANGED <<execution, approvedPlan>>
    BY <1>12 DEF RespondRunInteraction
  <2>2. inter'[c].op = inter[c].op /\ inter'[c].status = v /\ inter'[c].by = by
    BY <2>1 DEF TypeOK, Interaction
  <2>3. \A d \in Calls : d # c => inter'[d] = inter[d] BY <2>1 DEF TypeOK
  <2>4. (\A d \in Calls : (inter[d].op.tool = "propose_schedule" /\ inter[d].status = "approved") =>
            inter[d].by = Submitter)'
    <3> SUFFICES ASSUME NEW d \in Calls, inter'[d].op.tool = "propose_schedule",
                        inter'[d].status = "approved"
                 PROVE  inter'[d].by = Submitter
      OBVIOUS
    <3>1. CASE d = c BY <2>1, <2>2, <3>1 DEF MayConfirm
    <3>2. CASE d # c BY <2>3, <3>2 DEF Plans
    <3> QED BY <3>1, <3>2
  <2>5. PlanApproved'
    <3>1. CASE PlanTakesEffect(c, v)
      <4>1. c \in proposed BY <2>1, <3>1 DEF PlanTakesEffect, Plans, Pending
      <4> QED BY <2>1, <2>2, <3>1, <4>1, Constants DEF PlanTakesEffect, PlanApproved
    <3>2. CASE ~PlanTakesEffect(c, v)
      <4>1. approvedPlan # NoCall /\ inter[approvedPlan].status = "approved" => approvedPlan # c
        BY <2>1
      <4>2. approvedPlan \in Calls \cup {NoCall} BY DEF TypeOK
      <4> QED BY <2>1, <2>3, <3>2, <4>1, <4>2 DEF Plans, PlanApproved
    <3> QED BY <3>1, <3>2
  <2>6. ((execution = "plan" /\ ex.pc \notin {"idle", "plan_check", "cleanup"}) =>
            PlanReadOnlyTool(ex.op.tool))'
    BY <2>1 DEF Plans
  <2>7. \A d \in Calls : ~Pending(d)'
    <3> SUFFICES ASSUME NEW d \in Calls PROVE ~Pending(d)' OBVIOUS
    <3>1. CASE d = c BY <2>1, <2>2, <3>1 DEF Pending
    <3>2. CASE d # c BY <2>1, <2>3, <3>2 DEF Plans, Pending
    <3> QED BY <3>1, <3>2
  <2>8. (/\ \A d \in Calls : (Pending(d) /\ inter[d].op.tool = "propose_plan") =>
                 execution = "plan" /\ d \in proposed
         /\ \A d, e \in Calls : Pending(d) /\ Pending(e) => d = e)'
    BY <2>7
  <2> QED BY <2>4, <2>5, <2>6, <2>8 DEF Plans
<1>13. CASE AdjustRun BY <1>13, PlansKept DEF AdjustRun, run
<1>14. CASE StopRun BY <1>14, PlansKept DEF StopRun
<1>15. CASE CompleteRun BY <1>15, PlansKept DEF CompleteRun
<1> QED BY <1>1, <1>2, <1>3, <1>4, <1>5, <1>6, <1>7, <1>8, <1>9, <1>10, <1>11, <1>12, <1>13,
           <1>14, <1>15
        DEF Next, UseTool, UserStep

\* Plan mode ends only by a plan that was put to the user, and approved, since the
\* run last went from execution into plan mode, and that no adjustment superseded.
THEOREM ApprovedPlans == Spec => []PlanApproved
<1>1. Plans => PlanApproved BY DEF Plans
<1> QED BY <1>1, TypeInit, TypeNext, PlansInit, PlansNext, PTL DEF Spec

\* Nothing that changes anything is executed in plan mode.
THEOREM ReadOnlyPlans == Spec => []PlanIsReadOnly
<1>1. Plans => PlanIsReadOnly BY DEF Plans, PlanIsReadOnly
<1> QED BY <1>1, TypeInit, TypeNext, PlansInit, PlansNext, PTL DEF Spec

\* What belongs to the submitter is confirmed by the submitter.
THEOREM OwnersConfirm == Spec => []OwnersOnly
<1>1. TypeOK /\ Consent /\ Plans => OwnersOnly BY ConsentImplies DEF Plans, OwnersOnly
<1> QED BY <1>1, TypeInit, TypeNext, ConsentInit, ConsentNext, PlansInit, PlansNext, PTL DEF Spec

-----------------------------------------------------------------------------
(***************************************************************************)
(* The consent ledger.  Row by row: asking, deciding, using and withdrawing *)
(* a row are the operations of the ledger, a change of the mode is a       *)
(* revision of its rules, and every other step leaves the ledger alone.    *)
(***************************************************************************)

LEMMA LedgerEntry ==
    ASSUME NEW r \in Row, NEW e
    PROVE  /\ r.status = "none" => LedgerRow(r, e) = Ledger!NoRequest
           /\ r.status \in Unanswered => LedgerRow(r, e) = Ledger!Asked
           /\ r.status = "approved" /\ ~r.consumed => LedgerRow(r, e) = Ledger!Given(e)
           /\ r.status = "approved" /\ r.consumed => LedgerRow(r, e) = Ledger!Spent
           /\ r.status \in {"rejected", "cancelled"} => LedgerRow(r, e) = Ledger!Refused
BY DEF LedgerRow, Unanswered, Ledger!NoRequest, Ledger!Asked, Ledger!Given, Ledger!Spent,
       Ledger!Refused

\* A step that writes one row writes one entry of the ledger.
LEMMA LedgerOne ==
    ASSUME TypeOK, NEW c \in Calls, NEW x, row' = [row EXCEPT ![c] = x],
           \A d \in Calls \ {c} : decided'[d] = decided[d]
    PROVE  LedgerRequest' = [LedgerRequest EXCEPT ![c] = LedgerRow(x, decided'[c])]
<1> DEFINE v == LedgerRow(x, decided'[c])
<1>1. \A d \in Calls : row'[d] = IF d = c THEN x ELSE row[d] BY DEF TypeOK
<1>2. ASSUME NEW d \in Calls
      PROVE  LedgerRow(row'[d], decided'[d]) = IF d = c THEN v ELSE LedgerRow(row[d], decided[d])
  BY <1>1
<1> HIDE DEF v
<1>3. LedgerRequest' = [d \in Calls |-> IF d = c THEN v ELSE LedgerRow(row[d], decided[d])]
  BY <1>2 DEF LedgerRequest
<1>4. [LedgerRequest EXCEPT ![c] = v] = [d \in Calls |-> IF d = c THEN v ELSE LedgerRow(row[d], decided[d])]
  BY DEF LedgerRequest
<1> QED BY <1>3, <1>4 DEF v

LEMMA LedgerStutters ==
    ASSUME UNCHANGED <<row, decided>>
    PROVE  LedgerRequest' = LedgerRequest
BY DEF LedgerRequest

\* Rewriting an entry by itself changes nothing.
LEMMA LedgerSame ==
    ASSUME NEW c \in Calls, NEW v, LedgerRequest[c] = v
    PROVE  [LedgerRequest EXCEPT ![c] = v] = LedgerRequest
BY DEF LedgerRequest

LedgerVars == <<status = "running", revision, LedgerRequest>>
LedgerStep == Ledger!Next \/ UNCHANGED LedgerVars

\* Withdrawing rows is a withdrawal of the ledger, also when the run ends.
LEMMA LedgerWithdraws ==
    ASSUME TypeOK, row' = WithdrawRows, UNCHANGED <<revision, decided>>,
           status' = status \/ status' = "stopped"
    PROVE  LedgerStep
<1> DEFINE S == {c \in Calls : row[c].status \in Unanswered}
<1>1. ASSUME NEW c \in Calls
      PROVE  LedgerRequest'[c] = IF c \in S THEN Ledger!Refused ELSE LedgerRequest[c]
  <2>1. row[c] \in Row /\ row'[c] = Withdrawn(row[c]) /\ LedgerRequest'[c] = LedgerRow(row'[c], decided[c])
    BY DEF WithdrawRows, LedgerRequest, TypeOK
  <2>2. CASE c \in S
    <3>1. row'[c] = Closed(row[c], "cancelled") BY <2>1, <2>2 DEF Withdrawn
    <3>2. row'[c] \in Row /\ row'[c].status = "cancelled"
      BY <2>1, <3>1, RowTypes DEF Closed, NoRow
    <3> QED BY <2>1, <2>2, <3>2, LedgerEntry
  <2>3. CASE c \notin S BY <2>1, <2>3 DEF Withdrawn, LedgerRequest
  <2> QED BY <2>2, <2>3
<1>2. \A c \in S : LedgerRequest[c] = Ledger!Asked BY LedgerEntry DEF LedgerRequest, TypeOK
<1>3. LedgerRequest' = [c \in Calls |-> IF c \in S THEN Ledger!Refused ELSE LedgerRequest[c]]
  BY <1>1 DEF LedgerRequest
<1>4. (status' = "running") \in {status = "running", FALSE} BY DEF TypeOK
<1> HIDE DEF S
<1>5. Ledger!Withdraw(S) BY <1>2, <1>3, <1>4 DEF Ledger!Withdraw
<1>6. S \in SUBSET Calls BY DEF S
<1> QED BY <1>5, <1>6 DEF LedgerStep, Ledger!Next

\* The end of a run that leaves the rows alone.
LEMMA LedgerEnds ==
    ASSUME TypeOK, UNCHANGED <<row, decided, revision>>, status' \in {status, "stopped"}
    PROVE  LedgerStep
<1>1. LedgerRequest' = LedgerRequest BY LedgerStutters
<1>2. (status' = "running") \in {status = "running", FALSE} BY DEF TypeOK
<1> DEFINE none == {}
<1>3. LedgerRequest' = [c \in Calls |-> IF c \in none THEN Ledger!Refused ELSE LedgerRequest[c]]
  BY <1>1 DEF LedgerRequest
<1>4. \A c \in none : LedgerRequest[c] = Ledger!Asked OBVIOUS
<1>5. none \in SUBSET Calls OBVIOUS
<1> HIDE DEF none
<1>6. Ledger!Withdraw(none) BY <1>2, <1>3, <1>4 DEF Ledger!Withdraw
<1> QED BY <1>5, <1>6 DEF LedgerStep, Ledger!Next

\* A change of the mode is a revision of the rules.  One row, that of the card
\* answered "full", may be approved by its answer instead of by the mode.
LEMMA LedgerRevises ==
    ASSUME TypeOK, Consent, NEW m \in Modes, SetMode(m), status = "running", status' = status,
           \A c \in Calls : \/ row'[c] = RowsUnder(m)[c]
                            \/ \E u \in Members : /\ Unused(row[c])
                                                 /\ row'[c] = Approved(RowsUnder(m)[c], u, "full")
    PROVE  Ledger!Revise
<1>1. revision' = revision + 1 /\ RowsUnder(m) \in [Calls -> Row] BY SetModeType DEF SetMode
<1>2. ASSUME NEW c \in Calls
      PROVE  IF Ledger!Open(c)
             THEN LedgerRequest'[c] \in {Ledger!Asked, Ledger!Given(revision')}
             ELSE LedgerRequest'[c] = LedgerRequest[c]
  <2> DEFINE w == RowsUnder(m)[c]
  <2>1. /\ row[c] \in Row /\ w \in Row /\ RowOK(row[c], mode, revision, decided[c], uses[c])
        /\ LedgerRequest[c] = LedgerRow(row[c], decided[c])
        /\ LedgerRequest'[c] = LedgerRow(row'[c], decided'[c])
    BY <1>1 DEF TypeOK, Consent, LedgerRequest
  <2>2. Ledger!Open(c) <=> Unused(row[c])
    <3>1. row[c].status \in {"none", "pending", "reviewing", "approved", "rejected", "cancelled"}
      BY <2>1 DEF Row
    <3> QED BY <2>1, <3>1, LedgerEntry
            DEF Ledger!Open, Ledger!NoRequest, Ledger!Asked, Ledger!Given, Ledger!Spent,
                Ledger!Refused, Unused, Unanswered
  <2>3. CASE ~Unused(row[c])
    <3>1. row'[c] = row[c] /\ decided'[c] = decided[c] BY <2>3 DEF RowsUnder, SetMode
    <3> QED BY <2>1, <2>2, <2>3, <3>1
  <2>4. CASE Unused(row[c])
    <3>1. decided'[c] = revision' /\ w = Rewritten(row[c], m, revision')
      BY <1>1, <2>4 DEF SetMode, RowsUnder
    <3>2. w.status \in Unanswered \cup {"approved"} /\ w.consumed = row[c].consumed
      BY <2>1, <3>1 DEF Rewritten, Unanswered, Row
    <3>3. ~row[c].consumed BY <2>1, <2>4 DEF RowOK, Unused, Unanswered
    <3> HIDE DEF w
    <3>4. CASE row'[c] = w
      BY <2>1, <2>2, <2>4, <3>1, <3>2, <3>3, <3>4, LedgerEntry
    <3>5. ASSUME NEW u \in Members, row'[c] = Approved(w, u, "full")
          PROVE  LedgerRequest'[c] = Ledger!Given(revision')
      <4>1. row'[c] \in Row BY <2>1, <3>5, RowTypes
      <4>2. row'[c].status = "approved" /\ ~row'[c].consumed
        BY <2>1, <3>2, <3>3, <3>5 DEF Approved, Row
      <4> QED BY <2>1, <3>1, <4>1, <4>2, LedgerEntry
    <3> QED BY <2>2, <2>4, <3>4, <3>5 DEF w
  <2> QED BY <2>3, <2>4
<1>3. DOMAIN LedgerRequest' = Calls BY DEF LedgerRequest
<1>4. (status = "running") /\ (status' = "running") = (status = "running") OBVIOUS
<1> QED BY <1>1, <1>2, <1>3, <1>4 DEF Ledger!Revise

LEMMA LedgerInit == Init => Ledger!Init
<1> SUFFICES ASSUME Init PROVE Ledger!Init OBVIOUS
<1>1. NoRow \in Row BY Constants DEF NoRow, Row
<1>2. LedgerRow(NoRow, 0) = Ledger!NoRequest BY <1>1, LedgerEntry DEF NoRow
<1>3. LedgerRequest = [c \in Calls |-> Ledger!NoRequest] BY <1>2 DEF Init, LedgerRequest
<1>4. (status = "running") = TRUE /\ revision = 0 BY DEF Init
<1> QED BY <1>3, <1>4 DEF Ledger!Init

LEMMA LedgerNext == TypeOK /\ Consent /\ [Next]_vars => LedgerStep
<1> SUFFICES ASSUME TypeOK, Consent, [Next]_vars PROVE LedgerStep OBVIOUS
<1>k. ASSUME NEW c \in Calls
      PROVE  /\ row[c] \in Row /\ RowOK(row[c], mode, revision, decided[c], uses[c])
             /\ LedgerRequest[c] = LedgerRow(row[c], decided[c])
  BY DEF TypeOK, Consent, LedgerRequest
<1>e. ex.pc # "idle" => ex.call \in Calls BY DEF TypeOK
<1>s. ASSUME UNCHANGED <<status, revision, row, decided>> PROVE LedgerStep
  BY <1>s, LedgerStutters DEF LedgerStep, LedgerVars
<1>o. ASSUME NEW c \in Calls, NEW x \in Row, row' = [row EXCEPT ![c] = x],
             decided' = decided, UNCHANGED <<status, revision>>,
             LedgerRow(x, decided[c]) = LedgerRequest[c]
      PROVE  LedgerStep
  <2>1. LedgerRequest' = [LedgerRequest EXCEPT ![c] = LedgerRow(x, decided[c])] BY <1>o, LedgerOne
  <2>2. LedgerRequest' = LedgerRequest BY <1>o, <2>1, LedgerSame
  <2> QED BY <1>o, <2>2 DEF LedgerStep, LedgerVars
<1>d. ASSUME NEW c \in Calls, NEW x \in Row, row' = [row EXCEPT ![c] = x],
             UNCHANGED <<status, revision>>, status = "running", row[c].status \in Unanswered,
             \A d \in Calls \ {c} : decided'[d] = decided[d],
             LedgerRow(x, decided'[c]) \in {Ledger!Given(revision), Ledger!Refused}
      PROVE  LedgerStep
  <2>1. LedgerRequest[c] = Ledger!Asked BY <1>d, <1>k, LedgerEntry
  <2>2. LedgerRequest' = [LedgerRequest EXCEPT ![c] = LedgerRow(x, decided'[c])]
    BY <1>d, LedgerOne
  <2>3. Ledger!Decide(c, LedgerRow(x, decided'[c])) BY <1>d, <2>1, <2>2 DEF Ledger!Decide
  <2> QED BY <1>d, <2>3 DEF LedgerStep, Ledger!Next
<1>1. CASE UNCHANGED vars BY <1>1, <1>s DEF vars, run
<1>2. CASE Authorize
  <2>1. CASE PlanCheck \/ Recheck \/ ReadMode \/ AskNothing \/ Poll
    BY <2>1, <1>s DEF PlanCheck, Recheck, ReadMode, AskNothing, Poll, run
  <2>2. CASE AskPermission
    <3> DEFINE asked == [NoRow EXCEPT !.op = ex.op, !.revision = revision, !.source = "user",
                          !.status = IF mode = "auto" /\ ex.op.tool = "bash"
                                     THEN "reviewing" ELSE "pending"]
               c == ex.call
    <3>1. c \in Calls /\ row[c] = NoRow /\ status = "running" BY <2>2, <1>e DEF AskPermission
    <3>2. row' = [row EXCEPT ![c] = asked] /\ UNCHANGED <<status, revision, decided>>
      BY <2>2 DEF AskPermission, run
    <3>3. asked \in Row
      <4>1. row'[c] = asked BY <3>1, <3>2 DEF TypeOK
      <4>2. row' \in [Calls -> Row] BY <1>2, TypeAuthorize DEF TypeOK
      <4> QED BY <3>1, <4>1, <4>2
    <3>4. asked.status \in Unanswered BY DEF NoRow, Unanswered
    <3>5. NoRow.status = "none" BY DEF NoRow
    <3> HIDE DEF asked
    <3>6. LedgerRequest[c] = Ledger!NoRequest BY <1>k, <3>1, <3>5, LedgerEntry
    <3>7. LedgerRequest' = [LedgerRequest EXCEPT ![c] = Ledger!Asked]
      <4>1. LedgerRow(asked, decided'[c]) = Ledger!Asked BY <3>3, <3>4, LedgerEntry
      <4>2. LedgerRequest' = [LedgerRequest EXCEPT ![c] = LedgerRow(asked, decided'[c])]
        BY <3>1, <3>2, LedgerOne
      <4> QED BY <4>1, <4>2
    <3>8. Ledger!Ask(c) BY <3>1, <3>2, <3>6, <3>7 DEF Ledger!Ask
    <3> QED BY <3>1, <3>8 DEF LedgerStep, Ledger!Next
  <2>3. CASE ConsumePermission
    <3> DEFINE c == ex.call
               used == [row[c] EXCEPT !.consumed = TRUE]
    <3>1. c \in Calls BY <2>3, <1>e DEF ConsumePermission
    <3>2. CASE UNCHANGED <<row, decided>> BY <2>3, <3>2, <1>s DEF ConsumePermission, run
    <3>3. CASE ~UNCHANGED <<row, decided>>
      <4>1. /\ status = "running" /\ row[c].status = "approved" /\ ~row[c].consumed
            /\ row' = [row EXCEPT ![c] = used] /\ decided' = [decided EXCEPT ![c] = 0]
            /\ UNCHANGED <<status, revision>>
        BY <2>3, <3>3 DEF ConsumePermission, Consumable, run
      <4>2. LedgerRequest[c] = Ledger!Given(revision)
        BY <1>k, <3>1, <4>1, LedgerEntry DEF RowOK
      <4>3. used \in Row /\ used.status = "approved" /\ used.consumed = TRUE
        <5>1. row[c] \in Row /\ revision \in 0..MaxRevision BY <3>1, <1>k DEF TypeOK
        <5>2. used \in Row BY <5>1, RowUpdates
        <5> QED BY <4>1, <5>1, <5>2 DEF Row
      <4>4. \A d \in Calls \ {c} : decided'[d] = decided[d] BY <4>1 DEF TypeOK
      <4> HIDE DEF used
      <4>5. LedgerRow(used, decided'[c]) = Ledger!Spent BY <4>3, LedgerEntry
      <4>6. LedgerRequest' = [LedgerRequest EXCEPT ![c] = Ledger!Spent]
        BY <3>1, <4>1, <4>4, <4>5, LedgerOne
      <4>7. Ledger!Spend(c) BY <4>1, <4>2, <4>6 DEF Ledger!Spend
      <4> QED BY <3>1, <4>7 DEF LedgerStep, Ledger!Next
    <3> QED BY <3>2, <3>3
  <2>4. CASE ClaimPermissionReview
    <3> DEFINE c == ex.call
               claimed == [row[c] EXCEPT !.status = "reviewing", !.token = revision]
    <3>1. c \in Calls BY <2>4, <1>e DEF ClaimPermissionReview
    <3>2. CASE UNCHANGED row BY <2>4, <3>2, <1>s DEF ClaimPermissionReview, run
    <3>3. CASE row' # row
      <4>1. /\ row[c].status \in Unanswered /\ row' = [row EXCEPT ![c] = claimed]
            /\ UNCHANGED <<status, revision, decided>>
        BY <2>4, <3>1, <3>3 DEF ClaimPermissionReview, run, TypeOK
      <4>2. row[c] \in Row /\ revision \in 0..MaxRevision BY <3>1, <1>k DEF TypeOK
      <4>3. claimed \in Row BY <4>2, RowUpdates
      <4>4. claimed.status \in Unanswered BY <4>2 DEF Row, Unanswered
      <4> HIDE DEF claimed
      <4>5. LedgerRow(claimed, decided[c]) = LedgerRequest[c]
        BY <1>k, <3>1, <4>1, <4>2, <4>3, <4>4, LedgerEntry
      <4> QED BY <1>o, <3>1, <4>1, <4>3, <4>5
    <3> QED BY <3>2, <3>3
  <2>5. ASSUME NEW v \in {"allow", "deny", "ask_user"}, ReviewPermission(v) PROVE LedgerStep
    <3> DEFINE c == ex.call
               allowed == [row[c] EXCEPT !.status = "approved", !.decision = "once", !.source = "llm",
                                         !.reviewed = TRUE, !.token = -1]
               put == [row[c] EXCEPT !.status = "pending", !.source = "llm", !.reviewed = TRUE, !.token = -1]
    <3>1. c \in Calls BY <2>5, <1>e DEF ReviewPermission
    <3>2. CASE ~ReviewCurrent(row[c]) BY <2>5, <3>2, <1>s DEF ReviewPermission, run
    <3>3. CASE ReviewCurrent(row[c])
      <4>1. /\ row[c].status \in Unanswered /\ status = "running" /\ UNCHANGED <<status, revision>>
        BY <2>5, <3>3 DEF ReviewCurrent, Unanswered, ReviewPermission, run
      <4>2. row[c] \in Row /\ revision \in 0..MaxRevision /\ ~row[c].consumed
        BY <3>1, <1>k, <4>1 DEF TypeOK, RowOK, Unanswered
      <4>3. allowed \in Row /\ put \in Row /\ Closed(row[c], "rejected") \in Row
        BY <4>2, RowUpdates, RowTypes
      <4>4. CASE v = "allow"
        <5>1. row' = [row EXCEPT ![c] = allowed] /\ decided' = [decided EXCEPT ![c] = revision]
          BY <2>5, <3>3, <4>4 DEF ReviewPermission
        <5>2. decided'[c] = revision /\ \A d \in Calls \ {c} : decided'[d] = decided[d]
          BY <3>1, <5>1 DEF TypeOK
        <5>3. allowed.status = "approved" /\ allowed.consumed = row[c].consumed BY <4>2 DEF Row
        <5> HIDE DEF allowed
        <5>4. LedgerRow(allowed, decided'[c]) = Ledger!Given(revision)
          BY <4>2, <4>3, <5>2, <5>3, LedgerEntry
        <5> QED BY <1>d, <3>1, <4>1, <4>3, <5>1, <5>2, <5>4
      <4>5. CASE v = "deny"
        <5>1. row' = [row EXCEPT ![c] = Closed(row[c], "rejected")] /\ decided' = decided
          BY <2>5, <3>3, <4>5 DEF ReviewPermission
        <5>2. Closed(row[c], "rejected").status = "rejected" BY DEF Closed, NoRow
        <5>3. LedgerRow(Closed(row[c], "rejected"), decided'[c]) = Ledger!Refused
          BY <4>3, <5>2, LedgerEntry
        <5> QED BY <1>d, <3>1, <4>1, <4>3, <5>1, <5>3
      <4>6. CASE v = "ask_user"
        <5>1. row' = [row EXCEPT ![c] = put] /\ decided' = decided
          BY <2>5, <3>3, <4>6 DEF ReviewPermission
        <5>2. put.status \in Unanswered BY <4>2 DEF Row, Unanswered
        <5> HIDE DEF put
        <5>3. LedgerRow(put, decided[c]) = LedgerRequest[c]
          BY <1>k, <3>1, <4>1, <4>2, <4>3, <5>2, LedgerEntry
        <5> QED BY <1>o, <3>1, <4>1, <4>3, <5>1, <5>3
      <4> QED BY <4>4, <4>5, <4>6
    <3> QED BY <3>2, <3>3
  <2>6. CASE Cleanup
    <3> DEFINE c == ex.call
    <3>1. /\ c \in Calls /\ row' = [row EXCEPT ![c] = Withdrawn(row[c])]
          /\ UNCHANGED <<status, revision, decided>>
      BY <2>6, <1>e DEF Cleanup, run
    <3>2. CASE row[c].status \notin Unanswered
      <4>1. Withdrawn(row[c]) = row[c] BY <3>2 DEF Withdrawn
      <4> QED BY <1>k, <1>o, <3>1, <4>1
    <3>3. CASE row[c].status \in Unanswered
      <4> DEFINE S == {c}
      <4>1. Withdrawn(row[c]) = Closed(row[c], "cancelled") BY <3>3 DEF Withdrawn
      <4>2. Closed(row[c], "cancelled") \in Row BY <1>k, <3>1, RowTypes
      <4>3. Closed(row[c], "cancelled").status = "cancelled" BY DEF Closed, NoRow
      <4>4. LedgerRow(Withdrawn(row[c]), decided'[c]) = Ledger!Refused
        BY <4>1, <4>2, <4>3, LedgerEntry
      <4>5. LedgerRequest' = [LedgerRequest EXCEPT ![c] = Ledger!Refused]
        BY <3>1, <4>4, LedgerOne
      <4>6. LedgerRequest' = [d \in Calls |-> IF d \in S THEN Ledger!Refused ELSE LedgerRequest[d]]
        BY <4>5 DEF LedgerRequest
      <4>7. \A d \in S : LedgerRequest[d] = Ledger!Asked BY <1>k, <3>1, <3>3, LedgerEntry
      <4>8. S \in SUBSET Calls BY <3>1
      <4> HIDE DEF S
      <4>9. (status' = "running") \in {status = "running", FALSE} BY <3>1
      <4>10. Ledger!Withdraw(S) BY <3>1, <4>6, <4>7, <4>9 DEF Ledger!Withdraw
      <4> QED BY <4>8, <4>10 DEF LedgerStep, Ledger!Next
    <3> QED BY <3>2, <3>3
  <2> QED BY <1>2, <2>1, <2>2, <2>3, <2>4, <2>5, <2>6 DEF Authorize
<1>3. CASE UseTool \/ StepFails \/ CleanupLost \/ \E c \in Calls : \E op \in Requests[c] : IssueCall(c, op)
  BY <1>3, <1>s
     DEF UseTool, RunTool, EnterPlanMode, CreateRunInteraction, WaitRunInteraction,
         StepFails, CleanupLost, IssueCall, run
<1>4. ASSUME NEW m \in Modes, ChangeRunPermissionMode(m) PROVE LedgerStep
  BY <1>4, LedgerRevises DEF ChangeRunPermissionMode, LedgerStep, Ledger!Next
<1>5. ASSUME NEW c \in Calls, NEW u \in Members, NEW d \in {"once", "run", "reject", "full"},
             RespondPermission(c, u, d)
      PROVE  LedgerStep
  <2>1. /\ row[c].status = "pending" /\ row[c].status \in Unanswered
        /\ status = "running" /\ status' = status
    BY <1>5 DEF RespondPermission, Unanswered
  <2>2. ~row[c].consumed BY <1>k, <2>1 DEF RowOK
  <2>3. CASE d = "reject"
    <3>1. row' = [row EXCEPT ![c] = Closed(row[c], "rejected")] /\ UNCHANGED <<revision, decided>>
      BY <1>5, <2>3 DEF RespondPermission
    <3>2. Closed(row[c], "rejected") \in Row BY <1>k, RowTypes
    <3>3. Closed(row[c], "rejected").status = "rejected" BY DEF Closed, NoRow
    <3>4. LedgerRow(Closed(row[c], "rejected"), decided'[c]) = Ledger!Refused
      BY <3>2, <3>3, LedgerEntry
    <3> QED BY <1>d, <2>1, <3>1, <3>2, <3>4
  <2>4. CASE d \in {"once", "run"}
    <3> DEFINE x == Approved(row[c], u, d)
    <3>1. /\ row' = [row EXCEPT ![c] = x] /\ decided' = [decided EXCEPT ![c] = revision]
          /\ revision' = revision
      BY <1>5, <2>4 DEF RespondPermission
    <3>2. decided'[c] = revision /\ \A e \in Calls \ {c} : decided'[e] = decided[e]
      BY <3>1 DEF TypeOK
    <3>3. x \in Row BY <1>k, <2>4, RowTypes
    <3>4. x.status = "approved" /\ x.consumed = row[c].consumed BY <1>k DEF Approved, Row
    <3> HIDE DEF x
    <3>5. LedgerRow(x, decided'[c]) = Ledger!Given(revision)
      BY <2>2, <3>2, <3>3, <3>4, LedgerEntry
    <3> QED BY <1>d, <2>1, <3>1, <3>2, <3>3, <3>5
  <2>5. CASE d = "full"
    <3>1. /\ SetMode("full") /\ "full" \in Modes
          /\ row' = [RowsUnder("full") EXCEPT ![c] = Approved(RowsUnder("full")[c], u, "full")]
      BY <1>5, <2>5 DEF RespondPermission, Modes
    <3>2. Unused(row[c]) BY <2>1 DEF Unused
    <3>3. \A e \in Calls : \/ row'[e] = RowsUnder("full")[e]
                           \/ \E w \in Members : /\ Unused(row[e])
                                                /\ row'[e] = Approved(RowsUnder("full")[e], w, "full")
      BY <3>1, <3>2 DEF RowsUnder
    <3> QED BY <2>1, <3>1, <3>3, LedgerRevises DEF LedgerStep, Ledger!Next
  <2> QED BY <2>3, <2>4, <2>5
<1>6. ASSUME NEW c \in Calls, NEW u \in Members, NEW v \in {"answered", "approved", "rejected"},
             RespondRunInteraction(c, u, v)
      PROVE  LedgerStep
  BY <1>6, <1>s DEF RespondRunInteraction
<1>7. CASE AdjustRun BY <1>7, LedgerWithdraws DEF AdjustRun, run
<1>8. CASE StopRun BY <1>8, LedgerWithdraws DEF StopRun
<1>9. CASE CompleteRun BY <1>9, LedgerEnds DEF CompleteRun
<1> QED BY <1>1, <1>2, <1>3, <1>4, <1>5, <1>6, <1>7, <1>8, <1>9 DEF Next, UserStep

\* The consent rows of a run implement the consent ledger.
THEOREM KeepsLedger == Spec => ImplementsLedger
<1>1. TypeOK /\ Consent /\ [Next]_vars => [Ledger!Next]_LedgerVars
  BY LedgerNext DEF LedgerStep
<1> QED BY <1>1, LedgerInit, TypeInit, TypeNext, ConsentInit, ConsentNext, PTL
        DEF Spec, ImplementsLedger, Ledger!Spec, LedgerVars
=============================================================================
