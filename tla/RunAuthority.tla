---------------------------- MODULE RunAuthority ----------------------------
(***************************************************************************)
(* What the tools of ONE run may do: the permission mode and its revision, *)
(* the consent rows of tool calls, the automatic reviewer of commands,     *)
(* plan mode, and the questions, plans and schedules put to the user.      *)
(*                                                                         *)
(* The executor authorizes one tool call at a time, in several             *)
(* transactions and unlocked reads, polling while it waits.  Meanwhile     *)
(* members of the workspace answer, change the mode, adjust the task or    *)
(* stop the run, each in one transaction under the conversation row lock.  *)
(*                                                                         *)
(* Source: backend/internal/conversation (permissions.go,                  *)
(* permission_modes.go, permission_reviews.go, interactions.go).           *)
(***************************************************************************)
EXTENDS Integers

CONSTANTS
    Calls,          \* tool-call ids; a provider may use one again in a run
    Requests,       \* per call id, what it may ask for: a tool, and whether its target
                    \* is sensitive
    Members,        \* users who may answer
    Submitter,      \* the member who submitted the run
    Nobody,         \* no user
    NoCall,         \* no tool call
    MaxRevision     \* bound: changes of the permission mode

Modes == {"standard", "auto", "full"}
Tools == {"bash", "read", "read_tool_result", "write", "edit", "github_checkout",
          "github_publish", "enter_plan_mode", "propose_plan", "ask_user_question",
          "propose_schedule"}

ASSUME AuthorityConstants ==
    /\ MaxRevision \in Nat
    /\ Requests \in [Calls -> SUBSET [tool : Tools, sensitive : BOOLEAN]]
    /\ Submitter \in Members
    /\ Nobody \notin Members
    /\ NoCall \notin Calls

Operations == UNION {Requests[c] : c \in Calls}

VARIABLES
    \* ---- runs
    status,         \* "running" or "stopped": cancelling and ended runs are refused alike
    mode,           \* permission_mode
    revision,       \* permission_revision
    execution,      \* execution_mode
    approvedPlan,   \* the call whose plan approved_plan_digest names
    \* ---- run_permissions and run_interactions, by tool call
    row,
    inter,
    \* ---- the executor of the run
    ex,
    entered,        \* calls that entered plan mode (run_events); NoCall: the submission did
    \* ---- history: the revision under which an approval was decided, how often
    \* ---- a receipt was used, and whether a cleanup was lost
    decided, uses, lost,
    \* ---- history: the plans put to the user since execution last gave way to
    \* ---- plan mode, but those an adjustment of the task met unanswered
    proposed

run  == <<status, mode, revision, execution, approvedPlan>>
vars == <<run, row, inter, ex, decided, entered, uses, lost, proposed>>

-----------------------------------------------------------------------------
NoOp  == [tool |-> "none", sensitive |-> FALSE]
NoRow == [op |-> NoOp, status |-> "none", decision |-> "none", source |-> "none",
          by |-> Nobody, revision |-> 0, token |-> -1, reviewed |-> FALSE, consumed |-> FALSE]
NoInter == [op |-> NoOp, status |-> "none", by |-> Nobody]
Resting == [pc |-> "idle", call |-> NoCall, op |-> NoOp, claim |-> -1]

Unanswered == {"pending", "reviewing"}

\* PlanReadOnlyTool: what plan mode leaves open.
PlanReadOnlyTool(tool) ==
    tool \in {"read", "read_tool_result", "propose_plan", "ask_user_question"}

\* needsPermission, its first result.  read_tool_result is in the default case:
\* the list of free tools names it "tool_result".
NeedsPermission(m, op) ==
    \/ op.tool = "github_publish"
    \/ /\ m # "full"
       /\ \/ op.sensitive
          \/ op.tool \in {"bash", "read_tool_result"}
          \/ op.tool \in {"write", "edit", "github_checkout"} /\ m # "auto"

\* needsPermission, its second result: consent may be given for the whole run.
AllowRun(op) == op.tool \in {"write", "edit"} /\ ~op.sensitive

\* A decision "run" about writes and edits of this revision covers this one.
Granted(op) ==
    /\ AllowRun(op)
    /\ \E c \in Calls :
        /\ AllowRun(row[c].op)
        /\ row[c].status = "approved" /\ row[c].decision = "run"
        /\ row[c].revision = revision

\* Mutant of Closed: the outcome is one the table does not know.
Closed_Unknown(r, outcome) == [NoRow EXCEPT !.op = r.op, !.status = "superseded"]

\* A row that will never be used: of its columns only the digest is read again.
Closed(r, outcome) == [NoRow EXCEPT !.op = r.op, !.status = outcome]

\* "UPDATE run_permissions SET status='cancelled',review_token=NULL" for open rows.
Withdrawn(r) == IF r.status \in Unanswered THEN Closed(r, "cancelled") ELSE r
WithdrawRows == [c \in Calls |-> Withdrawn(row[c])]

\* Mutant of WithdrawInteractions: a plan stays open to approval when its task was adjusted.
WithdrawInteractions_PlansStay ==
    [c \in Calls |-> IF inter[c].status = "pending" /\ inter[c].op.tool # "propose_plan"
                     THEN [inter[c] EXCEPT !.status = "cancelled"] ELSE inter[c]]

WithdrawInteractions ==
    [c \in Calls |-> IF inter[c].status = "pending"
                     THEN [inter[c] EXCEPT !.status = "cancelled"] ELSE inter[c]]

-----------------------------------------------------------------------------
(***************************************************************************)
(* The permission mode.                                                    *)
(***************************************************************************)

\* Mutant of Unused: a receipt that was not used survives a change of mode.
Unused_OpenOnly(r) == r.status \in Unanswered

\* The rows a change of mode decides again.
Unused(r) == r.status \in Unanswered \/ (r.status = "approved" /\ ~r.consumed)

\* What the new mode approves by itself.
DecidedByMode(m, op) ==
    /\ op.tool # "github_publish"
    /\ m = "full" \/ (m = "auto" /\ op.tool \in {"write", "edit"} /\ AllowRun(op))

\* Mutant of Rewritten: a review in progress goes on under the new mode.
Rewritten_KeepsReview(r, m, rev) ==
    [r EXCEPT !.status = IF DecidedByMode(m, r.op) THEN "approved" ELSE r.status,
              !.source = "mode", !.by = Nobody, !.revision = rev]

Rewritten(r, m, rev) ==
    [r EXCEPT !.status = IF DecidedByMode(m, r.op) THEN "approved"
                         ELSE IF m = "auto" /\ r.op.tool = "bash" THEN "reviewing"
                         ELSE "pending",
              !.decision = IF ~DecidedByMode(m, r.op) THEN "none"
                           ELSE IF m = "auto" THEN "once" ELSE "full",
              !.source = "mode", !.by = Nobody, !.revision = rev, !.token = -1, !.reviewed = FALSE]

\* setRunPermissionModeTx: every row not used yet is decided again.
RowsUnder(m) ==
    [c \in Calls |-> IF Unused(row[c]) THEN Rewritten(row[c], m, revision + 1) ELSE row[c]]

SetMode(m) ==
    /\ revision < MaxRevision
    /\ mode' = m
    /\ revision' = revision + 1
    /\ decided' = [c \in Calls |-> IF Unused(row[c]) THEN revision' ELSE decided[c]]

-----------------------------------------------------------------------------
(***************************************************************************)
(* The executor: one tool call at a time.                                  *)
(***************************************************************************)

\* The call goes on, or its result is appended and the executor turns to the
\* next one.
Go(pc) == ex' = IF pc = "done" THEN Resting ELSE [ex EXCEPT !.pc = pc]

\* The next call of the batch.  A call id may come back, with the same
\* arguments or with others.
IssueCall(c, op) ==
    /\ ex.pc = "idle"
    /\ ex' = [pc |-> "plan_check", call |-> c, op |-> op, claim |-> -1]
    /\ UNCHANGED <<run, row, inter, decided, entered, proposed, uses, lost>>

\* Mutant of PlanAllows: an approval is enough to change things in plan mode.
PlanAllows_Anything(op) == status = "running"

\* authorizeRunTool: an unlocked read of the run.
PlanAllows(op) ==
    /\ status = "running"
    /\ execution = "plan" => PlanReadOnlyTool(op.tool)

\* authorizeRunTool, before anything else.
PlanCheck ==
    /\ ex.pc = "plan_check"
    /\ Go(IF PlanAllows(ex.op) THEN "read_mode" ELSE "done")
    /\ UNCHANGED <<run, row, inter, decided, entered, proposed, uses, lost>>

\* authorizeRunTool again, before a receipt is used.
Recheck ==
    /\ ex.pc = "recheck"
    /\ Go(IF PlanAllows(ex.op) THEN "consume" ELSE "cleanup")
    /\ UNCHANGED <<run, row, inter, decided, entered, proposed, uses, lost>>

\* authorizePermission, the unlocked read that lets most tools through.
ReadMode ==
    /\ ex.pc = "read_mode"
    /\ Go(IF status # "running" THEN "done"
          ELSE IF NeedsPermission(mode, ex.op) THEN "ask" ELSE "start")
    /\ UNCHANGED <<run, row, inter, decided, entered, proposed, uses, lost>>

\* authorizePermission, its transaction, when it inserts no row: the run has
\* ended, the mode no longer asks, a grant covers the call, or its id has a row.
AskNothing ==
    /\ ex.pc = "ask"
    /\ \/ status # "running" /\ Go("done")
       \/ /\ status = "running"
          /\ ~NeedsPermission(mode, ex.op) \/ Granted(ex.op)
          /\ Go("start")
       \/ /\ status = "running" /\ NeedsPermission(mode, ex.op) /\ ~Granted(ex.op)
          /\ row[ex.call] # NoRow
          /\ Go(IF row[ex.call].op = ex.op THEN "poll" ELSE "done")
    /\ UNCHANGED <<run, row, inter, decided, entered, proposed, uses, lost>>

\* authorizePermission, its transaction, when it asks.
AskPermission ==
    /\ ex.pc = "ask" /\ status = "running"
    /\ NeedsPermission(mode, ex.op) /\ ~Granted(ex.op)
    /\ row[ex.call] = NoRow
    /\ row' = [row EXCEPT ![ex.call] =
            [NoRow EXCEPT !.op = ex.op, !.revision = revision, !.source = "user",
                          !.status = IF mode = "auto" /\ ex.op.tool = "bash"
                                     THEN "reviewing" ELSE "pending"]]
    /\ Go("poll")
    /\ UNCHANGED <<run, inter, decided, entered, proposed, uses, lost>>

\* Mutant of Reviewable: a command that came under review later is not reviewed.
Reviewable_WhenAsked(r) == mode = "auto" /\ r.status = "pending" /\ ~r.reviewed

\* A command that the reviewer has not seen under the present mode.
Reviewable(r) == mode = "auto" /\ r.status \in Unanswered /\ ~r.reviewed

\* One poll of the row and the run.  A row that waits leaves the executor where
\* it is, unless a command is to be reviewed.
Poll ==
    LET r == row[ex.call] IN
    /\ ex.pc = "poll"
    /\ \/ status # "running" /\ Go("cleanup")
       \/ status = "running" /\ r.status = "approved" /\ Go("recheck")
       \/ status = "running" /\ r.status \in {"rejected", "cancelled"} /\ Go("cleanup")
       \/ status = "running" /\ ex.op.tool = "bash" /\ Reviewable(r) /\ Go("claim")
    /\ UNCHANGED <<run, row, inter, decided, entered, proposed, uses, lost>>

\* Mutant of Consumable: the receipt is not checked for an earlier use.
Consumable_Again(r) == TRUE

\* The row has not been used; a call id that came back meets a used one.
Consumable(r) == ~r.consumed

\* consumePermission.
ConsumePermission ==
    LET r == row[ex.call] IN
    /\ ex.pc = "consume"
    /\ \/ /\ status = "running" /\ r.revision = revision /\ r.status = "approved"
          /\ r.op.tool = "github_publish" => r.source = "user" /\ r.decision = "once"
          /\ Consumable(r)
          /\ execution = "plan" => PlanReadOnlyTool(r.op.tool)
          /\ row' = [row EXCEPT ![ex.call].consumed = TRUE]
          /\ decided' = [decided EXCEPT ![ex.call] = 0]
          /\ uses' = [uses EXCEPT ![ex.call] = @ + 1]
          /\ Go("start")
       \/ /\ status = "running" /\ r.revision = revision /\ r.status # "approved"
          /\ Go("poll")
          /\ UNCHANGED <<row, decided, uses>>
       \/ /\ \/ status # "running" \/ r.revision # revision
             \/ /\ r.status = "approved"
                /\ \/ r.op.tool = "github_publish" /\ (r.source # "user" \/ r.decision # "once")
                   \/ ~Consumable(r)
                   \/ execution = "plan" /\ ~PlanReadOnlyTool(r.op.tool)
          /\ Go("cleanup")
          /\ UNCHANGED <<row, decided, uses>>
    /\ UNCHANGED <<run, inter, entered, proposed, lost>>

\* claimPermissionReview.  A token is drawn at most once per row and revision,
\* so it is named by the revision.
ClaimPermissionReview ==
    LET r == row[ex.call] IN
    /\ ex.pc = "claim"
    /\ IF /\ mode = "auto" /\ status = "running" /\ r.op.tool = "bash"
          /\ r.revision = revision /\ ~r.reviewed /\ r.token = -1
          /\ r.status \in Unanswered
       THEN /\ row' = [row EXCEPT ![ex.call].status = "reviewing",
                                  ![ex.call].token = revision]
            /\ ex' = [ex EXCEPT !.pc = "review", !.claim = revision]
       ELSE Go("poll") /\ UNCHANGED row
    /\ UNCHANGED <<run, inter, decided, entered, proposed, uses, lost>>

\* Mutant of ReviewCurrent: the verdict is not checked against the row.
ReviewCurrent_Unchecked(r) == mode = "auto" /\ status = "running" /\ revision = ex.claim

\* The review that was claimed is still the one the run waits for.
ReviewCurrent(r) ==
    /\ mode = "auto" /\ status = "running" /\ revision = ex.claim
    /\ r.status = "reviewing" /\ r.token = ex.claim /\ r.revision = ex.claim

\* reviewPermission, its last transaction.  The model was asked outside of any;
\* an invalid, late or failed answer of it is "ask_user".
ReviewPermission(verdict) ==
    LET r == row[ex.call] IN
    /\ ex.pc = "review"
    /\ \/ ~ReviewCurrent(r) /\ UNCHANGED <<row, decided>>
       \/ /\ ReviewCurrent(r) /\ verdict = "allow"
          /\ row' = [row EXCEPT ![ex.call] = [r EXCEPT !.status = "approved", !.decision = "once",
                            !.source = "llm", !.reviewed = TRUE, !.token = -1]]
          /\ decided' = [decided EXCEPT ![ex.call] = revision]
       \/ /\ ReviewCurrent(r) /\ verdict = "deny"
          /\ row' = [row EXCEPT ![ex.call] = Closed(r, "rejected")]
          /\ UNCHANGED decided
       \/ /\ ReviewCurrent(r) /\ verdict = "ask_user"
          /\ row' = [row EXCEPT ![ex.call] = [r EXCEPT !.status = "pending",
                            !.source = "llm", !.reviewed = TRUE, !.token = -1]]
          /\ UNCHANGED decided
    /\ ex' = [ex EXCEPT !.pc = "poll", !.claim = -1]
    /\ UNCHANGED <<run, inter, entered, proposed, uses, lost>>

\* The deferred cleanup of authorizePermission, then the result of the call.
Cleanup ==
    /\ ex.pc = "cleanup"
    /\ row' = [row EXCEPT ![ex.call] = Withdrawn(row[ex.call])]
    /\ Go("done")
    /\ UNCHANGED <<run, inter, decided, entered, proposed, uses, lost>>

\* The database does not answer the cleanup within its three seconds.
CleanupLost ==
    /\ ex.pc = "cleanup"
    /\ lost' = TRUE
    /\ Go("done")
    /\ UNCHANGED <<run, row, inter, decided, entered, proposed, uses>>

-----------------------------------------------------------------------------
(***************************************************************************)
(* The tools that touch the authority of the run itself.                   *)
(***************************************************************************)

InteractionTools == {"ask_user_question", "propose_plan", "propose_schedule"}

\* An operation that was let through; whatever it does, it ends.
RunTool ==
    /\ ex.pc = "start"
    /\ ex.op.tool \notin InteractionTools \cup {"enter_plan_mode"}
    /\ Go("done")
    /\ UNCHANGED <<run, row, inter, decided, entered, proposed, uses, lost>>

\* enterRunPlanMode: authority is only reduced, once per call id.
EnterPlanMode ==
    /\ ex.pc = "start" /\ ex.op.tool = "enter_plan_mode"
    /\ IF status = "running" /\ ex.call \notin entered
       THEN /\ execution' = "plan" /\ approvedPlan' = NoCall
            /\ entered' = entered \cup {ex.call}
            /\ proposed' = IF execution = "execute" THEN {} ELSE proposed
       ELSE UNCHANGED <<execution, approvedPlan, entered, proposed>>
    /\ Go("done")
    /\ UNCHANGED <<status, mode, revision, row, inter, decided, uses, lost>>

\* createRunInteraction.  A call id that came back meets its old interaction.
CreateRunInteraction ==
    LET c == ex.call IN
    /\ ex.pc = "start" /\ ex.op.tool \in InteractionTools
    /\ IF \/ status # "running"
          \/ ex.op.tool = "propose_schedule" /\ execution # "execute"
          \/ ex.op.tool = "propose_plan" /\ execution # "plan"
          \/ inter[c].status # "none" /\ inter[c].op # ex.op
          \/ inter[c].status = "none" /\ \E d \in Calls : inter[d].status = "pending"
       THEN Go("done") /\ UNCHANGED <<inter, proposed>>
       ELSE /\ Go("wait")
            /\ inter' = IF inter[c].status # "none" THEN inter
                        ELSE [inter EXCEPT ![c] = [op |-> ex.op, status |-> "pending", by |-> Nobody]]
            /\ proposed' = IF inter[c].status = "none" /\ ex.op.tool = "propose_plan"
                           THEN proposed \cup {c} ELSE proposed
    /\ UNCHANGED <<run, row, decided, entered, uses, lost>>

\* waitRunInteraction: answered, superseded, or the run no longer runs.
WaitRunInteraction ==
    /\ ex.pc = "wait"
    /\ status # "running" \/ inter[ex.call].status # "pending"
    /\ Go("done")
    /\ UNCHANGED <<run, row, inter, decided, entered, proposed, uses, lost>>

\* The context is cancelled or a query fails.  Whoever holds a permission row
\* cleans it up.
StepFails ==
    /\ ex.pc \in {"plan_check", "read_mode", "ask", "poll", "recheck", "consume", "claim",
                  "review", "start", "wait"}
    /\ Go(IF ex.pc \in {"poll", "recheck", "consume", "claim", "review"} THEN "cleanup" ELSE "done")
    /\ UNCHANGED <<run, row, inter, decided, entered, proposed, uses, lost>>

-----------------------------------------------------------------------------
(***************************************************************************)
(* Members of the workspace, on any replica.                               *)
(***************************************************************************)

\* changeRunPermissionMode by any member whose client has read the present
\* revision; any other request is a conflict.
ChangeRunPermissionMode(m) ==
    /\ status = "running"
    /\ m # mode
    /\ SetMode(m)
    /\ row' = RowsUnder(m)
    /\ UNCHANGED <<status, execution, approvedPlan, inter, ex, entered, proposed, uses, lost>>

\* Mutant of MayRespond: a member may publish for the submitter.
MayRespond_Anyone(u, r, decision) == decision = "run" => AllowRun(r.op)

\* Who may answer what.
MayRespond(u, r, decision) ==
    /\ r.op.tool = "github_publish" => u = Submitter /\ decision \in {"once", "reject"}
    /\ decision = "run" => AllowRun(r.op)

Approved(r, u, decision) ==
    [r EXCEPT !.status = "approved", !.decision = decision, !.source = "user", !.by = u]

\* respondPermission; answering again changes nothing.
RespondPermission(c, u, decision) ==
    /\ row[c].status = "pending"
    /\ status = "running"
    /\ MayRespond(u, row[c], decision)
    /\ execution = "plan" => PlanReadOnlyTool(row[c].op.tool)
    /\ \/ /\ decision = "reject"
          /\ row' = [row EXCEPT ![c] = Closed(@, "rejected")]
          /\ UNCHANGED <<mode, revision, decided>>
       \/ /\ decision \in {"once", "run"}
          /\ row' = [row EXCEPT ![c] = Approved(@, u, decision)]
          /\ decided' = [decided EXCEPT ![c] = revision]
          /\ UNCHANGED <<mode, revision>>
       \/ /\ decision = "full"
          /\ SetMode("full")
          /\ row' = [RowsUnder("full") EXCEPT ![c] = Approved(@, u, "full")]
    /\ UNCHANGED <<status, execution, approvedPlan, inter, ex, entered, proposed, uses, lost>>

\* interactionResponseStatus; "rejected" stands for "changes_requested" too.
Verdicts(tool) == IF tool = "ask_user_question" THEN {"answered"} ELSE {"approved", "rejected"}

\* The approval that ends plan mode.
PlanTakesEffect(c, verdict) == inter[c].op.tool = "propose_plan" /\ verdict = "approved"

\* A schedule is confirmed by the person who submitted the run, outside plan mode.
MayConfirm(u, tool, verdict) ==
    /\ tool = "propose_plan" => execution = "plan"
    /\ tool = "propose_schedule" => u = Submitter /\ (verdict = "approved" => execution = "execute")

\* RespondRunInteraction; answering again changes nothing.
RespondRunInteraction(c, u, verdict) ==
    /\ inter[c].status = "pending"
    /\ status = "running"
    /\ verdict \in Verdicts(inter[c].op.tool)
    /\ MayConfirm(u, inter[c].op.tool, verdict)
    /\ IF PlanTakesEffect(c, verdict)
       THEN execution' = "execute" /\ approvedPlan' = c
       ELSE UNCHANGED <<execution, approvedPlan>>
    /\ inter' = [inter EXCEPT ![c].status = verdict,
                               ![c].by = IF inter[c].op.tool = "propose_schedule" THEN u ELSE Nobody]
    /\ UNCHANGED <<status, mode, revision, row, ex, decided, entered, proposed, uses, lost>>

\* AcceptRunInput of an adjustment withdraws everything that waits for the user.
AdjustRun ==
    /\ status = "running"
    /\ row' = WithdrawRows
    /\ inter' = WithdrawInteractions
    /\ proposed' = {c \in proposed : inter[c].status # "pending"}
    /\ UNCHANGED <<run, ex, decided, entered, uses, lost>>

\* CancelRun, and finishFailedRun by the executor of the run or by the owner that
\* recovers it while this executor, unaware, goes on.
StopRun ==
    /\ status = "running"
    /\ status' = "stopped"
    /\ row' = WithdrawRows
    /\ inter' = WithdrawInteractions
    /\ UNCHANGED <<mode, revision, execution, approvedPlan, ex, decided, entered, proposed, uses, lost>>

\* finishCompletedRun leaves permission rows alone.
CompleteRun ==
    /\ status = "running" /\ ex.pc = "idle"
    /\ status' = "stopped"
    /\ inter' = WithdrawInteractions
    /\ UNCHANGED <<mode, revision, execution, approvedPlan, row, ex, decided, entered, proposed, uses, lost>>

-----------------------------------------------------------------------------
\* A run is inserted with the modes its submission chose.
Init ==
    /\ status = "running"
    /\ mode \in Modes
    /\ revision = 0
    /\ execution \in {"execute", "plan"}
    /\ approvedPlan = NoCall
    /\ row = [c \in Calls |-> NoRow]
    /\ inter = [c \in Calls |-> NoInter]
    /\ ex = Resting
    /\ decided = [c \in Calls |-> 0]
    /\ uses = [c \in Calls |-> 0]
    /\ entered = (IF execution = "plan" THEN {NoCall} ELSE {})
    /\ lost = FALSE
    /\ proposed = {}

Authorize ==
    \/ PlanCheck \/ Recheck \/ ReadMode \/ AskNothing \/ AskPermission \/ Poll
    \/ ConsumePermission \/ ClaimPermissionReview
    \/ (\E v \in {"allow", "deny", "ask_user"} : ReviewPermission(v))
    \/ Cleanup

UseTool == RunTool \/ EnterPlanMode \/ CreateRunInteraction \/ WaitRunInteraction

UserStep ==
    \/ \E m \in Modes : ChangeRunPermissionMode(m)
    \/ \E c \in Calls, u \in Members, d \in {"once", "run", "reject", "full"} :
            RespondPermission(c, u, d)
    \/ \E c \in Calls, u \in Members, v \in {"answered", "approved", "rejected"} :
            RespondRunInteraction(c, u, v)
    \/ AdjustRun

Next ==
    \/ \E c \in Calls : \E op \in Requests[c] : IssueCall(c, op)
    \/ Authorize \/ UseTool
    \/ StepFails \/ CleanupLost
    \/ UserStep
    \/ StopRun \/ CompleteRun

Spec == Init /\ [][Next]_vars

\* The executor is a goroutine that polls four times a second; the review has a
\* timeout; a run that stopped cancels the context of its tools.
Fairness ==
    /\ WF_vars(Authorize \/ UseTool)
    /\ WF_vars(StepFails /\ status # "running")

FairSpec == Spec /\ Fairness

-----------------------------------------------------------------------------
(***************************************************************************)
(* Properties.                                                             *)
(***************************************************************************)

Row == [op : Operations \cup {NoOp},
        status : {"none", "pending", "reviewing", "approved", "rejected", "cancelled"},
        decision : {"none", "once", "run", "full"},
        source : {"none", "user", "mode", "llm"},
        by : Members \cup {Nobody}, revision : 0..MaxRevision, token : -1..MaxRevision,
        reviewed : BOOLEAN, consumed : BOOLEAN]
Interaction == [op : Operations \cup {NoOp},
                status : {"none", "pending", "answered", "approved", "rejected", "cancelled"},
                by : Members \cup {Nobody}]
Executor == [pc : {"idle", "plan_check", "read_mode", "ask", "poll", "recheck", "consume",
                   "claim", "review", "cleanup", "start", "wait"},
             call : Calls \cup {NoCall}, op : Operations \cup {NoOp}, claim : -1..MaxRevision]

\* Every variable keeps the shape of the columns and the goroutine it stands for.
TypeOK ==
    /\ status \in {"running", "stopped"}
    /\ mode \in Modes
    /\ revision \in 0..MaxRevision
    /\ execution \in {"execute", "plan"}
    /\ approvedPlan \in Calls \cup {NoCall}
    /\ row \in [Calls -> Row]
    /\ inter \in [Calls -> Interaction]
    /\ ex \in {e \in Executor : e.pc # "idle" => e.call \in Calls}
    /\ decided \in [Calls -> 0..MaxRevision]
    /\ uses \in [Calls -> Nat]
    /\ entered \in SUBSET (Calls \cup {NoCall})
    /\ lost \in BOOLEAN
    /\ proposed \in SUBSET Calls

\* Consent is never older than the rules: a receipt that can still be used was
\* decided under the present permission revision, so no approval given before
\* the user changed the mode lets an operation through after it.
ReceiptsAreCurrent ==
    \A c \in Calls : (row[c].status = "approved" /\ ~row[c].consumed) =>
        row[c].revision = revision /\ decided[c] = revision

\* A receipt lets one operation through, also when a provider uses a call id again.
SingleUse == \A c \in Calls : uses[c] <= 1

\* Only a run in automatic mode has commands under review, and the claim of a
\* reviewer that may still decide is of the present revision.
ReviewsAreCurrent ==
    \A c \in Calls : row[c].status = "reviewing" =>
        /\ mode = "auto" /\ row[c].op.tool = "bash"
        /\ row[c].revision = revision /\ row[c].token \in {-1, revision}

\* Publishing and schedules are confirmed by the person who submitted the run,
\* one by one: no mode, reviewer or other member lets them through.
OwnersOnly ==
    \A c \in Calls :
        /\ (row[c].op.tool = "github_publish" /\ row[c].consumed) =>
                row[c].by = Submitter /\ row[c].source = "user" /\ row[c].decision = "once"
        /\ (inter[c].op.tool = "propose_schedule" /\ inter[c].status = "approved") =>
                inter[c].by = Submitter

\* A run that ever was in plan mode executes only under a plan that was proposed
\* and approved since it last went from execution into plan mode: no plan of an
\* earlier planning, and none that an adjustment of the task superseded while it
\* waited, ends plan mode, however late or often it is answered.
PlanApproved ==
    /\ execution = "plan" => approvedPlan = NoCall
    /\ (entered # {} /\ execution = "execute") =>
            /\ approvedPlan # NoCall
            /\ inter[approvedPlan].op.tool = "propose_plan"
            /\ inter[approvedPlan].status = "approved"
            /\ approvedPlan \in proposed

\* Nothing that changes anything is being executed while the run is in plan mode.
PlanIsReadOnly ==
    (execution = "plan" /\ ex.pc = "start") => PlanReadOnlyTool(ex.op.tool)

\* The executor waits for nobody but the user: it gets through a tool call,
\* unless a card the user can answer is open, or a lost cleanup left a row
\* under review by nobody.
WaitsOnlyForUser ==
    ex.pc # "idle" ~>
        \/ ex.pc = "idle" \/ lost
        \/ ex.pc = "poll" /\ row[ex.call].status = "pending"
        \/ ex.pc = "wait" /\ inter[ex.call].status = "pending"

\* A task that only reads ordinary files and records never asks its user.
ReadsAreFree ==
    \A c \in Calls : row[c].status = "pending" =>
        ~PlanReadOnlyTool(row[c].op.tool) \/ row[c].op.sensitive

-----------------------------------------------------------------------------
\* The permission rows implement the consent ledger.
LedgerRow(r, epoch) ==
    CASE r.status = "none" -> [state |-> "none", epoch |-> 0]
      [] r.status \in Unanswered -> [state |-> "asked", epoch |-> 0]
      [] r.status = "approved" -> IF r.consumed THEN [state |-> "spent", epoch |-> 0]
                                  ELSE [state |-> "given", epoch |-> epoch]
      [] OTHER -> [state |-> "refused", epoch |-> 0]

LedgerRequest == [c \in Calls |-> LedgerRow(row[c], decided[c])]

Ledger == INSTANCE ConsentLedger
    WITH MaxEpoch <- MaxRevision, active <- (status = "running"), epoch <- revision,
         request <- LedgerRequest

ImplementsLedger == Ledger!Spec
=============================================================================
