----------------------------- MODULE GitHubWork -----------------------------
(***************************************************************************)
(* One checkout of a GitHub repository and one proposal to publish it:     *)
(* tasks check out a snapshot, prepare a proposal from edited files, and   *)
(* publish it as a branch, a commit and a pull request.                    *)
(*                                                                         *)
(* GitHub offers no transaction: a request may be accepted and its answer  *)
(* lost, or arrive after its sender gave up.  The proposal is therefore    *)
(* claimed once, its intent staged before each write, and every later call *)
(* only looks for what the first one wrote.                                *)
(*                                                                         *)
(* Source: backend/internal/githubwork and connector/github_gateway.go.    *)
(***************************************************************************)
EXTENDS Integers

CONSTANTS
    Publishers,     \* calls of github_publish
    MaxCodeGrants,  \* bound: connections of the user's GitHub account
    MaxTaskRuns,    \* bound: runs of the conversation
    MaxHubFaults    \* bound: failed calls, late answers, processes and sessions

ASSUME HubConstants ==
    {MaxCodeGrants, MaxTaskRuns, MaxHubFaults} \subseteq Nat /\ MaxCodeGrants > 0 /\ MaxTaskRuns > 0

VARIABLES
    checkout,       \* the row of github_checkouts
    proposal,       \* the row of github_publish_proposals
    preparer,       \* the call of github_prepare
    publisher,
    hub,            \* at GitHub: the working branch, its commits after the base, the pull request
    onTheWay,       \* writes GitHub has received and not yet decided
    written,        \* history: how often a branch, a commit, a pull request was made
    codeGrant,      \* the generation of the connected grant
    taskRun,        \* the run that is running
    hubFaults

hubVars == <<checkout, proposal, preparer, publisher, hub, onTheWay, written, codeGrant, taskRun,
             hubFaults>>

Writes == {"branch", "commit", "pull"}
NoCheckout == [status |-> "none", grant |-> 0]
NoProposal == [status |-> "none", stage |-> "", grant |-> 0, run |-> 0, new |-> FALSE, pr |-> FALSE,
               commit |-> FALSE, pull |-> FALSE, expired |-> FALSE]
NoPublisher == [at |-> "idle", run |-> 0, item |-> NoProposal, locks |-> FALSE, sent |-> "none"]

HubTypeOK ==
    /\ checkout.status \in {"none", "preparing", "ready", "failed"}
    /\ proposal.status \in {"none", "prepared", "publishing", "unknown", "pushed", "completed", "failed"}
    /\ proposal.stage \in {"", "checking_branch", "branch_intent", "commit_intent", "commit_observed",
                           "pr_intent", "pr_observed", "commit_reconciled", "pr_reconciled"}
    /\ preparer.at \in {"idle", "head", "export"}
    /\ hub.branch \in {"absent", "base", "ours", "other"} /\ hub.pull \in {"none", "open", "closed"}
    /\ onTheWay \subseteq Writes /\ written \in [Writes -> 0..2]
    /\ codeGrant \in 1..MaxCodeGrants /\ taskRun \in 1..MaxTaskRuns
    /\ \A p \in Publishers : publisher[p].sent \in {"none", "sent", "answered"}

\* The proposal names the branch that was checked out, or a new one.
HubInit ==
    /\ checkout = NoCheckout /\ proposal = NoProposal
    /\ preparer = [at |-> "idle", grant |-> 0, run |-> 0, new |-> FALSE]
    /\ publisher = [p \in Publishers |-> NoPublisher]
    /\ hub \in [branch : {"absent", "base"}, pull : {"none"}, seen : {FALSE}]
    /\ onTheWay = {} /\ written = [w \in Writes |-> 0]
    /\ codeGrant = 1 /\ taskRun = 1 /\ hubFaults = 0

HubFault == hubFaults < MaxHubFaults /\ hubFaults' = hubFaults + 1

-----------------------------------------------------------------------------
\* A row 'preparing' is inserted once the tree at the branch's head is known.
BeginCheckout ==
    /\ checkout.status = "none"
    /\ checkout' = [status |-> "preparing", grant |-> codeGrant]
    /\ UNCHANGED <<proposal, preparer, publisher, hub, onTheWay, written, codeGrant, taskRun, hubFaults>>

\* The blobs read and imported; the grant is the one the row was made with.
FinishCheckout ==
    /\ checkout.status = "preparing"
    /\ \/ /\ checkout.grant = codeGrant
          /\ checkout' = [checkout EXCEPT !.status = "ready"] /\ UNCHANGED hubFaults
       \/ /\ checkout.grant # codeGrant
          /\ checkout' = [checkout EXCEPT !.status = "failed"] /\ UNCHANGED hubFaults
       \/ HubFault /\ checkout' = [checkout EXCEPT !.status = "failed"]
    /\ UNCHANGED <<proposal, preparer, publisher, hub, onTheWay, written, codeGrant, taskRun>>

-----------------------------------------------------------------------------
BeginPrepare ==
    /\ preparer.at = "idle" /\ proposal.status = "none"
    /\ checkout.status = "ready" /\ checkout.grant = codeGrant
    /\ preparer' = [preparer EXCEPT !.at = "head", !.grant = codeGrant, !.run = taskRun]
    /\ UNCHANGED <<checkout, proposal, publisher, hub, onTheWay, written, codeGrant, taskRun, hubFaults>>

\* The branch is to be made, or is still at the checked-out commit.
PrepareHead ==
    /\ preparer.at = "head"
    /\ preparer' = IF preparer.grant = codeGrant /\ preparer.run = taskRun /\ hub.branch \in {"absent", "base"}
                   THEN [preparer EXCEPT !.at = "export", !.new = hub.branch = "absent"]
                   ELSE [preparer EXCEPT !.at = "idle"]
    /\ UNCHANGED <<checkout, proposal, publisher, hub, onTheWay, written, codeGrant, taskRun, hubFaults>>

\* The files exported and sealed into the proposal, with the grant confirmed once more.
FinishPrepare(withPull) ==
    /\ preparer.at = "export"
    /\ preparer' = [preparer EXCEPT !.at = "idle"]
    /\ \/ /\ preparer.grant = codeGrant /\ preparer.run = taskRun
          /\ proposal' = [NoProposal EXCEPT !.status = "prepared", !.grant = preparer.grant,
                              !.run = preparer.run, !.new = preparer.new, !.pr = withPull]
          /\ UNCHANGED hubFaults
       \/ /\ preparer.grant # codeGrant \/ preparer.run # taskRun
          /\ UNCHANGED <<proposal, hubFaults>>
       \/ HubFault /\ UNCHANGED proposal
    /\ UNCHANGED <<checkout, publisher, hub, onTheWay, written, codeGrant, taskRun>>

-----------------------------------------------------------------------------
Publishing(p, at) == publisher[p].at = at
Goes(p, at) == publisher' = [publisher EXCEPT ![p].at = at, ![p].sent = "none"]
Holding(p, item, at) ==
    publisher' = [publisher EXCEPT ![p].item = item, ![p].at = at, ![p].sent = "none"]
Returns(p) == publisher' = [publisher EXCEPT ![p] = NoPublisher]

\* A request of the task: its run still runs, its grant is the proposal's.
Permitted(p) == publisher[p].run = taskRun /\ publisher[p].item.grant = codeGrant

\* A session lock per proposal; who does not get it reports the row and leaves.
PublishFree == \A p \in Publishers : ~publisher[p].locks

\* The row is read again under the lock.
StartPublish(p) ==
    /\ Publishing(p, "idle") /\ proposal.status # "none" /\ PublishFree
    /\ IF proposal.status = "prepared"
       THEN ~proposal.expired /\ proposal.run = taskRun /\ proposal.grant = codeGrant
       ELSE proposal.status \notin {"completed", "failed"}
    /\ publisher' = [publisher EXCEPT ![p] =
           [at |-> IF proposal.status = "prepared" THEN "claim" ELSE "commits",
            run |-> taskRun, item |-> proposal, locks |-> TRUE, sent |-> "none"]]
    /\ UNCHANGED <<checkout, proposal, preparer, hub, onTheWay, written, codeGrant, taskRun, hubFaults>>

Unclaimed_Loaded == TRUE \* mutant: the status read before is trusted
Unclaimed == proposal.status = "prepared"

\* Accepted before the first possible write.
ClaimProposal(p) ==
    /\ Publishing(p, "claim")
    /\ IF Unclaimed /\ ~proposal.expired
       THEN /\ proposal' = [proposal EXCEPT !.status = "publishing", !.stage = "checking_branch"]
            /\ Holding(p, proposal', "check")
       ELSE Returns(p) /\ UNCHANGED proposal
    /\ UNCHANGED <<checkout, preparer, hub, onTheWay, written, codeGrant, taskRun, hubFaults>>

SaveReceipt(item) ==
    proposal' = [proposal EXCEPT !.status = item.status, !.stage = item.stage,
                                 !.commit = item.commit, !.pull = item.pull]
SaveStage(p, stage, at) ==
    /\ proposal' = [proposal EXCEPT !.stage = stage]
    /\ Holding(p, [publisher[p].item EXCEPT !.stage = stage], at)

Reported(item) == [item EXCEPT !.status = "failed"]

\* The branch is as it was prepared for, or the proposal failed before any write.
CheckBranch(p) ==
    LET item == publisher[p].item
        asPrepared == hub.branch = IF item.new THEN "absent" ELSE "base"
    IN  /\ Publishing(p, "check")
        /\ \/ /\ Permitted(p) /\ asPrepared /\ UNCHANGED hubFaults
              /\ IF item.new THEN SaveStage(p, "branch_intent", "branch") ELSE SaveStage(p, "commit_intent", "commit")
           \/ /\ ~Permitted(p) \/ ~asPrepared
              /\ UNCHANGED hubFaults /\ SaveReceipt(Reported(item)) /\ Returns(p)
           \/ /\ HubFault
              /\ (SaveReceipt(Reported(item)) \/ UNCHANGED proposal) /\ Returns(p)
        /\ UNCHANGED <<checkout, preparer, hub, onTheWay, written, codeGrant, taskRun>>

-----------------------------------------------------------------------------
\* One write: sent with the grant pinned, decided by GitHub, answered or not.

SendWrite(p) ==
    /\ publisher[p].at \in Writes /\ publisher[p].sent = "none"
    /\ Permitted(p)
    /\ publisher' = [publisher EXCEPT ![p].sent = "sent"]
    /\ onTheWay' = onTheWay \cup {publisher[p].at}
    /\ UNCHANGED <<checkout, proposal, preparer, hub, written, codeGrant, taskRun, hubFaults>>

\* A commit only on the expected head, a pull request only where none is open.
Accepts(w) ==
    CASE w = "branch" -> hub.branch = "absent"
      [] w = "commit" -> hub.branch = "base"
      [] w = "pull"   -> hub.branch # "absent" /\ hub.pull # "open"

\* The answer reaches whoever still waits for it.
HubDecides(w) ==
    /\ w \in onTheWay
    /\ onTheWay' = onTheWay \ {w}
    /\ IF Accepts(w)
       THEN /\ written' = [written EXCEPT ![w] = @ + 1]
            /\ hub' = CASE w = "branch" -> [hub EXCEPT !.branch = "base"]
                        [] w = "commit" -> [hub EXCEPT !.branch = "ours", !.seen = TRUE]
                        [] w = "pull"   -> [hub EXCEPT !.pull = "open"]
            /\ publisher' = [p \in Publishers |->
                   IF publisher[p].at = w /\ publisher[p].sent = "sent"
                   THEN [publisher[p] EXCEPT !.sent = "answered"] ELSE publisher[p]]
       ELSE UNCHANGED <<written, hub, publisher>>
    /\ UNCHANGED <<checkout, proposal, preparer, codeGrant, taskRun, hubFaults>>

\* The task is checked once more after the answer.
WriteAnswered(p) ==
    LET item == publisher[p].item
        pushed == [item EXCEPT !.commit = TRUE, !.stage = "commit_observed", !.status = "pushed"]
        done == [item EXCEPT !.pull = TRUE, !.stage = "pr_observed", !.status = "completed"]
    IN  /\ publisher[p].sent = "answered" /\ publisher[p].run = taskRun
        /\ \/ Publishing(p, "branch") /\ SaveStage(p, "commit_intent", "commit")
           \/ Publishing(p, "commit") /\ SaveReceipt(pushed) /\ Holding(p, pushed, "pushed")
           \/ Publishing(p, "pull") /\ SaveReceipt(done) /\ Returns(p)
        /\ UNCHANGED <<checkout, preparer, hub, onTheWay, written, codeGrant, taskRun, hubFaults>>

\* A pull request is wanted, or the publication is complete.
AfterPush(p) ==
    /\ Publishing(p, "pushed")
    /\ IF publisher[p].item.pr
       THEN SaveStage(p, "pr_intent", "pull")
       ELSE SaveReceipt([publisher[p].item EXCEPT !.status = "completed"]) /\ Returns(p)
    /\ UNCHANGED <<checkout, preparer, hub, onTheWay, written, codeGrant, taskRun, hubFaults>>

\* Refused, never sent, the run over, or no answer in time: the write may still land.
WriteUncertain(p) ==
    LET item == [publisher[p].item EXCEPT !.status = "unknown"]
    IN  /\ publisher[p].at \in Writes
        /\ \/ UNCHANGED hubFaults /\ SaveReceipt(item)
              /\ \/ publisher[p].sent = "none" /\ ~Permitted(p)
                 \/ publisher[p].sent = "sent" /\ publisher[p].at \notin onTheWay
                 \/ publisher[p].sent = "answered" /\ publisher[p].run # taskRun
           \/ HubFault /\ (SaveReceipt(item) \/ UNCHANGED proposal)
        /\ IF Publishing(p, "branch") THEN Returns(p) ELSE Holding(p, item, "commits")
        /\ UNCHANGED <<checkout, preparer, hub, onTheWay, written, codeGrant, taskRun>>

-----------------------------------------------------------------------------
\* Reconciliation reads and writes the receipt, never GitHub.

\* By the marker in its message, its parent and its exact tree.
CommitSeen(p) ==
    \/ publisher[p].item.commit
    \/ /\ publisher[p].item.stage \in {"commit_intent", "pr_intent", "commit_observed"}
       /\ hub.seen /\ hub.branch \in {"ours", "other"}
FindCommit(p) ==
    LET found == [publisher[p].item EXCEPT !.commit = TRUE, !.status = "pushed"]
    IN  /\ Publishing(p, "commits")
        /\ IF Permitted(p) /\ CommitSeen(p)
           THEN Holding(p, found, IF found.pr /\ (found.stage = "pr_intent" \/ found.pull) THEN "pulls" ELSE "receipt")
           ELSE Returns(p)
        /\ UNCHANGED <<checkout, proposal, preparer, hub, onTheWay, written, codeGrant, taskRun, hubFaults>>

\* Pull requests of any state; an error here leaves the receipt at 'pushed'.
FindPull(p) ==
    LET item == publisher[p].item
    IN  /\ Publishing(p, "pulls")
        /\ \/ /\ UNCHANGED hubFaults
              /\ Holding(p, IF Permitted(p) /\ hub.pull # "none"
                            THEN [item EXCEPT !.pull = TRUE, !.stage = "pr_reconciled", !.status = "completed"]
                            ELSE item, "receipt")
           \/ HubFault /\ Holding(p, item, "receipt")
        /\ UNCHANGED <<checkout, proposal, preparer, hub, onTheWay, written, codeGrant, taskRun>>

SaveReconciled(p) ==
    LET item == publisher[p].item
    IN  /\ Publishing(p, "receipt")
        /\ SaveReceipt(IF item.pr THEN item
                       ELSE [item EXCEPT !.status = "completed", !.stage = "commit_reconciled"])
        /\ Returns(p)
        /\ UNCHANGED <<checkout, preparer, hub, onTheWay, written, codeGrant, taskRun, hubFaults>>

-----------------------------------------------------------------------------
\* A process dies, or a failed update of the row ends the call.
PublisherEnds(p) ==
    /\ HubFault /\ ~Publishing(p, "idle") /\ Returns(p)
    /\ UNCHANGED <<checkout, proposal, preparer, hub, onTheWay, written, codeGrant, taskRun>>
LosePublishLock(p) ==
    /\ HubFault /\ publisher[p].locks /\ publisher' = [publisher EXCEPT ![p].locks = FALSE]
    /\ UNCHANGED <<checkout, proposal, preparer, hub, onTheWay, written, codeGrant, taskRun>>

\* The row is share-locked while a request is under way.
GrantReplaced ==
    /\ codeGrant < MaxCodeGrants /\ \A p \in Publishers : publisher[p].sent = "none"
    /\ codeGrant' = codeGrant + 1
    /\ UNCHANGED <<checkout, proposal, preparer, publisher, hub, onTheWay, written, taskRun, hubFaults>>
NextTaskRun ==
    /\ taskRun < MaxTaskRuns /\ taskRun' = taskRun + 1
    /\ UNCHANGED <<checkout, proposal, preparer, publisher, hub, onTheWay, written, codeGrant, hubFaults>>
ProposalExpires ==
    /\ proposal.status = "prepared" /\ ~proposal.expired
    /\ proposal' = [proposal EXCEPT !.expired = TRUE]
    /\ UNCHANGED <<checkout, preparer, publisher, hub, onTheWay, written, codeGrant, taskRun, hubFaults>>

\* Others make the branch, push to it, delete it and so close the pull request.
OthersWork ==
    /\ \/ hub.branch = "absent" /\ hub' = [hub EXCEPT !.branch = "base"]
       \/ hub.branch \in {"base", "ours"} /\ hub' = [hub EXCEPT !.branch = "other"]
       \/ hub.branch # "absent" /\ hub' = [hub EXCEPT !.branch = "absent", !.seen = FALSE,
                                               !.pull = IF @ = "open" THEN "closed" ELSE @]
    /\ UNCHANGED <<checkout, proposal, preparer, publisher, onTheWay, written, codeGrant, taskRun, hubFaults>>

PublisherStep(p) ==
    \/ StartPublish(p) \/ ClaimProposal(p) \/ CheckBranch(p)
    \/ SendWrite(p) \/ WriteAnswered(p) \/ AfterPush(p) \/ WriteUncertain(p)
    \/ FindCommit(p) \/ FindPull(p) \/ SaveReconciled(p)
    \/ PublisherEnds(p) \/ LosePublishLock(p)

HubNext ==
    \/ BeginCheckout \/ FinishCheckout
    \/ BeginPrepare \/ PrepareHead \/ \E pr \in BOOLEAN : FinishPrepare(pr)
    \/ \E p \in Publishers : PublisherStep(p)
    \/ \E w \in Writes : HubDecides(w)
    \/ GrantReplaced \/ NextTaskRun \/ ProposalExpires \/ OthersWork

HubSpec == HubInit /\ [][HubNext]_hubVars

-----------------------------------------------------------------------------
(* However often a proposal is published, by calls that die, lose their lock or their answers,   *)
(* and whatever others do to the branch: it makes one branch, one commit and one pull request at *)
(* most; a receipt that reports a commit or a pull request is right; one that reports a failure  *)
(* left nothing at GitHub, and nothing under way.                                                *)
PublishedOnce ==
    /\ \A w \in Writes : written[w] <= 1
    /\ proposal.status \in {"pushed", "completed"} => written["commit"] = 1
    /\ proposal.status = "completed" /\ proposal.pr => written["pull"] = 1
    /\ proposal.status = "failed" => onTheWay = {} /\ \A w \in Writes : written[w] = 0
=============================================================================
