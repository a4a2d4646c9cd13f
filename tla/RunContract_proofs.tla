-------------------------- MODULE RunContract_proofs --------------------------
(***************************************************************************)
(* Proofs that the runs of a conversation keep their contract: what every  *)
(* step may do to a run, that its past is frozen and a stop final, that a  *)
(* submission makes one run, that batches of calls are settled, that       *)
(* RunLifecycle implements RunContract, that the queue is honest, and when *)
(* a message finds a settled transcript.                                   *)
(***************************************************************************)
EXTENDS RunLifecycle_proofs

-----------------------------------------------------------------------------
(* What a step does to status, answer and subm: an action of the contract, but for the two      *)
(* conditions that rest on the invariants below: a run begins when none is running, and         *)
(* completes with no call open.                                                                 *)
Begins(r) ==
    \E p \in Replicas, id \in Ids :
        /\ handler[p].pc = "recover" /\ todo[p] = NoTodo
        /\ ~UsedIdentity(id) /\ NextRun(r)
        /\ status' = [status EXCEPT ![r] = "running"] /\ subm' = [subm EXCEPT ![r] = id]
        /\ UNCHANGED answer

Completes(r) ==
    /\ At(r, "finish")
    /\ status' = [status EXCEPT ![r] = "completed"]
    /\ UNCHANGED answer

Stays == UNCHANGED <<status, answer>>

Effect(r) ==
    \/ Contract!RequestStop(r) \/ Contract!Work(r)
    \/ \E outcome \in {"failed", "cancelled"} : Contract!End(r, outcome)
    \/ Completes(r)

LEMMA SameNames ==
    /\ Contract!Runs = Runs /\ Contract!Active = Active /\ Contract!Terminal = Terminal
BY DEF Contract!Runs, Contract!Active, Contract!Terminal, Runs, Active, Terminal

\* Ending a run is the contract's End, or finds it ended.
LEMMA FinishIsEnd ==
    ASSUME TypeOK, NEW r \in Runs, FinishFailedRun(r) \/ FinishCancelledRun(r)
    PROVE  Stays \/ Effect(r)
<1>1. ASSUME NEW st \in {"failed", "cancelled"}, NEW how \in {"interrupted", "cancelled"},
             EndRun(r, st, how), status[r] = "running" \/ (status[r] = "cancelling" /\ st = "cancelled")
      PROVE  Contract!End(r, st)
  <2>1. status' = [status EXCEPT ![r] = st] BY <1>1 DEF EndRun
  <2>2. answer' = SettleCalls(r, how) BY <1>1 DEF EndRun
  <2>3. Contract!Progress(r) BY <2>2 DEF SettleCalls, TypeOK, Contract!Progress, Contract!Given
  <2>4. Contract!OthersKeep(r)
    BY <2>2, SameNames DEF SettleCalls, TypeOK, Contract!OthersKeep
  <2>5. \A c \in Calls : answer'[r][c] # "open" BY <2>2 DEF SettleCalls, TypeOK
  <2> QED BY <1>1, <2>1, <2>3, <2>4, <2>5 DEF Contract!End
<1>2. CASE FinishFailedRun(r)
  BY <1>1, <1>2 DEF FinishFailedRun, Effect, Stays
<1>3. CASE FinishCancelledRun(r)
  BY <1>1, <1>3 DEF FinishCancelledRun, Effect, Stays, Active
<1> QED BY <1>2, <1>3

\* The steps of a handler begin runs and end them.
LEMMA HandlerEffect ==
    ASSUME TypeOK, NEW p \in Replicas,
           HandlerStep(p) \/ DispatchBegin(p) \/ MonitorBegin(p) \/ \E i \in SendIds : SendBegin(p, i)
    PROVE  \/ UNCHANGED subm /\ (Stays \/ \E r \in Runs : Effect(r))
           \/ \E r \in Runs : Begins(r)
<1> USE DEF database
<1>1. CASE \E r \in Runs : RecoverOne(p, r)
  BY <1>1, FinishIsEnd DEF RecoverOne
<1>2. CASE LaunchRefused(p)
  BY <1>2, FinishIsEnd DEF LaunchRefused, TypeOK, HandlerRow
<1>3. CASE \E r \in Runs : SendInsert(p, r)
  <2> PICK r \in Runs : SendInsert(p, r) BY <1>3
  <2>1. handler[p].id \in Ids BY DEF SendInsert, Recovered, TypeOK, HandlerRow, Ids
  <2> QED BY <2>1 DEF SendInsert, Recovered, InsertRun, Begins
<1>4. CASE \E i \in InputIds, r \in Runs : ClaimQueuedInput(p, i, r)
  BY <1>4 DEF ClaimQueuedInput, Recovered, InsertRun, Begins, Ids
<1>5. ASSUME UNCHANGED <<status, subm, answer>> PROVE UNCHANGED subm /\ Stays
  BY <1>5 DEF Stays
<1> QED
  BY <1>1, <1>2, <1>3, <1>4, <1>5
     DEF HandlerStep, DispatchBegin, MonitorBegin, SendBegin, AcquireRun, AcquireFails, SendFound,
         RecoverScan, MonitorDone, SendYields, SendRejected, ClaimNothing, ClaimHolds, Launch

\* The steps of an executor issue and answer calls, and end its run.
LEMMA ExecEffect ==
    ASSUME TypeOK, NEW r \in Runs,
           ExecStep(r) \/ AskReturns(r) \/ StepFails(r) \/ ExecSignal(r)
    PROVE  UNCHANGED subm /\ (Stays \/ Effect(r))
<1> USE DEF database
<1>1. CASE \E batch \in SUBSET Calls : ModelAnswers(r, batch)
  <2> PICK batch \in SUBSET Calls : ModelAnswers(r, batch) BY <1>1
  <2>1. answer' = [answer EXCEPT ![r] = [c \in Calls |-> IF c \in batch THEN "open" ELSE answer[r][c]]]
        /\ status[r] = "running" /\ \A c \in batch : answer[r][c] = "none"
    BY DEF ModelAnswers, At
  <2>2. Contract!Progress(r) BY <2>1 DEF TypeOK, Contract!Progress
  <2>3. Contract!OthersKeep(r) BY <2>1, SameNames DEF TypeOK, Contract!OthersKeep
  <2> QED BY <2>1, <2>2, <2>3 DEF ModelAnswers, Effect, Contract!Work, Contract!Active
<1>2. ASSUME NEW c \in Calls, NEW how \in {"result", "cancelled"}, status[r] \in Active,
             answer[r][c] = "open", answer' = [answer EXCEPT ![r][c] = how], UNCHANGED <<status, subm>>
      PROVE  UNCHANGED subm /\ Effect(r)
  <2>1. Contract!Progress(r) BY <1>2 DEF TypeOK, Contract!Progress, Contract!Given
  <2>2. Contract!OthersKeep(r) BY <1>2, SameNames DEF TypeOK, Contract!OthersKeep
  <2> QED BY <1>2, <2>1, <2>2, SameNames DEF Effect, Contract!Work
<1>3. CASE \E c \in Calls : ToolDone(r, c)
  BY <1>2, <1>3 DEF ToolDone, At, Active
<1>4. CASE \E c \in Calls : ToolObserved(r, c)
  BY <1>2, <1>4 DEF ToolObserved
<1>5. CASE FinishCompletedRun(r) BY <1>5 DEF FinishCompletedRun, Completes, Effect
<1>6. CASE RecordEnd(r) BY <1>6, FinishIsEnd DEF RecordEnd
<1>7. ASSUME UNCHANGED <<status, subm, answer>> PROVE UNCHANGED subm /\ Stays
  BY <1>7 DEF Stays
<1> QED
  BY <1>1, <1>3, <1>4, <1>5, <1>6, <1>7
     DEF ExecStep, ExecSignal, AskReturns, StepFails, Setup, ApplyRunAdjustments, ToolAsks,
         FinishDeferred, ReadStatus, Exit, CancelObserved, OwnershipLost, ShutdownCancels

\* What a step of the system does to the runs.
LEMMA StepEffect ==
    ASSUME TypeOK, [Next]_vars
    PROVE  \/ UNCHANGED subm /\ (Stays \/ \E r \in Runs : Effect(r))
           \/ \E r \in Runs : Begins(r)
<1>1. CASE UNCHANGED vars BY <1>1 DEF vars, database, Stays
<1>2. CASE UserStep
  <2>1. CASE \E r \in Runs : CancelRun(r)
    BY <2>1 DEF CancelRun, Effect, Contract!RequestStop
  <2> QED BY <1>2, <2>1
          DEF UserStep, RespondInteraction, AcceptRunInput, CancelInput, ResumeInput, Stays
<1>3. CASE FaultStep
  BY <1>3 DEF FaultStep, Crash, Restart, LoseProcess, ShutdownBegin, LoseHandlerSession,
              HandlerAborts, Release, LoseSession, RecordEndLost, Stays, database
<1> QED BY <1>1, <1>2, <1>3, HandlerEffect, ExecEffect DEF Next

-----------------------------------------------------------------------------
(* The past is frozen, and a stop is final *)

\* Nothing that ended changes, whoever is still at work on it.
THEOREM FrozenPast == Spec => EndedRunsFrozen
<1>1. ASSUME TypeOK, [Next]_vars
      PROVE  [\A r \in Runs : status[r] \in Terminal
                  => status'[r] = status[r] /\ answer'[r] = answer[r]]_vars
  <2> SUFFICES ASSUME NEW r \in Runs, status[r] \in Terminal
               PROVE  status'[r] = status[r] /\ answer'[r] = answer[r]
    OBVIOUS
  <2>1. status[r] # "running" /\ status[r] # "cancelling" /\ status[r] # "none" BY DEF Terminal
  <2>2. CASE Stays BY <2>2 DEF Stays
  <2>3. ASSUME NEW q \in Runs, Effect(q) PROVE status'[r] = status[r] /\ answer'[r] = answer[r]
    <3>1. q # r
      BY <2>1, <2>3
         DEF Effect, Contract!RequestStop, Contract!Work, Contract!End, Contract!Active, Completes, At
    <3>2. CASE Completes(q) BY <3>1, <3>2 DEF Completes, TypeOK
    <3>3. CASE Contract!RequestStop(q) BY <3>1, <3>3 DEF Contract!RequestStop, TypeOK
    <3>4. CASE Contract!Work(q)
      BY <3>1, <3>4, SameNames DEF Contract!Work, Contract!OthersKeep
    <3>5. CASE \E outcome \in {"failed", "cancelled"} : Contract!End(q, outcome)
      BY <3>1, <3>5, SameNames DEF Contract!End, Contract!OthersKeep, TypeOK
    <3> QED BY <2>3, <3>2, <3>3, <3>4, <3>5 DEF Effect
  <2>4. ASSUME NEW q \in Runs, Begins(q) PROVE status'[r] = status[r] /\ answer'[r] = answer[r]
    BY <2>1, <2>4 DEF Begins, NextRun, TypeOK
  <2> QED BY <1>1, <2>2, <2>3, <2>4, StepEffect
<1> QED BY <1>1, TypeCorrect, PTL DEF Spec, EndedRunsFrozen

\* A run that is to stop is reported as nothing but cancelled.
THEOREM FinalStop == Spec => StopIsFinal
<1>1. ASSUME TypeOK, [Next]_vars
      PROVE  [\A r \in Runs : status[r] = "cancelling"
                  => status'[r] \in {"cancelling", "cancelled"}]_vars
  <2> SUFFICES ASSUME NEW r \in Runs, status[r] = "cancelling"
               PROVE  status'[r] \in {"cancelling", "cancelled"}
    OBVIOUS
  <2>2. CASE Stays BY <2>2 DEF Stays
  <2>3. ASSUME NEW q \in Runs, Effect(q) PROVE status'[r] \in {"cancelling", "cancelled"}
    <3>1. CASE Completes(q) BY <3>1 DEF Completes, At, TypeOK
    <3>2. CASE Contract!RequestStop(q) BY <3>2 DEF Contract!RequestStop, TypeOK
    <3>3. CASE Contract!Work(q) BY <3>3 DEF Contract!Work
    <3>4. CASE \E outcome \in {"failed", "cancelled"} : Contract!End(q, outcome)
      BY <3>4 DEF Contract!End, TypeOK
    <3> QED BY <2>3, <3>1, <3>2, <3>3, <3>4 DEF Effect
  <2>4. ASSUME NEW q \in Runs, Begins(q) PROVE status'[r] \in {"cancelling", "cancelled"}
    BY <2>4 DEF Begins, NextRun, TypeOK
  <2> QED BY <1>1, <2>2, <2>3, <2>4, StepEffect
<1> QED BY <1>1, TypeCorrect, PTL DEF Spec, StopIsFinal

-----------------------------------------------------------------------------
(* A submission makes one run *)

\* Rows that do not exist have no submission; without this a new row could share its id.
Identities ==
    /\ OneRunPerSubmission
    /\ \A r \in Runs : status[r] = "none" => subm[r] = NoId

LEMMA IdentitiesKept ==
    ASSUME TypeOK, Identities, [Next]_vars
    PROVE  Identities'
<1>1. CASE Stays /\ UNCHANGED subm BY <1>1 DEF Stays, Identities, OneRunPerSubmission
<1>2. CASE UNCHANGED subm /\ \E q \in Runs : Effect(q)
  <2> PICK q \in Runs : Effect(q) BY <1>2
  <2>1. \A r \in Runs : status'[r] = "none" => status[r] = "none"
    BY DEF Effect, Contract!RequestStop, Contract!Work, Contract!End, Completes, At, TypeOK
  <2> QED BY <1>2, <2>1 DEF Identities, OneRunPerSubmission
<1>3. CASE \E q \in Runs : Begins(q)
  <2> PICK q \in Runs : Begins(q) BY <1>3
  <2> PICK p \in Replicas, id \in Ids :
           /\ ~UsedIdentity(id) /\ NextRun(q)
           /\ status' = [status EXCEPT ![q] = "running"] /\ subm' = [subm EXCEPT ![q] = id]
    BY DEF Begins
  <2>1. id # NoId BY ConstantsOK DEF ConstantsOK
  <2>2. \A r \in Runs \ {q} : subm[r] # id BY <2>1 DEF UsedIdentity, Identities
  <2> QED BY <2>2 DEF Identities, OneRunPerSubmission, TypeOK
<1> QED BY <1>1, <1>2, <1>3, StepEffect

\* Sent again and again, on any replica, and also used for an input: an id makes one run.
THEOREM OneRunEach == Spec => []OneRunPerSubmission
<1>1. Init => Identities BY DEF Init, Identities, OneRunPerSubmission
<1>2. Identities => OneRunPerSubmission BY DEF Identities
<1> QED BY <1>1, <1>2, IdentitiesKept, TypeCorrect, PTL DEF Spec

-----------------------------------------------------------------------------
(* Batches of calls are settled between two turns *)

\* A run is launched by one handler, after it was inserted.
LaunchOnce ==
    /\ \A p \in Replicas : handler[p].pc = "launch" => status[handler[p].run] # "none"
    /\ \A p, q \in Replicas :
           (handler[p].pc = "launch" /\ handler[q].pc = "launch" /\ handler[p].run = handler[q].run)
               => p = q

BatchInv == Batches /\ LaunchOnce

Between == {"setup", "turn", "model", "finish"}

LEMMA LaunchedRun ==
    ASSUME TypeOK, NEW p \in Replicas, handler[p].pc = "launch"
    PROVE  handler[p].run \in Runs
BY DEF TypeOK, HandlerRow

\* Steps that begin nothing, open nothing and bring no executor between two batches.
LEMMA BatchesStable ==
    ASSUME TypeOK, BatchInv,
           \A r \in Runs : (status'[r] = "none") <=> (status[r] = "none"),
           \A r \in Runs : status'[r] = "running" => status[r] = "running",
           \A r \in Runs : status[r] = "none" => answer'[r] = answer[r],
           \A r \in Runs : OpenCall(r)' => OpenCall(r),
           \A r \in Runs : exec'[r].pc # "none" => exec[r].pc # "none",
           \A r \in Runs : exec'[r].pc \in Between => exec[r].pc \in Between,
           \A p \in Replicas : handler'[p].pc = "launch" => handler'[p] = handler[p]
    PROVE  BatchInv'
<1> USE DEF BatchInv, Batches
<1>1. RunsInOrder' BY DEF RunsInOrder
<1>2. BatchesComplete' BY DEF BatchesComplete, Between
<1>3. LaunchIsFresh' BY LaunchedRun DEF LaunchIsFresh, Live
<1>4. UnstartedRunsIdle' BY DEF UnstartedRunsIdle, Live
<1>5. LaunchOnce' BY LaunchedRun DEF LaunchOnce
<1> QED BY <1>1, <1>2, <1>3, <1>4, <1>5

LEMMA BatchesInit == Init => BatchInv
BY DEF Init, BatchInv, Batches, RunsInOrder, BatchesComplete, LaunchIsFresh, UnstartedRunsIdle,
       LaunchOnce, Live, OpenCall, Idle, NoExec

\* A run that begins has neither an executor nor a call.
LEMMA InsertBatches ==
    ASSUME TypeOK, BatchInv, NEW p \in Replicas, NEW r \in Runs, NextRun(r),
           status' = [status EXCEPT ![r] = "running"], UNCHANGED <<answer, exec>>,
           handler' = [handler EXCEPT ![p].pc = "launch", ![p].run = r]
    PROVE  BatchInv'
<1> USE DEF BatchInv, Batches
<1>1. /\ status[r] = "none" /\ status'[r] = "running"
      /\ \A q \in Runs \ {r} : status'[q] = status[q]
      /\ ~Live(r) /\ ~OpenCall(r)
  BY DEF NextRun, TypeOK, UnstartedRunsIdle, BatchesComplete, OpenCall
<1>2. /\ handler'[p].pc = "launch" /\ handler'[p].run = r
      /\ \A q \in Replicas \ {p} : handler'[q] = handler[q]
  BY DEF TypeOK, HandlerRow
<1>3. RunsInOrder' BY <1>1 DEF RunsInOrder, NextRun
<1>o. \A q \in Runs : (Live(q)' <=> Live(q)) /\ (OpenCall(q)' <=> OpenCall(q)) BY DEF Live, OpenCall
<1>4. BatchesComplete'
  <2>1. \A q \in Runs \ {r} : /\ status'[q] = "none" => \A c \in Calls : answer'[q][c] = "none"
                             /\ (status'[q] = "running" /\ exec'[q].pc \in {"setup", "turn", "model", "finish"})
                                    => ~OpenCall(q)'
    BY <1>1, <1>o DEF BatchesComplete
  <2> QED BY <1>1, <1>o, <2>1 DEF BatchesComplete
<1>5. LaunchIsFresh'
  <2> SUFFICES ASSUME NEW q \in Replicas, handler'[q].pc = "launch"
               PROVE  /\ exec'[handler'[q].run].pc = "none"
                      /\ \A c \in Calls : answer'[handler'[q].run][c] # "open"
    BY DEF LaunchIsFresh, Live, OpenCall
  <2>1. CASE q = p BY <1>1, <1>2, <2>1 DEF Live, OpenCall
  <2>2. CASE q # p BY <1>2, <2>2, LaunchedRun DEF LaunchIsFresh, Live, OpenCall
  <2> QED BY <2>1, <2>2
<1>6. UnstartedRunsIdle' BY <1>1, <1>o DEF UnstartedRunsIdle
<1>7. LaunchOnce'
  <2>1. \A q \in Replicas \ {p} : handler'[q].pc = "launch" =>
            handler'[q].run \in Runs /\ handler'[q].run # r /\ status[handler'[q].run] # "none"
    BY <1>1, <1>2, LaunchedRun DEF LaunchOnce
  <2>2. ASSUME NEW q \in Replicas, handler'[q].pc = "launch"
        PROVE  status'[handler'[q].run] # "none"
    <3>1. CASE q = p BY <1>1, <1>2, <3>1
    <3>2. CASE q # p BY <1>1, <2>1, <2>2, <3>2
    <3> QED BY <3>1, <3>2
  <2>3. ASSUME NEW q \in Replicas, NEW x \in Replicas, handler'[q].pc = "launch",
               handler'[x].pc = "launch", handler'[q].run = handler'[x].run
        PROVE  q = x
    BY <1>2, <2>1, <2>3 DEF LaunchOnce
  <2> QED BY <2>2, <2>3 DEF LaunchOnce
<1> QED BY <1>3, <1>4, <1>5, <1>6, <1>7

LEMMA LaunchBatches ==
    ASSUME TypeOK, BatchInv, NEW p \in Replicas, Launch(p)
    PROVE  BatchInv'
<1> USE DEF BatchInv, Batches
<1> DEFINE r == handler[p].run
<1>1. r \in Runs /\ handler[p].pc = "launch" /\ ~OpenCall(r) /\ status[r] # "none"
  BY LaunchedRun DEF Launch, LaunchIsFresh, LaunchOnce
<1>2. /\ exec'[r].pc = "setup" /\ \A q \in Runs \ {r} : exec'[q] = exec[q]
      /\ UNCHANGED <<status, answer>>
  BY <1>1 DEF Launch, TypeOK, database
<1>3. handler'[p].pc = "idle" /\ \A q \in Replicas \ {p} : handler'[q] = handler[q]
  BY DEF Launch, TypeOK, Idle
<1>4. RunsInOrder' BY <1>2 DEF RunsInOrder
<1>5. BatchesComplete' BY <1>1, <1>2 DEF BatchesComplete, OpenCall
<1>6. LaunchIsFresh'
  <2> SUFFICES ASSUME NEW q \in Replicas, handler'[q].pc = "launch"
               PROVE  /\ exec'[handler'[q].run].pc = "none"
                      /\ \A c \in Calls : answer'[handler'[q].run][c] # "open"
    BY DEF LaunchIsFresh, Live, OpenCall
  <2>1. q # p /\ handler'[q] = handler[q] BY <1>3
  <2>2. handler[q].run \in Runs /\ handler[q].run # r BY <1>1, <2>1, LaunchedRun DEF LaunchOnce
  <2> QED BY <1>2, <2>1, <2>2 DEF LaunchIsFresh, Live, OpenCall
<1>7. UnstartedRunsIdle' BY <1>1, <1>2 DEF UnstartedRunsIdle, Live
<1>8. LaunchOnce' BY <1>2, <1>3 DEF LaunchOnce
<1> QED BY <1>4, <1>5, <1>6, <1>7, <1>8

\* An executor that issues or answers a call works on a run of its own.
LEMMA CallBatches ==
    ASSUME TypeOK, BatchInv, NEW r \in Runs, exec[r].pc # "none", status[r] # "none",
           UNCHANGED <<status, handler>>,
           \A q \in Runs \ {r} : answer'[q] = answer[q] /\ exec'[q] = exec[q],
           exec'[r].pc \in Between => ~OpenCall(r)'
    PROVE  BatchInv'
<1> USE DEF BatchInv, Batches
<1>1. RunsInOrder' BY DEF RunsInOrder
<1>2. BatchesComplete' BY DEF BatchesComplete, OpenCall, Between
<1>3. LaunchIsFresh'
  <2> SUFFICES ASSUME NEW p \in Replicas, handler[p].pc = "launch"
               PROVE  /\ exec'[handler[p].run].pc = "none"
                      /\ \A c \in Calls : answer'[handler[p].run][c] # "open"
    BY DEF LaunchIsFresh, Live, OpenCall
  <2>1. handler[p].run \in Runs /\ handler[p].run # r BY LaunchedRun DEF LaunchIsFresh, Live
  <2> QED BY <2>1 DEF LaunchIsFresh, Live, OpenCall
<1>4. UnstartedRunsIdle' BY DEF UnstartedRunsIdle, Live
<1>5. LaunchOnce' BY DEF LaunchOnce
<1> QED BY <1>1, <1>2, <1>3, <1>4, <1>5

\* Ending a run opens nothing.
LEMMA FinishBatches ==
    ASSUME TypeOK, NEW r \in Runs, FinishFailedRun(r) \/ FinishCancelledRun(r)
    PROVE  /\ \A q \in Runs : (status'[q] = "none") <=> (status[q] = "none")
           /\ \A q \in Runs : status'[q] = "running" => status[q] = "running"
           /\ \A q \in Runs : status[q] = "none" => answer'[q] = answer[q]
           /\ \A q \in Runs : OpenCall(q)' => OpenCall(q)
<1>1. ASSUME NEW st \in {"failed", "cancelled"}, NEW how \in {"interrupted", "cancelled"},
             status[r] \in Active, EndRun(r, st, how)
      PROVE  /\ \A q \in Runs : (status'[q] = "none") <=> (status[q] = "none")
             /\ \A q \in Runs : status'[q] = "running" => status[q] = "running"
             /\ \A q \in Runs : status[q] = "none" => answer'[q] = answer[q]
             /\ \A q \in Runs : OpenCall(q)' => OpenCall(q)
  <2>1. status' = [status EXCEPT ![r] = st] BY <1>1 DEF EndRun
  <2>2. \A q \in Runs \ {r} : answer'[q] = answer[q]
    BY <1>1 DEF EndRun, SettleCalls, TypeOK
  <2>3. \A c \in Calls : answer'[r][c] # "open"
    BY <1>1 DEF EndRun, SettleCalls, TypeOK
  <2>4. status[r] # "none" BY <1>1 DEF Active
  <2> QED BY <2>1, <2>2, <2>3, <2>4 DEF OpenCall, TypeOK
<1>2. CASE UNCHANGED <<status, answer>> BY <1>2 DEF OpenCall
<1> QED BY <1>1, <1>2 DEF FinishFailedRun, FinishCancelledRun, Active

\* The steps of a handler keep the batches.
LEMMA BatchesHandler ==
    ASSUME TypeOK, BatchInv, NEW p \in Replicas,
           HandlerStep(p) \/ DispatchBegin(p) \/ MonitorBegin(p) \/ \E i \in SendIds : SendBegin(p, i)
    PROVE  BatchInv'
<1> USE DEF database
<1>s. ASSUME NEW row, row.pc # "launch", handler' = [handler EXCEPT ![p] = row],
             UNCHANGED <<status, answer, exec>>
      PROVE  BatchInv'
  BY <1>s, BatchesStable DEF OpenCall, TypeOK
<1>r. Release(p) => handler' = [handler EXCEPT ![p] = Idle] BY DEF Release
<1>i. Idle.pc = "idle" BY DEF Idle
<1>1. CASE SendFound(p) \/ MonitorDone(p) \/ SendYields(p) \/ SendRejected(p) \/ ClaimNothing(p)
           \/ (\E i \in InputIds : ClaimHolds(p, i)) \/ AcquireFails(p)
  BY <1>1, <1>s, <1>r, <1>i
     DEF SendFound, MonitorDone, SendYields, SendRejected, ClaimNothing, ClaimHolds, AcquireFails
<1>2. CASE DispatchBegin(p) \/ MonitorBegin(p) \/ \E i \in SendIds : SendBegin(p, i)
  BY <1>2, <1>s DEF DispatchBegin, MonitorBegin, SendBegin
<1>3. CASE AcquireRun(p) \/ RecoverScan(p)
  <2>1. PICK pc \in {"owned", "recover"} : handler' = [handler EXCEPT ![p].pc = pc]
    BY <1>3 DEF AcquireRun, RecoverScan
  <2> QED BY <1>3, <2>1, BatchesStable DEF AcquireRun, RecoverScan, OpenCall, TypeOK, HandlerRow
<1>4. CASE \E r \in Runs : RecoverOne(p, r)
  BY <1>4, FinishBatches, BatchesStable DEF RecoverOne
<1>5. CASE LaunchRefused(p)
  <2>1. handler' = [handler EXCEPT ![p] = Idle] /\ exec' = exec BY <1>5, <1>r DEF LaunchRefused
  <2>2. \A q \in Replicas : handler'[q].pc = "launch" => handler'[q] = handler[q]
    BY <2>1, <1>i DEF TypeOK
  <2>3. handler[p].run \in Runs BY <1>5, LaunchedRun DEF LaunchRefused
  <2> QED BY <1>5, <2>1, <2>2, <2>3, FinishBatches, BatchesStable DEF LaunchRefused
<1>6. CASE \E r \in Runs : SendInsert(p, r)
  BY <1>6, InsertBatches DEF SendInsert, InsertRun
<1>7. CASE \E i \in InputIds, r \in Runs : ClaimQueuedInput(p, i, r)
  BY <1>7, InsertBatches DEF ClaimQueuedInput, InsertRun
<1>8. CASE Launch(p) BY <1>8, LaunchBatches
<1> QED BY <1>1, <1>2, <1>3, <1>4, <1>5, <1>6, <1>7, <1>8 DEF HandlerStep

\* The steps of an executor keep the batches.
LEMMA BatchesExec ==
    ASSUME TypeOK, BatchInv, NEW r \in Runs,
           ExecStep(r) \/ AskReturns(r) \/ StepFails(r) \/ ExecSignal(r)
    PROVE  BatchInv'
<1> USE DEF database
<1>g. ASSUME NEW pc, Goto(r, pc)
      PROVE  exec'[r].pc = pc /\ \A q \in Runs \ {r} : exec'[q] = exec[q]
  BY <1>g DEF Goto, TypeOK, ExecRow
<1>s. ASSUME NEW pc, Goto(r, pc), pc \in Between => exec[r].pc \in Between, exec[r].pc # "none",
             UNCHANGED <<status, answer, handler>>
      PROVE  BatchInv'
  BY <1>g, <1>s, BatchesStable DEF OpenCall
<1>1. CASE Setup(r) \/ FinishDeferred(r) BY <1>1, <1>s DEF Setup, FinishDeferred, At, Between
<1>2. CASE ApplyRunAdjustments(r) BY <1>2, <1>s DEF ApplyRunAdjustments, At, Between
<1>3. CASE ToolAsks(r) \/ AskReturns(r) \/ StepFails(r) \/ ReadStatus(r)
  BY <1>3, <1>s DEF ToolAsks, AskReturns, StepFails, ReadStatus, At, Between, Working
<1>4. CASE CancelObserved(r) \/ OwnershipLost(r) \/ ShutdownCancels(r)
  <2>0. PICK cause \in {"user", "lost", "shutdown"} : exec' = [exec EXCEPT ![r].cause = cause]
    BY <1>4 DEF CancelObserved, OwnershipLost, ShutdownCancels
  <2>1. \A q \in Runs : exec'[q].pc = exec[q].pc BY <2>0 DEF TypeOK, ExecRow
  <2>2. UNCHANGED <<status, answer, handler>>
    BY <1>4 DEF CancelObserved, OwnershipLost, ShutdownCancels
  <2> QED BY <2>1, <2>2, BatchesStable DEF OpenCall
<1>5. CASE Exit(r)
  <2>1. \A q \in Runs : exec'[q].pc \in {exec[q].pc, "none"} BY <1>5 DEF Exit, NoExec, TypeOK
  <2>2. UNCHANGED <<status, answer, handler>> BY <1>5 DEF Exit
  <2> QED BY <2>1, <2>2, BatchesStable DEF OpenCall, Between
<1>6. CASE RecordEnd(r)
  <2>1. Goto(r, "exit") /\ handler' = handler /\ exec[r].pc # "none" BY <1>6 DEF RecordEnd
  <2> QED BY <1>6, <1>g, <2>1, FinishBatches, BatchesStable DEF RecordEnd, Between
<1>7. CASE FinishCompletedRun(r)
  <2>1. Goto(r, "exit") /\ UNCHANGED <<handler, answer>> /\ exec[r].pc # "none"
        /\ status[r] = "running" /\ status' = [status EXCEPT ![r] = "completed"]
    BY <1>7 DEF FinishCompletedRun, At
  <2>2. \A q \in Runs : /\ (status'[q] = "none") <=> (status[q] = "none")
                        /\ status'[q] = "running" => status[q] = "running"
    BY <2>1 DEF TypeOK
  <2> QED BY <1>g, <2>1, <2>2, BatchesStable DEF Between, OpenCall
<1>8. CASE \E c \in Calls : ToolDone(r, c)
  <2> PICK c \in Calls : ToolDone(r, c) BY <1>8
  <2> DEFINE pc == IF \E d \in Calls \ {c} : answer[r][d] = "open" THEN "tools" ELSE "turn"
  <2>1. /\ answer' = [answer EXCEPT ![r][c] = "result"] /\ UNCHANGED <<status, handler>>
        /\ exec[r].pc # "none" /\ status[r] # "none" /\ Goto(r, pc)
    BY DEF ToolDone, At
  <2>2. exec'[r].pc = pc /\ \A q \in Runs \ {r} : exec'[q] = exec[q] BY <1>g, <2>1
  <2>3. \A q \in Runs \ {r} : answer'[q] = answer[q] BY <2>1 DEF TypeOK
  <2>4. pc = "turn" => ~OpenCall(r)' BY <2>1 DEF OpenCall, TypeOK
  <2>5. pc \in Between => pc = "turn" BY DEF Between
  <2> HIDE DEF pc
  <2> QED BY <2>1, <2>2, <2>3, <2>4, <2>5, CallBatches
<1>9. CASE \E batch \in SUBSET Calls : ModelAnswers(r, batch)
  <2> PICK batch \in SUBSET Calls : ModelAnswers(r, batch) BY <1>9
  <2> DEFINE pc == IF batch = {} THEN "finish" ELSE "tools"
  <2>1. /\ answer' = [answer EXCEPT ![r] = [c \in Calls |-> IF c \in batch THEN "open"
                                                                        ELSE answer[r][c]]]
        /\ UNCHANGED <<status, handler>>
        /\ exec[r].pc = "model" /\ status[r] = "running" /\ Goto(r, pc)
    BY DEF ModelAnswers, At
  <2>2. exec'[r].pc = pc /\ \A q \in Runs \ {r} : exec'[q] = exec[q] BY <1>g, <2>1
  <2>3. \A q \in Runs \ {r} : answer'[q] = answer[q] BY <2>1 DEF TypeOK
  <2>4. pc = "finish" => ~OpenCall(r)'
    BY <2>1 DEF OpenCall, TypeOK, BatchInv, Batches, BatchesComplete
  <2>5. pc \in Between => pc = "finish" BY DEF Between
  <2> HIDE DEF pc
  <2> QED BY <2>1, <2>2, <2>3, <2>4, <2>5, CallBatches
<1>10. CASE \E c \in Calls : ToolObserved(r, c)
  <2> PICK c \in Calls : ToolObserved(r, c) BY <1>10
  <2>1. /\ answer' = [answer EXCEPT ![r][c] = "cancelled"] /\ UNCHANGED <<status, handler>>
        /\ exec[r].pc # "none" /\ status[r] # "none" /\ Goto(r, "failing")
    BY DEF ToolObserved, Active
  <2>2. \A q \in Runs \ {r} : answer'[q] = answer[q] BY <2>1 DEF TypeOK
  <2> QED BY <1>g, <2>1, <2>2, CallBatches DEF Between
<1> QED
  BY <1>1, <1>2, <1>3, <1>4, <1>5, <1>6, <1>7, <1>8, <1>9, <1>10 DEF ExecStep, ExecSignal

\* Every step keeps the batches, the loss of a handler's session included.
LEMMA BatchesStep ==
    ASSUME TypeOK, BatchInv, [Next]_vars
    PROVE  BatchInv'
<1> USE DEF database
<1>u. ASSUME UNCHANGED <<answer, exec, handler>>,
             \A r \in Runs : (status'[r] = "none") <=> (status[r] = "none"),
             \A r \in Runs : status'[r] = "running" => status[r] = "running"
      PROVE  BatchInv'
  BY <1>u, BatchesStable DEF OpenCall
<1>1. CASE UNCHANGED vars BY <1>1, <1>u DEF vars
<1>2. CASE UserStep
  <2>1. UNCHANGED <<answer, exec, handler>>
    BY <1>2 DEF UserStep, CancelRun, RespondInteraction, AcceptRunInput, CancelInput, ResumeInput
  <2>2. /\ \A r \in Runs : (status'[r] = "none") <=> (status[r] = "none")
        /\ \A r \in Runs : status'[r] = "running" => status[r] = "running"
    BY <1>2 DEF UserStep, CancelRun, RespondInteraction, AcceptRunInput, CancelInput, ResumeInput,
                TypeOK
  <2> QED BY <1>u, <2>1, <2>2
<1>3. CASE FaultStep
  <2>1. UNCHANGED <<status, answer>>
    BY <1>3 DEF FaultStep, Crash, Restart, LoseProcess, ShutdownBegin, LoseHandlerSession,
                HandlerAborts, Release, LoseSession, RecordEndLost
  <2>2. \A p \in Replicas : handler'[p].pc = "launch" => handler'[p] = handler[p]
    BY <1>3 DEF FaultStep, Crash, Restart, LoseProcess, ShutdownBegin, LoseHandlerSession,
                HandlerAborts, Release, LoseSession, RecordEndLost, Idle, TypeOK
  <2>3. \A r \in Runs : \/ exec'[r].pc = exec[r].pc
                        \/ exec'[r].pc = "none"
                        \/ exec'[r].pc = "exit" /\ exec[r].pc # "none"
    <3>1. CASE \E p \in Replicas : LoseProcess(p)
      BY <3>1 DEF LoseProcess, NoExec, TypeOK
    <3>2. CASE \E r \in Runs : RecordEndLost(r)
      BY <3>2 DEF RecordEndLost, Goto, TypeOK, ExecRow
    <3> QED BY <1>3, <3>1, <3>2
            DEF FaultStep, Crash, Restart, ShutdownBegin, LoseHandlerSession, HandlerAborts, LoseSession
  <2>4. \A r \in Runs : /\ exec'[r].pc # "none" => exec[r].pc # "none"
                        /\ exec'[r].pc \in Between => exec[r].pc \in Between
    BY <2>3 DEF Between
  <2> QED BY <2>1, <2>2, <2>4, BatchesStable DEF OpenCall
<1> QED BY <1>1, <1>2, <1>3, BatchesHandler, BatchesExec DEF Next

-----------------------------------------------------------------------------
(* What ended left nothing open *)

NoOpenEnd == \A r \in Runs : status[r] \in Terminal => ~OpenCall(r)

LEMMA NoOpenEndStep ==
    ASSUME TypeOK, BatchInv, NoOpenEnd, [Next]_vars
    PROVE  NoOpenEnd'
<1>1. CASE Stays BY <1>1 DEF Stays, NoOpenEnd, OpenCall
<1>2. ASSUME NEW q \in Runs, Effect(q) PROVE NoOpenEnd'
  <2> SUFFICES ASSUME NEW r \in Runs, status'[r] \in Terminal
               PROVE  \A c \in Calls : answer'[r][c] # "open"
    BY DEF NoOpenEnd, OpenCall
  <2>1. CASE Completes(q)
    <3>1. ~OpenCall(q) BY <2>1 DEF Completes, At, BatchInv, Batches, BatchesComplete
    <3> QED BY <2>1, <3>1 DEF Completes, NoOpenEnd, OpenCall, TypeOK
  <2>2. CASE Contract!RequestStop(q)
    BY <2>2 DEF Contract!RequestStop, NoOpenEnd, OpenCall, TypeOK, Terminal
  <2>3. CASE Contract!Work(q)
    BY <2>3, SameNames DEF Contract!Work, Contract!OthersKeep, NoOpenEnd, OpenCall, Active, Terminal
  <2>4. CASE \E outcome \in {"failed", "cancelled"} : Contract!End(q, outcome)
    BY <2>4, SameNames DEF Contract!End, Contract!OthersKeep, NoOpenEnd, OpenCall, TypeOK
  <2> QED BY <1>2, <2>1, <2>2, <2>3, <2>4 DEF Effect
<1>3. ASSUME NEW q \in Runs, Begins(q) PROVE NoOpenEnd'
  BY <1>3 DEF Begins, NextRun, NoOpenEnd, OpenCall, TypeOK, Terminal
<1> QED BY <1>1, <1>2, <1>3, StepEffect

\* Nothing is put to the user for a run, and no adjustment waits for it.
Withdrawn(r) == r \notin asked /\ \A i \in InputIds : ~Pending(i, r)
AllWithdrawn == \A r \in Runs : status[r] # "running" => Withdrawn(r)

\* Steps that stop no run, and ask for and accept nothing.
LEMMA WithdrawnStable ==
    ASSUME AllWithdrawn, asked' \subseteq asked,
           \A r \in Runs, i \in InputIds : Pending(i, r)' => Pending(i, r),
           \A r \in Runs : status'[r] # "running" => status[r] # "running"
    PROVE  AllWithdrawn'
BY DEF AllWithdrawn, Withdrawn

\* A run that ends, or is to stop, withdraws what it asked and holds its inputs.
LEMMA EndWithdraws ==
    ASSUME TypeOK, AllWithdrawn, NEW r \in Runs, input' = HoldRunInputs(r), asked' = asked \ {r},
           \A q \in Runs \ {r} : status'[q] = status[q]
    PROVE  AllWithdrawn'
<1>1. \A i \in InputIds : ~Pending(i, r)'
  BY DEF HoldRunInputs, HeldBy, Pending, TypeOK, InputRow
<1>2. \A i \in InputIds, q \in Runs : Pending(i, q)' => Pending(i, q)
  BY DEF HoldRunInputs, HeldBy, Pending, TypeOK, InputRow
<1> QED BY <1>1, <1>2 DEF AllWithdrawn, Withdrawn

LEMMA FinishWithdraws ==
    ASSUME TypeOK, AllWithdrawn, NEW r \in Runs, FinishFailedRun(r) \/ FinishCancelledRun(r)
    PROVE  AllWithdrawn'
<1>1. ASSUME NEW st, NEW how, EndRun(r, st, how) PROVE AllWithdrawn'
  BY <1>1, EndWithdraws DEF EndRun, TypeOK
<1>2. CASE UNCHANGED <<status, input, asked>>
  BY <1>2, WithdrawnStable DEF Pending
<1> QED BY <1>1, <1>2 DEF FinishFailedRun, FinishCancelledRun

\* An input that changes its state, but not to pending, is awaited by nobody.
LEMMA InputLeaves ==
    ASSUME TypeOK, NEW i \in InputIds, NEW row, row.state # "pending",
           input' = [input EXCEPT ![i] = row]
    PROVE  \A r \in Runs, j \in InputIds : Pending(j, r)' => Pending(j, r)
BY DEF Pending, TypeOK

LEMMA WithdrawnHandler ==
    ASSUME TypeOK, AllWithdrawn, NEW p \in Replicas,
           HandlerStep(p) \/ DispatchBegin(p) \/ MonitorBegin(p) \/ \E i \in SendIds : SendBegin(p, i)
    PROVE  AllWithdrawn'
<1> USE DEF database
<1>1. CASE \E r \in Runs : RecoverOne(p, r) BY <1>1, FinishWithdraws DEF RecoverOne
<1>2. CASE LaunchRefused(p)
  BY <1>2, LaunchedRun, FinishWithdraws DEF LaunchRefused
<1>3. CASE \E r \in Runs : SendInsert(p, r)
  <2> PICK r \in Runs : SendInsert(p, r) BY <1>3
  <2>1. status' = [status EXCEPT ![r] = "running"] /\ UNCHANGED <<asked, input>>
    BY DEF SendInsert, InsertRun
  <2> QED BY <2>1, WithdrawnStable DEF Pending, TypeOK
<1>4. CASE \E i \in InputIds, r \in Runs : ClaimQueuedInput(p, i, r)
  <2> PICK i \in InputIds, r \in Runs : ClaimQueuedInput(p, i, r) BY <1>4
  <2>1. status' = [status EXCEPT ![r] = "running"] /\ UNCHANGED asked
        /\ input' = [input EXCEPT ![i] = [input[i] EXCEPT !.state = "started"]]
    BY DEF ClaimQueuedInput, InsertRun
  <2>2. [input[i] EXCEPT !.state = "started"].state # "pending" BY DEF TypeOK, InputRow
  <2>3. \A q \in Runs, j \in InputIds : Pending(j, q)' => Pending(j, q)
    BY <2>1, <2>2, InputLeaves
  <2> QED BY <2>1, <2>3, WithdrawnStable DEF TypeOK
<1>5. CASE \E i \in InputIds : ClaimHolds(p, i)
  <2> PICK i \in InputIds : ClaimHolds(p, i) BY <1>5
  <2>1. UNCHANGED <<status, asked>>
        /\ input' = [input EXCEPT ![i] = [input[i] EXCEPT !.state = "held"]]
    BY DEF ClaimHolds
  <2>2. [input[i] EXCEPT !.state = "held"].state # "pending" BY DEF TypeOK, InputRow
  <2>3. \A q \in Runs, j \in InputIds : Pending(j, q)' => Pending(j, q)
    BY <2>1, <2>2, InputLeaves
  <2> QED BY <2>1, <2>3, WithdrawnStable
<1>6. ASSUME UNCHANGED <<status, asked, input>> PROVE AllWithdrawn'
  BY <1>6, WithdrawnStable DEF Pending
<1> QED
  BY <1>1, <1>2, <1>3, <1>4, <1>5, <1>6
     DEF HandlerStep, DispatchBegin, MonitorBegin, SendBegin, AcquireRun, AcquireFails, SendFound,
         RecoverScan, MonitorDone, SendYields, SendRejected, ClaimNothing, Launch

LEMMA WithdrawnExec ==
    ASSUME TypeOK, AllWithdrawn, NEW r \in Runs,
           ExecStep(r) \/ AskReturns(r) \/ StepFails(r) \/ ExecSignal(r)
    PROVE  AllWithdrawn'
<1> USE DEF database
<1>1. CASE ApplyRunAdjustments(r)
  <2>1. \A i \in InputIds, q \in Runs : Pending(i, q)' => Pending(i, q)
    BY <1>1 DEF ApplyRunAdjustments, Pending, TypeOK, InputRow
  <2> QED BY <1>1, <2>1, WithdrawnStable DEF ApplyRunAdjustments
<1>2. CASE ToolAsks(r)
  <2>1. status[r] = "running" /\ asked' = asked \cup {r} /\ UNCHANGED <<status, input>>
    BY <1>2 DEF ToolAsks, At
  <2> QED BY <2>1 DEF AllWithdrawn, Withdrawn, Pending
<1>3. CASE FinishCompletedRun(r)
  <2>1. /\ status' = [status EXCEPT ![r] = "completed"] /\ asked' = asked \ {r}
        /\ UNCHANGED input /\ \A i \in InputIds : ~Pending(i, r)
    BY <1>3 DEF FinishCompletedRun, Unread
  <2> QED BY <2>1 DEF AllWithdrawn, Withdrawn, Pending, TypeOK
<1>4. CASE RecordEnd(r) BY <1>4, FinishWithdraws DEF RecordEnd
<1>5. ASSUME UNCHANGED <<status, asked, input>> PROVE AllWithdrawn'
  BY <1>5, WithdrawnStable DEF Pending
<1> QED
  BY <1>1, <1>2, <1>3, <1>4, <1>5
     DEF ExecStep, ExecSignal, AskReturns, StepFails, Setup, ModelAnswers, ToolDone,
         FinishDeferred, ToolObserved, ReadStatus, Exit, CancelObserved, OwnershipLost,
         ShutdownCancels

LEMMA WithdrawnUser ==
    ASSUME TypeOK, AllWithdrawn, UserStep
    PROVE  AllWithdrawn'
<1>1. CASE \E r \in Runs : CancelRun(r)
  BY <1>1, EndWithdraws DEF CancelRun, TypeOK
<1>2. CASE \E r \in Runs : RespondInteraction(r)
  BY <1>2, WithdrawnStable DEF RespondInteraction, Pending
<1>3. CASE \E i \in InputIds, r \in Runs, k \in {"adjust", "next"} : AcceptRunInput(i, r, k)
  <2> PICK i \in InputIds, r \in Runs, k \in {"adjust", "next"} : AcceptRunInput(i, r, k)
    BY <1>3
  <2>1. status[r] = "running" /\ status' = status /\ asked' \subseteq asked BY DEF AcceptRunInput
  <2> DEFINE row == [kind |-> k, state |-> IF k = "next" THEN "queued" ELSE "pending",
                     after |-> r, order |-> accepted', resumed |-> FALSE]
  <2>2. row.after = r OBVIOUS
  <2>3. input' = [input EXCEPT ![i] = row] BY Zenon DEF AcceptRunInput
  <2> HIDE DEF row
  <2>4. \A j \in InputIds, q \in Runs \ {r} : Pending(j, q)' => Pending(j, q)
    BY <2>2, <2>3 DEF Pending, TypeOK
  <2> QED BY <2>1, <2>4 DEF AllWithdrawn, Withdrawn
<1>4. CASE \E i \in InputIds : CancelInput(i)
  <2> PICK i \in InputIds : CancelInput(i) BY <1>4
  <2>1. UNCHANGED <<status, asked>>
        /\ input' = [input EXCEPT ![i] = [input[i] EXCEPT !.state = "cancelled"]]
    BY DEF CancelInput
  <2>2. [input[i] EXCEPT !.state = "cancelled"].state # "pending" BY DEF TypeOK, InputRow
  <2>3. \A q \in Runs, j \in InputIds : Pending(j, q)' => Pending(j, q)
    BY <2>1, <2>2, InputLeaves
  <2> QED BY <2>1, <2>3, WithdrawnStable
<1>5. CASE \E i \in InputIds : ResumeInput(i)
  <2> PICK i \in InputIds : ResumeInput(i) BY <1>5
  <2>1. UNCHANGED <<status, asked>>
        /\ input' = [input EXCEPT ![i] = [input[i] EXCEPT !.state = "queued", !.resumed = TRUE]]
    BY DEF ResumeInput
  <2>2. [input[i] EXCEPT !.state = "queued", !.resumed = TRUE].state # "pending"
    BY DEF TypeOK, InputRow
  <2>3. \A q \in Runs, j \in InputIds : Pending(j, q)' => Pending(j, q)
    BY <2>1, <2>2, InputLeaves
  <2> QED BY <2>1, <2>3, WithdrawnStable
<1> QED BY <1>1, <1>2, <1>3, <1>4, <1>5 DEF UserStep

LEMMA WithdrawnStep ==
    ASSUME TypeOK, AllWithdrawn, [Next]_vars
    PROVE  AllWithdrawn'
<1>1. ASSUME UNCHANGED <<status, asked, input>> PROVE AllWithdrawn'
  BY <1>1, WithdrawnStable DEF Pending
<1>2. CASE FaultStep
  BY <1>1, <1>2
     DEF FaultStep, Crash, Restart, LoseProcess, ShutdownBegin, LoseHandlerSession, HandlerAborts,
         Release, LoseSession, RecordEndLost, database
<1>3. CASE UNCHANGED vars BY <1>1, <1>3 DEF vars, database
<1> QED BY <1>2, <1>3, WithdrawnHandler, WithdrawnExec, WithdrawnUser DEF Next

\* However a run ends, and whatever is lost meanwhile, nothing of it stays open.
THEOREM SettledEnds == Spec => []EndedRunsSettled
<1>1. Init => NoOpenEnd /\ AllWithdrawn
  BY DEF Init, NoOpenEnd, OpenCall, AllWithdrawn, Withdrawn, Pending, NoInput
<1>2. NoOpenEnd /\ AllWithdrawn => EndedRunsSettled
  BY DEF NoOpenEnd, AllWithdrawn, Withdrawn, EndedRunsSettled
<1> QED
  BY <1>1, <1>2, BatchesInit, BatchesStep, NoOpenEndStep, WithdrawnStep, TypeCorrect, PTL DEF Spec

-----------------------------------------------------------------------------
(* The contract *)

\* Recovery, launch and executors keep both halves of OwnedBatches: the guard accounts for the
\* running run, and a run completes only with every one of its calls answered.
THEOREM SettledOwners == NoHandoffLoss /\ Spec => []OwnedBatches
<1> SUFFICES ASSUME NoHandoffLoss PROVE Spec => []OwnedBatches OBVIOUS
<1>1. TypeOK /\ Ownership /\ [Next]_vars => Ownership' BY OwnershipStep
<1>2. Ownership /\ BatchInv => OwnedBatches BY DEF BatchInv, OwnedBatches
<1> QED BY <1>1, <1>2, OwnershipInit, BatchesInit, BatchesStep, TypeCorrect, PTL DEF Spec

\* Guards, recovery, executors and faults together do to the runs what the contract allows.
THEOREM KeepsContract == NoHandoffLoss /\ Spec => ImplementsContract
<1> SUFFICES ASSUME NoHandoffLoss PROVE Spec => ImplementsContract OBVIOUS
<1>1. Init => Contract!Init BY SameNames DEF Init, Contract!Init
<1>2. ASSUME TypeOK, Ownership, BatchInv, [Next]_vars
      PROVE  [Contract!Next]_<<status, answer>>
  <2>1. ASSUME NEW r \in Runs, Effect(r) PROVE Contract!Next
    <3>1. CASE Completes(r)
      <4>1. ~OpenCall(r) BY <1>2, <3>1 DEF Completes, At, BatchInv, Batches, BatchesComplete
      <4>2. Contract!End(r, "completed")
        BY <3>1, <4>1, SameNames
           DEF Completes, At, Contract!End, Contract!Progress, Contract!OthersKeep, OpenCall
      <4> QED BY <4>2, SameNames DEF Contract!Next, Contract!Terminal
    <3> QED BY <2>1, <3>1, SameNames DEF Effect, Contract!Next, Contract!Terminal
  <2>2. ASSUME NEW r \in Runs, Begins(r) PROVE Contract!Next
    <3>1. \A q \in Runs : status[q] # "running" BY <1>2, <2>2, RecoveredNoneRunning DEF Begins
    <3>2. Contract!Start(r) BY <2>2, <3>1, SameNames DEF Begins, NextRun, Contract!Start
    <3> QED BY <3>2, SameNames DEF Contract!Next
  <2> QED BY <1>2, <2>1, <2>2, StepEffect DEF Stays
<1>3. TypeOK /\ Ownership /\ [Next]_vars => Ownership' BY OwnershipStep
<1> QED
  BY <1>1, <1>2, <1>3, OwnershipInit, BatchesInit, BatchesStep, TypeCorrect, PTL
     DEF Spec, ImplementsContract, Contract!Spec
-----------------------------------------------------------------------------
(* The queue does what its user was told *)

\* Nothing runs but the newest run.
NewestRuns == \A q, r \in Runs : (q < r /\ status[q] = "running") => status[r] = "none"

\* A started input has become a run, so no message may use its id again.
StartedHasRun == \A i \in InputIds : input[i].state = "started" => UsedIdentity(i)

\* What is accepted next comes behind everything accepted before.
OrderTrue == \A i \in InputIds : input[i].order <= accepted

\* An input waits, unasked, only while the chain of runs it was queued behind has not broken:
\* every end but success holds the whole queue.
Chained(i) ==
    /\ input[i].after \in Runs /\ status[input[i].after] # "none"
    /\ \A q \in Runs : input[i].after <= q => status[q] \in {"none", "running", "completed"}
ChainIntact == \A i \in InputIds : Queued(i) /\ ~input[i].resumed => Chained(i)

QueueInv == NewestRuns /\ StartedHasRun /\ OrderTrue /\ ChainIntact /\ QueueHonest

\* An input keeps its place, and neither joins the queue nor starts.
Rests(i) ==
    /\ input'[i].order = input[i].order
    /\ input'[i] = input[i] \/ input'[i].state \in {"held", "applied", "cancelled"}

\* A step that starts nothing: either no run leaves the chain of successes, or no input is queued.
LEMMA QueueStable ==
    ASSUME TypeOK, QueueInv, UNCHANGED <<subm, accepted>>,
           \A i \in InputIds : Rests(i),
           \A r \in Runs : (status'[r] = "none") <=> (status[r] = "none"),
           \A r \in Runs : status'[r] = "running" => status[r] = "running",
           \A r \in Runs : status[r] = "completed" => status'[r] = "completed",
           \/ \A i \in InputIds : ~Queued(i)'
           \/ \A r \in Runs : status[r] = "running" => status'[r] \in {"running", "completed"}
    PROVE  QueueInv'
<1> USE DEF QueueInv
<1>1. \A i \in InputIds : /\ Queued(i)' => Queued(i) /\ input'[i] = input[i]
                          /\ input'[i].state = "started" => input'[i] = input[i]
  BY DEF Rests, Queued
<1>2. NewestRuns' BY DEF NewestRuns
<1>3. StartedHasRun' BY <1>1 DEF StartedHasRun, UsedIdentity
<1>4. OrderTrue' BY DEF OrderTrue, Rests
<1>5. ChainIntact' BY <1>1 DEF ChainIntact, Chained
<1>6. NoSilentLaunch' BY <1>1 DEF QueueHonest, NoSilentLaunch
<1>7. QueueOrder' BY <1>1 DEF QueueHonest, QueueOrder
<1> QED BY <1>2, <1>3, <1>4, <1>5, <1>6, <1>7 DEF QueueHonest

\* A step that leaves the inputs and the runs alone.
LEMMA QueueSame ==
    ASSUME TypeOK, QueueInv, UNCHANGED <<status, subm, input, accepted>>
    PROVE  QueueInv'
BY QueueStable DEF Rests

\* A run that ends, or is to stop, holds every queued input.
LEMMA HoldRests ==
    ASSUME TypeOK, NEW r \in Runs, input' = HoldRunInputs(r)
    PROVE  \A i \in InputIds : Rests(i) /\ ~Queued(i)'
BY DEF HoldRunInputs, HeldBy, Rests, Queued, TypeOK, InputRow

\* Finishing a run holds the queue, or finds the run ended.
LEMMA FinishQueue ==
    ASSUME TypeOK, QueueInv, NEW r \in Runs, FinishFailedRun(r) \/ FinishCancelledRun(r),
           UNCHANGED <<subm, accepted>>
    PROVE  QueueInv'
<1>1. ASSUME NEW st \in {"failed", "cancelled"}, NEW how, status[r] \in Active, EndRun(r, st, how)
      PROVE  QueueInv'
  <2>1. status' = [status EXCEPT ![r] = st] /\ input' = HoldRunInputs(r) BY <1>1 DEF EndRun
  <2>2. \A i \in InputIds : Rests(i) /\ ~Queued(i)' BY <2>1, HoldRests
  <2>3. \A q \in Runs : /\ (status'[q] = "none") <=> (status[q] = "none")
                        /\ status'[q] = "running" => status[q] = "running"
                        /\ status[q] = "completed" => status'[q] = "completed"
    BY <1>1, <2>1 DEF TypeOK, Active
  <2> QED BY <2>2, <2>3, QueueStable
<1>2. CASE UNCHANGED <<status, input>> BY <1>2, QueueSame
<1> QED BY <1>1, <1>2 DEF FinishFailedRun, FinishCancelledRun, Active

\* A run begins when nothing runs: it is the newest, and the chain of the waiting inputs now
\* ends with it.
LEMMA InsertQueue ==
    ASSUME TypeOK, Ownership, BatchInv, Identities, QueueInv,
           NEW p \in Replicas, handler[p].pc = "recover", todo[p] = NoTodo,
           NEW r \in Runs, NEW id \in Ids, ~UsedIdentity(id), InsertRun(r, id)
    PROVE  /\ NewestRuns'
           /\ \A i \in InputIds : UsedIdentity(i) => UsedIdentity(i)'
           /\ UsedIdentity(id)'
           /\ \A i \in InputIds : Chained(i) =>
                  /\ input[i].after \in Runs /\ status'[input[i].after] # "none"
                  /\ \A q \in Runs : input[i].after <= q => status'[q] \in {"none", "running", "completed"}
           /\ \A q \in Runs : status[q] = "completed" => status'[q] = "completed"
           /\ \A s \in Runs : subm'[s] = id => s = r
           /\ \A s \in Runs : subm'[s] # id => s # r /\ subm'[s] = subm[s]
<1>1. /\ status[r] = "none" /\ status'[r] = "running"
      /\ \A q \in Runs \ {r} : status'[q] = status[q]
  BY DEF InsertRun, NextRun, TypeOK
<1>2. subm'[r] = id /\ \A q \in Runs \ {r} : subm'[q] = subm[q] BY DEF InsertRun, TypeOK
<1>3. \A q \in Runs : status[q] # "running" BY RecoveredNoneRunning
<1>4. \A q \in Runs : r < q => status[q] = "none" BY <1>1 DEF BatchInv, Batches, RunsInOrder
<1>5. NewestRuns'
  <2> SUFFICES ASSUME NEW q \in Runs, NEW s \in Runs, q < s, status'[q] = "running"
               PROVE  status'[s] = "none"
    BY DEF NewestRuns
  <2>1. q = r BY <1>1, <1>3
  <2>2. s # r BY <2>1, Constants
  <2> QED BY <1>1, <1>4, <2>1, <2>2
<1>6. id # NoId BY ConstantsOK DEF ConstantsOK
<1>7. \A s \in Runs \ {r} : subm[s] # id BY <1>6 DEF UsedIdentity, Identities
<1>8. \A i \in InputIds : UsedIdentity(i) => UsedIdentity(i)' BY <1>1, <1>2 DEF UsedIdentity
<1>9. UsedIdentity(id)' BY <1>1, <1>2 DEF UsedIdentity
<1>10. ASSUME NEW i \in InputIds, Chained(i)
       PROVE  /\ input[i].after \in Runs /\ status'[input[i].after] # "none"
              /\ \A q \in Runs : input[i].after <= q => status'[q] \in {"none", "running", "completed"}
  BY <1>1, <1>10 DEF Chained
<1> QED BY <1>1, <1>2, <1>5, <1>7, <1>8, <1>9, <1>10

LEMMA SendQueue ==
    ASSUME TypeOK, Ownership, BatchInv, Identities, QueueInv,
           NEW p \in Replicas, NEW r \in Runs, SendInsert(p, r)
    PROVE  QueueInv'
<1> USE DEF QueueInv
<1> DEFINE id == handler[p].id
<1>1. /\ handler[p].pc = "recover" /\ todo[p] = NoTodo /\ ~UsedIdentity(id) /\ InsertRun(r, id)
      /\ UNCHANGED <<input, accepted>>
  BY DEF SendInsert, Recovered
<1>2. id \in Ids BY DEF SendInsert, Recovered, TypeOK, HandlerRow, Ids
<1> HIDE DEF id
<1>3. StartedHasRun' BY <1>1, <1>2, InsertQueue DEF StartedHasRun
<1>4. OrderTrue' /\ QueueOrder' BY <1>1 DEF OrderTrue, QueueHonest, QueueOrder, Queued
<1>5. ChainIntact' BY <1>1, <1>2, InsertQueue DEF ChainIntact, Chained, Queued
<1>6. NoSilentLaunch'
  <2> SUFFICES ASSUME NEW i \in InputIds, NEW s \in Runs, input[i].state = "started",
                      ~input[i].resumed, subm'[s] = i,
                      NEW q \in Runs, input[i].after <= q, q < s
               PROVE  status'[q] = "completed"
    BY <1>1 DEF NoSilentLaunch
  <2>1. i # id BY <1>1 DEF StartedHasRun
  <2>2. subm[s] = i BY <1>1, <1>2, <2>1, InsertQueue
  <2>3. status[q] = "completed" BY <2>2 DEF QueueHonest, NoSilentLaunch
  <2> QED BY <1>1, <1>2, <2>3, InsertQueue
<1> QED BY <1>1, <1>2, <1>3, <1>4, <1>5, <1>6, InsertQueue DEF QueueHonest

\* The head of the queue starts behind an unbroken chain, or because its user resumed it.
LEMMA ClaimQueue ==
    ASSUME TypeOK, Ownership, BatchInv, Identities, QueueInv,
           NEW p \in Replicas, NEW i \in InputIds, NEW r \in Runs, ClaimQueuedInput(p, i, r)
    PROVE  QueueInv'
<1> USE DEF QueueInv
<1>1. /\ handler[p].pc = "recover" /\ todo[p] = NoTodo /\ ~UsedIdentity(i) /\ InsertRun(r, i)
      /\ accepted' = accepted /\ Head(i) /\ \A q \in Runs : status[q] \notin Active
  BY DEF ClaimQueuedInput, Recovered
<1>2. i \in Ids BY DEF Ids
<1>3. /\ input'[i].state = "started" /\ input'[i].order = input[i].order
      /\ input'[i].resumed = input[i].resumed /\ input'[i].after = input[i].after
      /\ \A j \in InputIds \ {i} : input'[j] = input[j]
  BY DEF ClaimQueuedInput, TypeOK, InputRow
<1>4. StartedHasRun' BY <1>1, <1>2, <1>3, InsertQueue DEF StartedHasRun
<1>5. OrderTrue' BY <1>1, <1>3 DEF OrderTrue
<1>6. \A j \in InputIds : Queued(j)' => j # i /\ Queued(j) BY <1>3 DEF Queued
<1>7. QueueOrder'
  <2> SUFFICES ASSUME NEW x \in InputIds, NEW y \in InputIds, input'[x].state = "started",
                      Queued(y)', input'[y].order < input'[x].order
               PROVE  input'[y].resumed
    BY DEF QueueOrder
  <2>1. y # i /\ Queued(y) /\ input'[y] = input[y] BY <1>3, <1>6
  <2>2. input[i].order <= input[y].order BY <1>1, <2>1 DEF Head
  <2>3. input[i].order \in Nat /\ input[y].order \in Nat BY DEF TypeOK, InputRow
  <2>4. x # i BY <1>3, <2>1, <2>2, <2>3
  <2> QED BY <1>3, <2>1, <2>4 DEF QueueHonest, QueueOrder
<1>8. ChainIntact'
  <2> SUFFICES ASSUME NEW j \in InputIds, Queued(j)', ~input'[j].resumed PROVE Chained(j)'
    BY DEF ChainIntact
  <2>1. Queued(j) /\ input'[j] = input[j] BY <1>3, <1>6
  <2>2. Chained(j) BY <2>1 DEF ChainIntact
  <2> QED BY <1>1, <1>2, <2>1, <2>2, InsertQueue DEF Chained
<1>9. NoSilentLaunch'
  <2> SUFFICES ASSUME NEW j \in InputIds, NEW s \in Runs, input'[j].state = "started",
                      ~input'[j].resumed, subm'[s] = j,
                      NEW q \in Runs, input'[j].after <= q, q < s
               PROVE  status'[q] = "completed"
    BY DEF NoSilentLaunch
  <2>1. CASE j = i
    <3>1. s = r BY <1>1, <1>2, <2>1, InsertQueue
    <3>2. Chained(i) BY <1>1, <1>3, <2>1 DEF ChainIntact, Head
    <3>3. status[q] \in {"none", "running", "completed"} BY <1>3, <2>1, <3>2 DEF Chained
    <3>4. status[q] # "none" BY <1>1, <3>1 DEF InsertRun, NextRun
    <3>5. status[q] # "running" BY <1>1 DEF Active
    <3> QED BY <1>1, <1>2, <3>3, <3>4, <3>5, InsertQueue
  <2>2. CASE j # i
    <3>1. subm[s] = j BY <1>1, <1>2, <2>2, InsertQueue
    <3>2. status[q] = "completed" BY <1>3, <2>2, <3>1 DEF QueueHonest, NoSilentLaunch
    <3> QED BY <1>1, <1>2, <3>2, InsertQueue
  <2> QED BY <2>1, <2>2
<1> QED BY <1>1, <1>2, <1>4, <1>5, <1>7, <1>8, <1>9, InsertQueue DEF QueueHonest

\* A row whose state becomes another than queued or started rests.
LEMMA RowRests ==
    ASSUME TypeOK, NEW i \in InputIds, NEW st \in {"held", "cancelled"},
           input' = [input EXCEPT ![i].state = st]
    PROVE  \A j \in InputIds : Rests(j)
BY DEF Rests, TypeOK, InputRow

LEMMA QueueHandler ==
    ASSUME TypeOK, Ownership, BatchInv, Identities, QueueInv, NEW p \in Replicas,
           HandlerStep(p) \/ DispatchBegin(p) \/ MonitorBegin(p) \/ \E i \in SendIds : SendBegin(p, i)
    PROVE  QueueInv'
<1> USE DEF database
<1>1. CASE \E r \in Runs : RecoverOne(p, r) BY <1>1, FinishQueue DEF RecoverOne
<1>2. CASE LaunchRefused(p) BY <1>2, LaunchedRun, FinishQueue DEF LaunchRefused
<1>3. CASE \E r \in Runs : SendInsert(p, r) BY <1>3, SendQueue
<1>4. CASE \E i \in InputIds, r \in Runs : ClaimQueuedInput(p, i, r) BY <1>4, ClaimQueue
<1>5. CASE \E i \in InputIds : ClaimHolds(p, i)
  <2>1. \A j \in InputIds : Rests(j) BY <1>5, RowRests DEF ClaimHolds
  <2> QED BY <1>5, <2>1, QueueStable DEF ClaimHolds
<1>6. ASSUME UNCHANGED <<status, subm, input, accepted>> PROVE QueueInv' BY <1>6, QueueSame
<1> QED
  BY <1>1, <1>2, <1>3, <1>4, <1>5, <1>6
     DEF HandlerStep, DispatchBegin, MonitorBegin, SendBegin, AcquireRun, AcquireFails, SendFound,
         RecoverScan, MonitorDone, SendYields, SendRejected, ClaimNothing, Launch

LEMMA QueueExec ==
    ASSUME TypeOK, QueueInv, NEW r \in Runs,
           ExecStep(r) \/ AskReturns(r) \/ StepFails(r) \/ ExecSignal(r)
    PROVE  QueueInv'
<1> USE DEF database
<1>1. CASE ApplyRunAdjustments(r)
  <2>1. \A i \in InputIds : Rests(i)
    BY <1>1 DEF ApplyRunAdjustments, Rests, TypeOK, InputRow
  <2> QED BY <1>1, <2>1, QueueStable DEF ApplyRunAdjustments
<1>2. CASE FinishCompletedRun(r)
  <2>1. status[r] = "running" /\ status' = [status EXCEPT ![r] = "completed"]
        /\ UNCHANGED <<subm, input, accepted>>
    BY <1>2 DEF FinishCompletedRun, At
  <2>2. \A q \in Runs : /\ (status'[q] = "none") <=> (status[q] = "none")
                        /\ status'[q] = "running" => status[q] = "running"
                        /\ status[q] = "completed" => status'[q] = "completed"
                        /\ status[q] = "running" => status'[q] \in {"running", "completed"}
    BY <2>1 DEF TypeOK
  <2>3. \A i \in InputIds : Rests(i) BY <2>1 DEF Rests
  <2> QED BY <2>1, <2>2, <2>3, QueueStable
<1>3. CASE RecordEnd(r) BY <1>3, FinishQueue DEF RecordEnd
<1>4. ASSUME UNCHANGED <<status, subm, input, accepted>> PROVE QueueInv' BY <1>4, QueueSame
<1> QED
  BY <1>1, <1>2, <1>3, <1>4
     DEF ExecStep, ExecSignal, AskReturns, StepFails, Setup, ModelAnswers, ToolDone, ToolAsks,
         FinishDeferred, ToolObserved, ReadStatus, Exit, CancelObserved, OwnershipLost,
         ShutdownCancels

\* An input is accepted behind the newest run, which runs: its chain is that run.
LEMMA AcceptQueue ==
    ASSUME TypeOK, QueueInv, NEW i \in InputIds, NEW r \in Runs, NEW k \in {"adjust", "next"},
           AcceptRunInput(i, r, k)
    PROVE  QueueInv'
<1> USE DEF QueueInv
<1> DEFINE row == [kind |-> k, state |-> IF k = "next" THEN "queued" ELSE "pending",
                   after |-> r, order |-> accepted + 1, resumed |-> FALSE]
<1>1. /\ input' = [input EXCEPT ![i] = row] /\ accepted' = accepted + 1
      /\ status[r] = "running" /\ UNCHANGED <<status, subm>>
  BY Zenon DEF AcceptRunInput
<1>2. row.state \in {"queued", "pending"} /\ row.after = r /\ row.order = accepted + 1 OBVIOUS
<1> HIDE DEF row
<1>3. input'[i] = row /\ \A j \in InputIds \ {i} : input'[j] = input[j] BY <1>1 DEF TypeOK
<1>4. accepted \in Nat /\ \A j \in InputIds : input[j].order \in Nat /\ input[j].order <= accepted
  BY DEF TypeOK, InputRow, OrderTrue
<1>5. NewestRuns' BY <1>1 DEF NewestRuns
<1>6. StartedHasRun' BY <1>1, <1>2, <1>3 DEF StartedHasRun, UsedIdentity
<1>7. OrderTrue' BY <1>1, <1>2, <1>3, <1>4 DEF OrderTrue
<1>8. ChainIntact'
  <2> SUFFICES ASSUME NEW j \in InputIds, Queued(j)', ~input'[j].resumed PROVE Chained(j)'
    BY DEF ChainIntact
  <2>1. CASE j = i
    <3>1. \A q \in Runs : r <= q => status[q] \in {"none", "running"}
      BY <1>1, Constants DEF NewestRuns
    <3> QED BY <1>1, <1>2, <1>3, <2>1, <3>1 DEF Chained
  <2>2. CASE j # i BY <1>1, <1>3, <2>2 DEF ChainIntact, Chained, Queued
  <2> QED BY <2>1, <2>2
<1>9. NoSilentLaunch' BY <1>1, <1>2, <1>3 DEF QueueHonest, NoSilentLaunch
<1>10. QueueOrder'
  <2> SUFFICES ASSUME NEW x \in InputIds, NEW y \in InputIds, input'[x].state = "started",
                      Queued(y)', input'[y].order < input'[x].order
               PROVE  input'[y].resumed
    BY DEF QueueOrder
  <2>1. x # i BY <1>2, <1>3
  <2>2. y # i BY <1>2, <1>3, <1>4, <2>1
  <2> QED BY <1>3, <2>1, <2>2 DEF QueueHonest, QueueOrder, Queued
<1> QED BY <1>5, <1>6, <1>7, <1>8, <1>9, <1>10 DEF QueueHonest

LEMMA QueueUser ==
    ASSUME TypeOK, QueueInv, UserStep
    PROVE  QueueInv'
<1>1. CASE \E r \in Runs : CancelRun(r)
  <2> PICK r \in Runs : CancelRun(r) BY <1>1
  <2>1. status[r] = "running" /\ status' = [status EXCEPT ![r] = "cancelling"]
        /\ input' = HoldRunInputs(r) /\ UNCHANGED <<subm, accepted>>
    BY DEF CancelRun
  <2>2. \A q \in Runs : /\ (status'[q] = "none") <=> (status[q] = "none")
                        /\ status'[q] = "running" => status[q] = "running"
                        /\ status[q] = "completed" => status'[q] = "completed"
    BY <2>1 DEF TypeOK
  <2> QED BY <2>1, <2>2, HoldRests, QueueStable
<1>2. CASE \E r \in Runs : RespondInteraction(r) BY <1>2, QueueSame DEF RespondInteraction
<1>3. CASE \E i \in InputIds, r \in Runs, k \in {"adjust", "next"} : AcceptRunInput(i, r, k)
  BY <1>3, AcceptQueue
<1>4. CASE \E i \in InputIds : CancelInput(i)
  <2>1. \A j \in InputIds : Rests(j) BY <1>4, RowRests DEF CancelInput
  <2> QED BY <1>4, <2>1, QueueStable DEF CancelInput
<1>5. CASE \E i \in InputIds : ResumeInput(i)
  <2> PICK i \in InputIds : ResumeInput(i) BY <1>5
  <2>1. /\ input'[i].state = "queued" /\ input'[i].resumed = TRUE
        /\ input'[i].order = input[i].order
        /\ \A j \in InputIds \ {i} : input'[j] = input[j]
        /\ UNCHANGED <<status, subm, accepted>>
    BY DEF ResumeInput, TypeOK, InputRow
  <2> USE DEF QueueInv
  <2>2. NewestRuns' BY <2>1 DEF NewestRuns
  <2>3. StartedHasRun' BY <2>1 DEF StartedHasRun, UsedIdentity
  <2>4. OrderTrue' BY <2>1 DEF OrderTrue
  <2>5. ChainIntact' BY <2>1 DEF ChainIntact, Chained, Queued
  <2>6. NoSilentLaunch' BY <2>1 DEF QueueHonest, NoSilentLaunch
  <2>7. QueueOrder' BY <2>1 DEF QueueHonest, QueueOrder, Queued
  <2> QED BY <2>2, <2>3, <2>4, <2>5, <2>6, <2>7 DEF QueueHonest
<1> QED BY <1>1, <1>2, <1>3, <1>4, <1>5 DEF UserStep

LEMMA QueueStep ==
    ASSUME TypeOK, Ownership, BatchInv, Identities, QueueInv, [Next]_vars
    PROVE  QueueInv'
<1>1. CASE FaultStep
  BY <1>1, QueueSame
     DEF FaultStep, Crash, Restart, LoseProcess, ShutdownBegin, LoseHandlerSession, HandlerAborts,
         Release, LoseSession, RecordEndLost, database
<1>2. CASE UNCHANGED vars BY <1>2, QueueSame DEF vars, database
<1> QED BY <1>1, <1>2, QueueHandler, QueueExec, QueueUser DEF Next

\* Whatever is stopped, crashes or is recovered, on however many replicas: nothing that was queued
\* starts behind a run that did not complete, and what starts, starts in the order accepted,
\* unless its user resumed it.
THEOREM HonestQueue == NoHandoffLoss /\ Spec => []QueueHonest
<1> SUFFICES ASSUME NoHandoffLoss PROVE Spec => []QueueHonest OBVIOUS
<1>1. Init => QueueInv
  BY DEF Init, QueueInv, NewestRuns, StartedHasRun, OrderTrue, ChainIntact, QueueHonest,
         NoSilentLaunch, QueueOrder, Queued, NoInput
<1>2. Init => Identities BY DEF Init, Identities, OneRunPerSubmission
<1>3. TypeOK /\ Ownership /\ [Next]_vars => Ownership' BY OwnershipStep
<1>4. QueueInv => QueueHonest BY DEF QueueInv
<1> QED
  BY <1>1, <1>2, <1>3, <1>4, OwnershipInit, BatchesInit, BatchesStep, IdentitiesKept, QueueStep,
     TypeCorrect, PTL DEF Spec
-----------------------------------------------------------------------------
(* Every new message finds a settled transcript, unless a stop meets a recovery *)

\* No stop is accepted between the scan of an owner that repairs the conversation and what it
\* starts next.  The code does not exclude it, and recovery_races_stop shows what then happens:
\* the recovery passes over the run, and a message starts behind a run that is being cancelled.
NoStopInRecovery ==
    [][(\E r \in Runs : status[r] = "running" /\ status'[r] = "cancelling")
           => \A p \in Replicas : handler[p].pc # "recover"]_vars

\* What a recovery still has to do includes every run that is being cancelled.
StopSeen ==
    \A p \in Replicas, r \in Runs :
        handler[p].pc = "recover" /\ status[r] = "cancelling" => todo[p][r] = "cancelling"

OlderEnded ==
    \A q, r \in Runs : q < r /\ status[r] # "none" => status[q] \in Terminal

TranscriptInv == StopSeen /\ OlderEnded /\ TranscriptIntact

\* What a step may do to the recoveries at work.
RecoveryKept ==
    \A p \in Replicas :
        \/ handler'[p].pc # "recover"
        \/ /\ handler[p].pc = "recover"
           /\ \A r \in Runs : todo'[p][r] = todo[p][r] \/ status'[r] # "cancelling"
        \/ \A r \in Runs : status'[r] = "cancelling" => todo'[p][r] = "cancelling"

\* A step scans, or works off what its scan found.
LEMMA RecoverySteps ==
    ASSUME TypeOK, StopSeen, [Next]_vars
    PROVE  RecoveryKept
<1> USE DEF database, RecoveryKept
<1>1. ASSUME UNCHANGED <<handler, todo>> PROVE RecoveryKept BY <1>1
<1>2. ASSUME NEW p \in Replicas, NEW row, row.pc # "recover",
             handler' = [handler EXCEPT ![p] = row],
             \A q \in Replicas \ {p} : todo'[q] = todo[q]
      PROVE  RecoveryKept
  BY <1>2 DEF TypeOK
<1>3. Idle.pc = "idle" BY DEF Idle
<1>4. ASSUME NEW p \in Replicas, Release(p) PROVE RecoveryKept
  BY <1>2, <1>3, <1>4 DEF Release, TypeOK
<1>5. ASSUME NEW p \in Replicas,
             HandlerStep(p) \/ DispatchBegin(p) \/ MonitorBegin(p) \/ \E i \in SendIds : SendBegin(p, i)
      PROVE  RecoveryKept
  <2>1. CASE DispatchBegin(p) \/ MonitorBegin(p) \/ \E i \in SendIds : SendBegin(p, i)
    BY <1>2, <2>1 DEF DispatchBegin, MonitorBegin, SendBegin
  <2>2. CASE AcquireRun(p) BY <2>2 DEF AcquireRun, TypeOK, HandlerRow
  <2>3. CASE RecoverScan(p)
    BY <2>3 DEF RecoverScan, Abandoned, Active, TypeOK, HandlerRow
  <2>4. CASE \E r \in Runs : RecoverOne(p, r)
    <3> PICK r \in Runs : RecoverOne(p, r) BY <2>4
    <3>1. handler' = handler /\ \A q \in Replicas, x \in Runs :
              todo'[q][x] = todo[q][x] \/ (q = p /\ x = r)
      BY DEF RecoverOne, TypeOK
    <3>2. handler[p].pc = "recover" BY DEF RecoverOne
    <3>3. status'[r] # "cancelling"
      BY <3>2 DEF RecoverOne, FinishFailedRun, FinishCancelledRun, EndRun, TypeOK, Active, StopSeen
    <3> QED BY <3>1, <3>2, <3>3
  <2>5. CASE (\E r \in Runs : SendInsert(p, r)) \/ (\E i \in InputIds, r \in Runs : ClaimQueuedInput(p, i, r))
    <3>1. \E r \in Runs : handler' = [handler EXCEPT ![p].pc = "launch", ![p].run = r] /\ todo' = todo
      BY <2>5 DEF SendInsert, ClaimQueuedInput
    <3>2. handler'[p].pc = "launch" /\ \A q \in Replicas \ {p} : handler'[q] = handler[q]
      BY <3>1 DEF TypeOK, HandlerRow
    <3> QED BY <3>1, <3>2
  <2>6. CASE Launch(p) \/ AcquireFails(p) BY <1>2, <1>3, <2>6 DEF Launch, AcquireFails
  <2> QED
    BY <1>4, <1>5, <2>1, <2>2, <2>3, <2>4, <2>5, <2>6
       DEF HandlerStep, SendFound, MonitorDone, SendYields, SendRejected, ClaimNothing, ClaimHolds,
           LaunchRefused
<1>6. ASSUME NEW p \in Replicas, LoseProcess(p) PROVE RecoveryKept
  BY <1>2, <1>3, <1>6 DEF LoseProcess, TypeOK
<1> QED
  BY <1>1, <1>4, <1>5, <1>6
     DEF Next, vars, ExecStep, ExecSignal, AskReturns, StepFails, Setup, ApplyRunAdjustments,
         ModelAnswers, ToolDone, ToolAsks, FinishCompletedRun, FinishDeferred, ToolObserved,
         ReadStatus, RecordEnd, Exit, CancelObserved, OwnershipLost, ShutdownCancels,
         UserStep, CancelRun, RespondInteraction, AcceptRunInput, CancelInput, ResumeInput,
         FaultStep, Crash, Restart, ShutdownBegin, LoseHandlerSession, HandlerAborts, LoseSession,
         RecordEndLost
\* A user message is appended by an insertion, behind a finished recovery, or at the head of a turn.
LEMMA TornSteps ==
    ASSUME TypeOK, [Next]_vars
    PROVE  \/ torn' = torn
           \/ /\ \E p \in Replicas : handler[p].pc = "recover" /\ todo[p] = NoTodo
              /\ torn' = (torn \/ \E q \in Runs : OpenCall(q))
           \/ /\ \E r \in Runs : At(r, "turn")
              /\ torn' = (torn \/ \E q \in Runs : OpenCall(q))
<1> USE DEF database
<1>1. ASSUME NEW p \in Replicas, NEW r \in Runs, SendInsert(p, r)
      PROVE  /\ handler[p].pc = "recover" /\ todo[p] = NoTodo
             /\ torn' = (torn \/ \E q \in Runs : OpenCall(q))
  BY <1>1, Zenon DEF SendInsert, Recovered, InsertRun
<1>2. ASSUME NEW p \in Replicas, NEW i \in InputIds, NEW r \in Runs, ClaimQueuedInput(p, i, r)
      PROVE  /\ handler[p].pc = "recover" /\ todo[p] = NoTodo
             /\ torn' = (torn \/ \E q \in Runs : OpenCall(q))
  BY <1>2, Zenon DEF ClaimQueuedInput, Recovered, InsertRun
<1>3. ASSUME NEW r \in Runs, ApplyRunAdjustments(r)
      PROVE  At(r, "turn") /\ (torn' = torn \/ torn' = (torn \/ \E q \in Runs : OpenCall(q)))
  <2>1. At(r, "turn") /\ torn' = (torn \/ (Unread(r) /\ \E q \in Runs : OpenCall(q)))
    BY <1>3, Zenon DEF ApplyRunAdjustments
  <2>2. torn \in BOOLEAN BY DEF TypeOK
  <2> QED BY <2>1, <2>2, Zenon
<1> QED
  BY <1>1, <1>2, <1>3, Zenon
     DEF Next, vars, HandlerStep, DispatchBegin, MonitorBegin, SendBegin, AcquireRun, AcquireFails,
         SendFound, RecoverScan, RecoverOne, MonitorDone, SendYields, SendRejected, ClaimNothing,
         ClaimHolds, Launch, LaunchRefused,
         ExecStep, ExecSignal, AskReturns, StepFails, Setup,
         ModelAnswers, ToolDone, ToolAsks, FinishCompletedRun, FinishDeferred, ToolObserved,
         ReadStatus, RecordEnd, Exit, CancelObserved, OwnershipLost, ShutdownCancels,
         UserStep, CancelRun, RespondInteraction, AcceptRunInput, CancelInput, ResumeInput,
         FaultStep, Crash, Restart, LoseProcess, ShutdownBegin, LoseHandlerSession, HandlerAborts,
         LoseSession, RecordEndLost

\* Where a recovery has finished, and at the head of a turn, no call is open.
LEMMA NothingOpen ==
    ASSUME TypeOK, Ownership, BatchInv, NoOpenEnd, TranscriptInv,
           \/ \E p \in Replicas : handler[p].pc = "recover" /\ todo[p] = NoTodo
           \/ \E r \in Runs : At(r, "turn")
    PROVE  \A q \in Runs : ~OpenCall(q)
<1> SUFFICES ASSUME NEW q \in Runs PROVE ~OpenCall(q) OBVIOUS
<1>1. status[q] = "none" => ~OpenCall(q)
  BY DEF BatchInv, Batches, BatchesComplete, OpenCall
<1>2. status[q] \in Terminal => ~OpenCall(q) BY DEF NoOpenEnd
<1>3. CASE \E p \in Replicas : handler[p].pc = "recover" /\ todo[p] = NoTodo
  <2> PICK p \in Replicas : handler[p].pc = "recover" /\ todo[p] = NoTodo BY <1>3
  <2>1. status[q] # "running" BY RecoveredNoneRunning
  <2>2. status[q] # "cancelling" BY DEF TranscriptInv, StopSeen, NoTodo
  <2> QED BY <1>1, <1>2, <2>1, <2>2 DEF TypeOK, RunStatus, Active, Terminal
<1>4. CASE \E r \in Runs : At(r, "turn")
  <2> PICK r \in Runs : At(r, "turn") BY <1>4
  <2>1. status[r] = "running" /\ ~OpenCall(r)
    BY DEF At, BatchInv, Batches, BatchesComplete
  <2>2. CASE q = r BY <2>1, <2>2
  <2>3. CASE q < r BY <1>2, <2>1, <2>3 DEF TranscriptInv, OlderEnded
  <2>4. CASE r < q
    <3>1. status[q] = "none" BY <2>1, <2>4 DEF TranscriptInv, OlderEnded, Terminal
    <3> QED BY <1>1, <3>1
  <2> QED BY <2>2, <2>3, <2>4, Constants
<1> QED BY <1>3, <1>4

\* A run begins where every older one has ended.
LEMMA OlderEndedStep ==
    ASSUME TypeOK, Ownership, BatchInv, TranscriptInv, [Next]_vars
    PROVE  OlderEnded'
<1> SUFFICES ASSUME NEW q \in Runs, NEW r \in Runs, q < r, status'[r] # "none"
             PROVE  status'[q] \in Terminal
  BY DEF OlderEnded
<1>1. CASE Stays BY <1>1 DEF Stays, TranscriptInv, OlderEnded
<1>2. CASE \E x \in Runs : Effect(x)
  <2> PICK x \in Runs : Effect(x) BY <1>2
  <2>1. \A y \in Runs : /\ status'[y] = "none" <=> status[y] = "none"
                        /\ status[y] \in Terminal => status'[y] \in Terminal
    BY DEF Effect, Contract!RequestStop, Contract!Work, Contract!End, Completes, At, TypeOK,
           Terminal, Contract!Terminal, Contract!Active
  <2> QED BY <2>1 DEF TranscriptInv, OlderEnded
<1>3. CASE \E x \in Runs : Begins(x)
  <2> PICK x \in Runs : Begins(x) BY <1>3
  <2>1. PICK p \in Replicas : handler[p].pc = "recover" /\ todo[p] = NoTodo BY DEF Begins
  <2>2. NextRun(x) /\ status' = [status EXCEPT ![x] = "running"] BY DEF Begins
  <2>3. \A y \in Runs : status[y] # "running" BY <2>1, RecoveredNoneRunning
  <2>4. \A y \in Runs : status[y] # "cancelling" BY <2>1 DEF TranscriptInv, StopSeen, NoTodo
  <2>5. \A y \in Runs : y < x => status[y] \in Terminal
    BY <2>2, <2>3, <2>4 DEF NextRun, TypeOK, RunStatus, Active
  <2>6. \A y \in Runs \ {x} : status'[y] = status[y] BY <2>2 DEF TypeOK
  <2>7. CASE r = x
    <3>1. q # x BY <2>7, Constants
    <3> QED BY <2>5, <2>6, <2>7, <3>1
  <2>8. CASE r # x
    <3>1. status[q] \in Terminal BY <2>6, <2>8 DEF TranscriptInv, OlderEnded
    <3>2. q # x BY <2>2, <3>1 DEF NextRun, Terminal
    <3> QED BY <2>6, <3>1, <3>2
  <2> QED BY <2>7, <2>8
<1> QED BY <1>1, <1>2, <1>3, StepEffect

\* No stop slips past a recovery.
LEMMA StopSeenStep ==
    ASSUME TypeOK, StopSeen, [Next]_vars,
           (\E r \in Runs : status[r] = "running" /\ status'[r] = "cancelling")
               => \A p \in Replicas : handler[p].pc # "recover"
    PROVE  StopSeen'
<1> SUFFICES ASSUME NEW p \in Replicas, NEW r \in Runs, handler'[p].pc = "recover",
                    status'[r] = "cancelling"
             PROVE  todo'[p][r] = "cancelling"
  BY DEF StopSeen
<1>1. status[r] \in {"running", "cancelling"}
  <2>1. CASE Stays BY <2>1 DEF Stays
  <2>2. CASE \E x \in Runs : Effect(x)
    BY <2>2 DEF Effect, Contract!RequestStop, Contract!Work, Contract!End, Completes, At, TypeOK
  <2>3. CASE \E x \in Runs : Begins(x) BY <2>3 DEF Begins, TypeOK
  <2> QED BY <2>1, <2>2, <2>3, StepEffect
<1>2. RecoveryKept BY RecoverySteps
<1> QED BY <1>1, <1>2 DEF RecoveryKept, StopSeen

\* Unless a stop is accepted while an owner repairs the conversation, every run starts behind a
\* settled past and in a transcript whose calls all have results: recovery, launch, retries and
\* faults never leave a call open in front of a message.
THEOREM SettledTranscript == NoHandoffLoss /\ Spec /\ NoStopInRecovery => []TranscriptSettled
<1> SUFFICES ASSUME NoHandoffLoss PROVE Spec /\ NoStopInRecovery => []TranscriptSettled OBVIOUS
<1> DEFINE Quiet == (\E r \in Runs : status[r] = "running" /\ status'[r] = "cancelling")
                        => \A p \in Replicas : handler[p].pc # "recover"
<1>1. Init => NoOpenEnd /\ TranscriptInv
  BY DEF Init, NoOpenEnd, OpenCall, TranscriptInv, StopSeen, OlderEnded, TranscriptIntact
<1>2. TypeOK /\ Ownership /\ [Next]_vars => Ownership' BY OwnershipStep
<1>3. ASSUME TypeOK, Ownership, BatchInv, NoOpenEnd, TranscriptInv, [Next]_vars, [Quiet]_vars
      PROVE  TranscriptInv'
  <2>1. Quiet
    <3>1. CASE UNCHANGED vars BY <3>1 DEF vars, database
    <3> QED BY <1>3, <3>1
  <2>2. StopSeen' BY <1>3, <2>1, StopSeenStep DEF TranscriptInv
  <2>3. OlderEnded' BY <1>3, OlderEndedStep
  <2>4. TranscriptIntact'
    BY <1>3, TornSteps, NothingOpen, Zenon DEF TranscriptInv, TranscriptIntact
  <2> QED BY <2>2, <2>3, <2>4 DEF TranscriptInv
<1>4. NoOpenEnd /\ TranscriptInv => TranscriptSettled
  BY DEF NoOpenEnd, TranscriptInv, OlderEnded, TranscriptSettled, OlderRunsSettled
<1> QED
  BY <1>1, <1>2, <1>3, <1>4, OwnershipInit, BatchesInit, BatchesStep, NoOpenEndStep, TypeCorrect,
     PTL DEF Spec, NoStopInRecovery
=============================================================================
