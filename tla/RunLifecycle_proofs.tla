------------------------- MODULE RunLifecycle_proofs -------------------------
(***************************************************************************)
(* Proofs about RunLifecycle, for any number of replicas, runs, calls and  *)
(* inputs and any number of faults.                                        *)
(***************************************************************************)
EXTENDS RunLifecycle, TLAPS

\* What the assumptions on the constants say of the sets they build.
LEMMA Constants ==
    /\ MaxRuns \in Nat /\ Runs \subseteq Nat /\ 0 \notin Runs
    /\ NoId \notin SendIds /\ Free \notin Replicas /\ Free \notin Runs
    /\ Replicas \cap Runs = {}
BY ConstantsOK, SMT DEF ConstantsOK, Runs, Ids

-----------------------------------------------------------------------------
(* Types *)

\* Holding inputs keeps run_inputs a table of inputs.
LEMMA HoldType ==
    ASSUME TypeOK, NEW r \in Runs
    PROVE  HoldRunInputs(r) \in [InputIds -> InputRow]
BY DEF TypeOK, HoldRunInputs, HeldBy, InputRow

\* Settling the open calls of a run keeps the table of answers.
LEMMA SettleType ==
    ASSUME TypeOK, NEW r \in Runs, NEW how \in Answers
    PROVE  SettleCalls(r, how) \in [Runs -> [Calls -> Answers]]
BY DEF TypeOK, SettleCalls

\* The part of the state that the end of a run rewrites.
EndTyped ==
    /\ status' \in [Runs -> RunStatus]
    /\ answer' \in [Runs -> [Calls -> Answers]]
    /\ input' \in [InputIds -> InputRow]
    /\ asked' \in SUBSET Runs

LEMMA EndType ==
    ASSUME TypeOK, NEW r \in Runs
    PROVE  /\ FinishFailedRun(r) => EndTyped
           /\ FinishCancelledRun(r) => EndTyped
<1>1. ASSUME NEW st \in RunStatus, NEW how \in Answers, EndRun(r, st, how) PROVE EndTyped
  BY <1>1, HoldType, SettleType DEF EndRun, EndTyped, TypeOK
<1>2. "failed" \in RunStatus /\ "cancelled" \in RunStatus /\ "interrupted" \in Answers
      /\ "cancelled" \in Answers
  BY DEF RunStatus, Active, Terminal, Answers
<1> QED BY <1>1, <1>2 DEF FinishFailedRun, FinishCancelledRun, EndTyped, TypeOK

\* Rewriting a field of a row keeps the tables.
LEMMA InputStateType ==
    ASSUME NEW f \in [InputIds -> InputRow], NEW i \in InputIds,
           NEW st \in {"held", "started", "cancelled", "queued"}
    PROVE  [f EXCEPT ![i].state = st] \in [InputIds -> InputRow]
BY DEF InputRow

LEMMA HandlerLaunchType ==
    ASSUME NEW f \in [Replicas -> HandlerRow], NEW p \in Replicas, NEW r \in Runs
    PROVE  [f EXCEPT ![p].pc = "launch", ![p].run = r] \in [Replicas -> HandlerRow]
BY DEF HandlerRow

LEMMA ApplyType ==
    ASSUME NEW f \in [InputIds -> InputRow], NEW P
    PROVE  [i \in InputIds |-> IF i \in P THEN [f[i] EXCEPT !.state = "applied"] ELSE f[i]]
               \in [InputIds -> InputRow]
BY DEF InputRow

LEMMA AnswerType ==
    ASSUME NEW f \in [Runs -> [Calls -> Answers]], NEW r \in Runs, NEW c \in Calls,
           NEW how \in {"result", "cancelled"}
    PROVE  [f EXCEPT ![r][c] = how] \in [Runs -> [Calls -> Answers]]
BY DEF Answers

\* The executor moves on.
LEMMA GotoType ==
    ASSUME exec \in [Runs -> ExecRow], NEW r \in Runs,
           NEW pc \in Working \cup {"failing", "to_cancelled", "to_failed", "exit"}, Goto(r, pc)
    PROVE  exec' \in [Runs -> ExecRow]
BY DEF Goto, ExecRow

LEMMA CauseType ==
    ASSUME exec \in [Runs -> ExecRow], NEW r \in Runs, NEW cause \in {"user", "lost", "shutdown"},
           exec' = [exec EXCEPT ![r].cause = cause]
    PROVE  exec' \in [Runs -> ExecRow]
BY DEF ExecRow

\* A new run keeps the tables of runs.
LEMMA InsertType ==
    ASSUME TypeOK, NEW r \in Runs, NEW id \in Ids, InsertRun(r, id)
    PROVE  /\ status' \in [Runs -> RunStatus]
           /\ subm' \in [Runs -> Ids \cup {NoId}]
           /\ torn' \in BOOLEAN
<1>1. torn' \in BOOLEAN BY Zenon DEF InsertRun
<1>2. "running" \in RunStatus BY DEF RunStatus, Active
<1> QED BY <1>1, <1>2 DEF InsertRun, TypeOK

LEMMA TypeInit == Init => TypeOK
<1> SUFFICES ASSUME Init PROVE TypeOK OBVIOUS
<1>1. status \in [Runs -> RunStatus] /\ subm \in [Runs -> Ids \cup {NoId}]
      /\ answer \in [Runs -> [Calls -> Answers]]
  BY DEF Init, RunStatus, Answers
<1>2. torn \in BOOLEAN /\ asked \in SUBSET Runs /\ accepted \in Nat /\ faults \in Nat
      /\ stopping \in SUBSET Replicas /\ guard \in Replicas \cup Runs \cup {Free}
  BY DEF Init
<1>3. input \in [InputIds -> InputRow] BY DEF Init, NoInput, InputRow
<1>4. handler \in [Replicas -> HandlerRow]
  BY DEF Init, Idle, HandlerRow
<1>5. todo \in [Replicas -> [Runs -> Active \cup {"none"}]] BY DEF Init, NoTodo
<1>6. exec \in [Runs -> ExecRow] BY DEF Init, NoExec, ExecRow
<1> QED BY <1>1, <1>2, <1>3, <1>4, <1>5, <1>6 DEF TypeOK

\* The steps of a handler keep the types.
LEMMA TypeHandler ==
    ASSUME TypeOK, NEW p \in Replicas,
           HandlerStep(p) \/ DispatchBegin(p) \/ MonitorBegin(p) \/ \E i \in SendIds : SendBegin(p, i)
    PROVE  TypeOK'
<1> USE DEF database, TypeOK
<1>r. Release(p) => /\ guard' \in Replicas \cup Runs \cup {Free}
                    /\ handler' \in [Replicas -> HandlerRow]
                    /\ todo' \in [Replicas -> [Runs -> Active \cup {"none"}]]
  BY DEF Release, Idle, NoTodo, HandlerRow
<1>1. CASE DispatchBegin(p) BY <1>1 DEF DispatchBegin, HandlerRow
<1>2. CASE MonitorBegin(p) BY <1>2 DEF MonitorBegin, HandlerRow
<1>3. CASE \E i \in SendIds : SendBegin(p, i) BY <1>3 DEF SendBegin, HandlerRow
<1>4. CASE AcquireRun(p) BY <1>4 DEF AcquireRun, HandlerRow
<1>5. CASE AcquireFails(p) BY <1>5 DEF AcquireFails, Idle, HandlerRow
<1>6. CASE SendFound(p) BY <1>6, <1>r DEF SendFound
<1>7. CASE RecoverScan(p) BY <1>7 DEF RecoverScan, Abandoned, HandlerRow
<1>8. CASE \E r \in Runs : RecoverOne(p, r)
  <2> SUFFICES ASSUME NEW r \in Runs, RecoverOne(p, r) PROVE TypeOK' BY <1>8
  <2>1. EndTyped BY EndType DEF RecoverOne
  <2> QED BY <2>1 DEF RecoverOne, EndTyped
<1>9. CASE MonitorDone(p) BY <1>9, <1>r DEF MonitorDone
<1>10. CASE SendYields(p) BY <1>10, <1>r DEF SendYields
<1>11. CASE SendRejected(p) BY <1>11, <1>r DEF SendRejected
<1>12. CASE \E r \in Runs : SendInsert(p, r)
  <2> SUFFICES ASSUME NEW r \in Runs, SendInsert(p, r) PROVE TypeOK' BY <1>12
  <2>1. handler[p].id \in Ids BY DEF SendInsert, Recovered, Ids, HandlerRow
  <2>2. handler' \in [Replicas -> HandlerRow] BY HandlerLaunchType DEF SendInsert
  <2> QED BY <2>1, <2>2, InsertType DEF SendInsert
<1>13. CASE ClaimNothing(p) BY <1>13, <1>r DEF ClaimNothing
<1>14. CASE \E i \in InputIds : ClaimHolds(p, i)
  <2> SUFFICES ASSUME NEW i \in InputIds, ClaimHolds(p, i) PROVE TypeOK' BY <1>14
  <2>1. input' \in [InputIds -> InputRow] BY InputStateType DEF ClaimHolds
  <2> QED BY <2>1, <1>r DEF ClaimHolds
<1>15. CASE \E i \in InputIds, r \in Runs : ClaimQueuedInput(p, i, r)
  <2> SUFFICES ASSUME NEW i \in InputIds, NEW r \in Runs, ClaimQueuedInput(p, i, r) PROVE TypeOK'
    BY <1>15
  <2>1. i \in Ids BY DEF Ids
  <2>2. handler' \in [Replicas -> HandlerRow] BY HandlerLaunchType DEF ClaimQueuedInput
  <2>3. input' \in [InputIds -> InputRow] BY InputStateType DEF ClaimQueuedInput
  <2> QED BY <2>1, <2>2, <2>3, InsertType DEF ClaimQueuedInput
<1>16. CASE Launch(p) BY <1>16 DEF Launch, Idle, ExecRow, Working, HandlerRow
<1>17. CASE LaunchRefused(p) BY <1>17, <1>r, EndType DEF LaunchRefused, EndTyped, HandlerRow
<1> QED
  BY <1>1, <1>2, <1>3, <1>4, <1>5, <1>6, <1>7, <1>8, <1>9, <1>10, <1>11, <1>12, <1>13, <1>14,
     <1>15, <1>16, <1>17 DEF HandlerStep

\* The steps of an executor keep the types.
LEMMA TypeExec ==
    ASSUME TypeOK, NEW r \in Runs,
           ExecStep(r) \/ AskReturns(r) \/ StepFails(r) \/ ExecSignal(r)
    PROVE  TypeOK'
<1> USE DEF database, TypeOK
<1>1. CASE Setup(r) BY <1>1, GotoType DEF Setup, Working
<1>2. CASE ApplyRunAdjustments(r)
  <2>1. torn' \in BOOLEAN BY <1>2, Zenon DEF ApplyRunAdjustments
  <2>2. input' \in [InputIds -> InputRow]
    <3> DEFINE P == {i \in InputIds : Pending(i, r)}
    <3>1. input' = [i \in InputIds |-> IF i \in P THEN [input[i] EXCEPT !.state = "applied"]
                                                  ELSE input[i]]
      BY <1>2 DEF ApplyRunAdjustments
    <3> QED BY <3>1, ApplyType
  <2>3. exec' \in [Runs -> ExecRow] BY <1>2, GotoType DEF ApplyRunAdjustments, Working
  <2> QED BY <1>2, <2>1, <2>2, <2>3 DEF ApplyRunAdjustments
<1>3. CASE \E batch \in SUBSET Calls : ModelAnswers(r, batch)
  <2> SUFFICES ASSUME NEW batch \in SUBSET Calls, ModelAnswers(r, batch) PROVE TypeOK' BY <1>3
  <2>1. answer' \in [Runs -> [Calls -> Answers]] BY DEF ModelAnswers, Answers
  <2>2. exec' \in [Runs -> ExecRow] BY GotoType DEF ModelAnswers, Working
  <2> QED BY <2>1, <2>2 DEF ModelAnswers
<1>4. CASE \E c \in Calls : ToolDone(r, c)
  <2> SUFFICES ASSUME NEW c \in Calls, ToolDone(r, c) PROVE TypeOK' BY <1>4
  <2>1. answer' \in [Runs -> [Calls -> Answers]] BY AnswerType DEF ToolDone
  <2>2. exec' \in [Runs -> ExecRow] BY GotoType DEF ToolDone, Working
  <2> QED BY <2>1, <2>2 DEF ToolDone
<1>5. CASE ToolAsks(r) BY <1>5, GotoType DEF ToolAsks, Working
<1>6. CASE FinishCompletedRun(r)
  <2>1. exec' \in [Runs -> ExecRow] BY <1>6, GotoType DEF FinishCompletedRun
  <2> QED BY <1>6, <2>1 DEF FinishCompletedRun, RunStatus, Terminal
<1>7. CASE FinishDeferred(r) BY <1>7, GotoType DEF FinishDeferred, Working
<1>8. CASE \E c \in Calls : ToolObserved(r, c)
  <2> SUFFICES ASSUME NEW c \in Calls, ToolObserved(r, c) PROVE TypeOK' BY <1>8
  <2>1. answer' \in [Runs -> [Calls -> Answers]] BY AnswerType DEF ToolObserved
  <2>2. exec' \in [Runs -> ExecRow] BY GotoType DEF ToolObserved
  <2> QED BY <2>1, <2>2 DEF ToolObserved
<1>9. CASE ReadStatus(r) BY <1>9, GotoType DEF ReadStatus
<1>10. CASE RecordEnd(r)
  <2>1. EndTyped BY <1>10, EndType DEF RecordEnd
  <2>2. exec' \in [Runs -> ExecRow] BY <1>10, GotoType DEF RecordEnd
  <2> QED BY <1>10, <2>1, <2>2 DEF RecordEnd, EndTyped
<1>11. CASE Exit(r) BY <1>11 DEF Exit, NoExec, ExecRow
<1>12. CASE AskReturns(r) BY <1>12, GotoType DEF AskReturns, Working
<1>13. CASE StepFails(r) BY <1>13, GotoType DEF StepFails
<1>14. CASE CancelObserved(r) BY <1>14, CauseType DEF CancelObserved
<1>15. CASE OwnershipLost(r) BY <1>15, CauseType DEF OwnershipLost
<1>16. CASE ShutdownCancels(r) BY <1>16, CauseType DEF ShutdownCancels
<1> QED
  BY <1>1, <1>2, <1>3, <1>4, <1>5, <1>6, <1>7, <1>8, <1>9, <1>10, <1>11, <1>12, <1>13, <1>14,
     <1>15, <1>16 DEF ExecStep, ExecSignal

\* What users do keeps the types.
LEMMA TypeUser ==
    ASSUME TypeOK, UserStep
    PROVE  TypeOK'
<1> USE DEF database, TypeOK
<1>1. CASE \E r \in Runs : CancelRun(r)
  BY <1>1, HoldType DEF CancelRun, RunStatus, Active
<1>2. CASE \E r \in Runs : RespondInteraction(r) BY <1>2 DEF RespondInteraction
<1>3. CASE \E i \in InputIds, r \in Runs, k \in {"adjust", "next"} : AcceptRunInput(i, r, k)
  <2> SUFFICES ASSUME NEW i \in InputIds, NEW r \in Runs, NEW k \in {"adjust", "next"},
                      AcceptRunInput(i, r, k)
               PROVE  TypeOK'
    BY <1>3
  <2>1. accepted' \in Nat BY DEF AcceptRunInput
  <2>2. input' \in [InputIds -> InputRow] BY <2>1 DEF AcceptRunInput, InputRow
  <2> QED BY <2>1, <2>2 DEF AcceptRunInput
<1>4. CASE \E i \in InputIds : CancelInput(i)
  <2> SUFFICES ASSUME NEW i \in InputIds, CancelInput(i) PROVE TypeOK' BY <1>4
  <2>1. input' \in [InputIds -> InputRow] BY InputStateType DEF CancelInput
  <2> QED BY <2>1 DEF CancelInput
<1>5. CASE \E i \in InputIds : ResumeInput(i)
  <2> SUFFICES ASSUME NEW i \in InputIds, ResumeInput(i) PROVE TypeOK' BY <1>5
  <2>1. [input[i] EXCEPT !.state = "queued", !.resumed = TRUE] \in InputRow BY DEF InputRow
  <2>2. input' \in [InputIds -> InputRow] BY <2>1 DEF ResumeInput
  <2> QED BY <2>2 DEF ResumeInput
<1> QED BY <1>1, <1>2, <1>3, <1>4, <1>5 DEF UserStep

\* Faults keep the types.
LEMMA TypeFault ==
    ASSUME TypeOK, FaultStep
    PROVE  TypeOK'
<1> USE DEF database, TypeOK
<1>1. ASSUME NEW p \in Replicas, LoseProcess(p), faults' \in Nat PROVE TypeOK'
  BY <1>1 DEF LoseProcess, Idle, HandlerRow, NoTodo, NoExec, ExecRow
<1>2. CASE \E p \in Replicas : Crash(p) BY <1>2, <1>1 DEF Crash, Fault
<1>3. CASE \E p \in Replicas : Restart(p) BY <1>3, <1>1 DEF Restart
<1>4. CASE \E p \in Replicas : ShutdownBegin(p) BY <1>4 DEF ShutdownBegin, Fault
<1>5. CASE \E p \in Replicas : LoseHandlerSession(p) BY <1>5 DEF LoseHandlerSession, Fault
<1>6. CASE \E p \in Replicas : HandlerAborts(p)
  BY <1>6 DEF HandlerAborts, Fault, Release, Idle, HandlerRow, NoTodo
<1>7. CASE \E r \in Runs : LoseSession(r) BY <1>7 DEF LoseSession, Fault
<1>8. CASE \E r \in Runs : RecordEndLost(r) BY <1>8, GotoType DEF RecordEndLost, Fault
<1> QED BY <1>2, <1>3, <1>4, <1>5, <1>6, <1>7, <1>8 DEF FaultStep

\* Type correctness: every row, lock and goroutine keeps its shape.
THEOREM TypeCorrect == Spec => []TypeOK
<1>1. TypeOK /\ [Next]_vars => TypeOK'
  <2> SUFFICES ASSUME TypeOK, [Next]_vars PROVE TypeOK' OBVIOUS
  <2>1. CASE UNCHANGED vars BY <2>1 DEF vars, database, TypeOK
  <2>2. CASE Next BY <2>2, TypeHandler, TypeExec, TypeUser, TypeFault DEF Next
  <2> QED BY <2>1, <2>2
<1> QED BY <1>1, TypeInit, PTL DEF Spec

-----------------------------------------------------------------------------
(* Ownership: at most one run is running *)

NoHandoffLoss == "handoff" \notin FaultKinds

\* The step starts no run; only the two insertions do.
NoNewRunning == \A r \in Runs : status'[r] = "running" => status[r] = "running"

LEMMA OwnershipInit == Init => Ownership
BY Constants DEF Init, Ownership, AtMostOneRunning, HandlersHoldGuard, Owned, Idle

\* Finishing a run starts none, and leaves that run not running.
LEMMA FinishEffect ==
    ASSUME TypeOK, NEW r \in Runs, FinishFailedRun(r) \/ FinishCancelledRun(r)
    PROVE  NoNewRunning /\ status'[r] # "running"
BY DEF TypeOK, FinishFailedRun, FinishCancelledRun, EndRun, NoNewRunning, Active

\* Whoever releases the guard leaves it free, and no handler then holds it.
LEMMA ReleaseKeeps ==
    ASSUME TypeOK, Ownership, NEW p \in Replicas, guard = p, Release(p), NoNewRunning
    PROVE  Ownership'
BY Constants
   DEF TypeOK, Ownership, AtMostOneRunning, HandlersHoldGuard, Owned, Release, NoNewRunning, Idle

\* Steps that leave the guard and the handlers alone.
LEMMA SameOwner ==
    ASSUME Ownership, NoNewRunning, UNCHANGED <<guard, handler, todo>>
    PROVE  Ownership'
BY DEF Ownership, AtMostOneRunning, HandlersHoldGuard, Owned, NoNewRunning

\* A handler in any phase after acquireRun holds the guard.
LEMMA HolderHasGuard ==
    ASSUME Ownership, NEW p \in Replicas, handler[p].pc \in {"owned", "recover", "launch"}
    PROVE  guard = p
BY DEF Ownership, HandlersHoldGuard

\* An insertion meets no running run: recovery has left none.
LEMMA RecoveredNoneRunning ==
    ASSUME TypeOK, Ownership, NEW p \in Replicas, handler[p].pc = "recover", todo[p] = NoTodo
    PROVE  \A r \in Runs : status[r] # "running"
<1> SUFFICES ASSUME NEW r \in Runs, status[r] = "running" PROVE FALSE OBVIOUS
<1>1. guard = p BY HolderHasGuard
<1>2. Owned(r) BY DEF Ownership
<1>3. todo[p][r] = "none" BY DEF NoTodo
<1> QED BY <1>1, <1>2, <1>3, Constants DEF Owned

LEMMA InsertOwned ==
    ASSUME TypeOK, Ownership, NEW p \in Replicas, NEW r \in Runs,
           handler[p].pc = "recover", todo[p] = NoTodo,
           status' = [status EXCEPT ![r] = "running"], UNCHANGED <<guard, todo>>,
           handler' = [handler EXCEPT ![p].pc = "launch", ![p].run = r]
    PROVE  Ownership'
<1>1. \A q \in Runs : status'[q] = "running" <=> q = r
  BY RecoveredNoneRunning DEF TypeOK
<1>2. guard = p BY HolderHasGuard
<1>3. handler'[p].pc = "launch" /\ handler'[p].run = r
      /\ \A q \in Replicas \ {p} : handler'[q] = handler[q]
  BY DEF TypeOK, HandlerRow
<1>4. AtMostOneRunning' BY <1>1 DEF AtMostOneRunning
<1>5. HandlersHoldGuard' BY <1>2, <1>3 DEF Ownership, HandlersHoldGuard
<1>6. Owned(r)' BY <1>2, <1>3 DEF Owned
<1> QED BY <1>1, <1>4, <1>5, <1>6 DEF Ownership

\* The steps of a handler keep ownership.
LEMMA OwnershipHandler ==
    ASSUME TypeOK, Ownership, NEW p \in Replicas,
           HandlerStep(p) \/ DispatchBegin(p) \/ MonitorBegin(p) \/ \E i \in SendIds : SendBegin(p, i)
    PROVE  Ownership'
<1> USE DEF database
<1>b. ASSUME handler[p].pc = "idle", NEW op, NEW id,
             handler' = [handler EXCEPT ![p] = [pc |-> "begin", op |-> op, id |-> id, run |-> 0]],
             UNCHANGED <<status, guard, todo>>
      PROVE  Ownership'
  BY <1>b DEF TypeOK, Ownership, AtMostOneRunning, HandlersHoldGuard, Owned
<1>r. ASSUME handler[p].pc \in {"owned", "recover", "launch"}, Release(p), NoNewRunning
      PROVE  Ownership'
  BY <1>r, HolderHasGuard, ReleaseKeeps
<1>n. UNCHANGED status => NoNewRunning BY DEF NoNewRunning
<1>1. CASE DispatchBegin(p) BY <1>1, <1>b DEF DispatchBegin
<1>2. CASE MonitorBegin(p) BY <1>2, <1>b DEF MonitorBegin
<1>3. CASE \E i \in SendIds : SendBegin(p, i) BY <1>3, <1>b DEF SendBegin
<1>4. CASE AcquireRun(p)
  BY <1>4, Constants
     DEF AcquireRun, TypeOK, HandlerRow, Ownership, AtMostOneRunning, HandlersHoldGuard, Owned
<1>5. CASE AcquireFails(p)
  BY <1>5 DEF AcquireFails, TypeOK, Idle, Ownership, AtMostOneRunning, HandlersHoldGuard, Owned
<1>6. CASE SendFound(p) BY <1>6, <1>r, <1>n DEF SendFound
<1>7. CASE RecoverScan(p)
  <2>1. guard = p BY <1>7, HolderHasGuard DEF RecoverScan
  <2>2. /\ handler'[p].pc = "recover"
        /\ \A q \in Replicas \ {p} : handler'[q] = handler[q]
        /\ \A r \in Runs : status[r] = "running" => todo'[p][r] = "running"
    BY <1>7 DEF RecoverScan, Abandoned, Active, TypeOK, HandlerRow
  <2>3. UNCHANGED <<status, guard>> BY <1>7 DEF RecoverScan
  <2> QED BY <2>1, <2>2, <2>3 DEF Ownership, AtMostOneRunning, HandlersHoldGuard, Owned
<1>8. CASE \E r \in Runs : RecoverOne(p, r)
  <2> SUFFICES ASSUME NEW r \in Runs, RecoverOne(p, r) PROVE Ownership' BY <1>8
  <2>1. NoNewRunning /\ status'[r] # "running" BY FinishEffect DEF RecoverOne
  <2>2. \A q \in Runs \ {r} : todo'[p][q] = todo[p][q] BY DEF RecoverOne, TypeOK
  <2>3. \A x \in Replicas \ {p} : todo'[x] = todo[x] BY DEF RecoverOne, TypeOK
  <2>4. UNCHANGED <<guard, handler>> BY DEF RecoverOne
  <2>5. \A q \in Runs : status'[q] = "running" => Owned(q)'
    BY <2>1, <2>2, <2>3, <2>4 DEF Ownership, Owned, NoNewRunning
  <2> QED BY <2>1, <2>4, <2>5 DEF Ownership, AtMostOneRunning, HandlersHoldGuard, NoNewRunning
<1>9. CASE MonitorDone(p) BY <1>9, <1>r, <1>n DEF MonitorDone, Recovered
<1>10. CASE SendYields(p) BY <1>10, <1>r, <1>n DEF SendYields, Recovered
<1>11. CASE SendRejected(p) BY <1>11, <1>r, <1>n DEF SendRejected, Recovered
<1>12. CASE \E r \in Runs : SendInsert(p, r)
  BY <1>12, InsertOwned DEF SendInsert, Recovered, InsertRun
<1>13. CASE ClaimNothing(p) BY <1>13, <1>r, <1>n DEF ClaimNothing, Recovered
<1>14. CASE \E i \in InputIds : ClaimHolds(p, i) BY <1>14, <1>r, <1>n DEF ClaimHolds, Recovered
<1>15. CASE \E i \in InputIds, r \in Runs : ClaimQueuedInput(p, i, r)
  BY <1>15, InsertOwned DEF ClaimQueuedInput, Recovered, InsertRun
<1>16. CASE Launch(p)
  <2> DEFINE r == handler[p].run
  <2>1. guard = p BY <1>16, HolderHasGuard DEF Launch
  <2>2. guard' = r BY <1>16, <2>1 DEF Launch
  <2>3. r \in Runs BY <1>16 DEF Launch, TypeOK, HandlerRow
  <2>4. handler' = [handler EXCEPT ![p] = Idle] /\ UNCHANGED <<status, todo>>
    BY <1>16 DEF Launch
  <2>5. \A q \in Runs : status[q] = "running" => q = r
    BY <1>16, <2>1, Constants DEF Launch, Ownership, Owned
  <2>6. HandlersHoldGuard'
    BY <2>1, <2>2, <2>3, <2>4, Constants DEF Ownership, HandlersHoldGuard, TypeOK, Idle
  <2> QED BY <2>2, <2>4, <2>5, <2>6 DEF Ownership, AtMostOneRunning, Owned
<1>17. CASE LaunchRefused(p)
  <2>1. NoNewRunning BY <1>17, FinishEffect DEF LaunchRefused, TypeOK, HandlerRow
  <2> QED BY <1>17, <2>1, <1>r DEF LaunchRefused
<1> QED
  BY <1>1, <1>2, <1>3, <1>4, <1>5, <1>6, <1>7, <1>8, <1>9, <1>10, <1>11, <1>12, <1>13, <1>14,
     <1>15, <1>16, <1>17 DEF HandlerStep

\* The steps of an executor keep ownership: only its exit touches the guard.
LEMMA OwnershipExec ==
    ASSUME TypeOK, Ownership, NEW r \in Runs,
           ExecStep(r) \/ AskReturns(r) \/ StepFails(r) \/ ExecSignal(r)
    PROVE  Ownership'
<1>n. UNCHANGED status => NoNewRunning BY DEF NoNewRunning
<1>1. CASE Exit(r)
  <2>1. guard' = Free \/ guard' = guard BY <1>1 DEF Exit
  <2>2. guard' # guard => guard = r /\ guard' = Free BY <1>1 DEF Exit
  <2>3. UNCHANGED <<status, handler, todo>> BY <1>1 DEF Exit, database
  <2> QED BY <2>1, <2>2, <2>3, Constants
          DEF Ownership, AtMostOneRunning, HandlersHoldGuard, Owned
<1>2. CASE FinishCompletedRun(r)
  <2>1. NoNewRunning BY <1>2 DEF FinishCompletedRun, NoNewRunning, TypeOK
  <2> QED BY <1>2, <2>1, SameOwner DEF FinishCompletedRun
<1>3. CASE RecordEnd(r)
  BY <1>3, FinishEffect, SameOwner DEF RecordEnd
<1>4. ASSUME UNCHANGED <<status, guard, handler, todo>> PROVE Ownership'
  BY <1>4, <1>n, SameOwner
<1> QED
  BY <1>1, <1>2, <1>3, <1>4
     DEF ExecStep, ExecSignal, AskReturns, StepFails, Setup, ApplyRunAdjustments, ModelAnswers,
         ToolDone, ToolAsks, FinishDeferred, ToolObserved, ReadStatus, CancelObserved,
         OwnershipLost, ShutdownCancels, database

\* What users do keeps ownership.
LEMMA OwnershipUser ==
    ASSUME TypeOK, Ownership, UserStep
    PROVE  Ownership'
<1>1. NoNewRunning
  BY DEF UserStep, CancelRun, RespondInteraction, AcceptRunInput, CancelInput, ResumeInput,
         NoNewRunning, TypeOK
<1>2. UNCHANGED <<guard, handler, todo>>
  BY DEF UserStep, CancelRun, RespondInteraction, AcceptRunInput, CancelInput, ResumeInput
<1> QED BY <1>1, <1>2, SameOwner

\* Faults keep ownership, except the loss of a handler's session.
LEMMA OwnershipFault ==
    ASSUME NoHandoffLoss, TypeOK, Ownership, FaultStep
    PROVE  Ownership'
<1> USE DEF database
<1>n. UNCHANGED status => NoNewRunning BY DEF NoNewRunning
<1>1. ASSUME NEW p \in Replicas, LoseProcess(p) PROVE Ownership'
  <2>1. /\ guard' = Free \/ guard' = guard
        /\ guard' = guard => guard # p
        /\ guard' # guard => guard = p \/ guard \in Runs
    BY <1>1, Constants DEF LoseProcess
  <2>2. handler' = [handler EXCEPT ![p] = Idle] /\ todo' = [todo EXCEPT ![p] = NoTodo]
        /\ status' = status
    BY <1>1 DEF LoseProcess
  <2>3. HandlersHoldGuard'
    BY <2>1, <2>2, Constants DEF Ownership, HandlersHoldGuard, TypeOK, Idle
  <2>4. \A r \in Runs : status[r] = "running" => Owned(r)'
    BY <2>1, <2>2, Constants DEF Ownership, Owned, TypeOK
  <2> QED BY <2>2, <2>3, <2>4 DEF Ownership, AtMostOneRunning
<1>2. CASE \E p \in Replicas : Crash(p) \/ Restart(p) BY <1>2, <1>1 DEF Crash, Restart
<1>3. CASE \E p \in Replicas : ShutdownBegin(p) BY <1>3, <1>n, SameOwner DEF ShutdownBegin
<1>4. CASE \E p \in Replicas : LoseHandlerSession(p)
  BY <1>4 DEF LoseHandlerSession, Fault, NoHandoffLoss
<1>5. CASE \E p \in Replicas : HandlerAborts(p)
  BY <1>5, <1>n, HolderHasGuard, ReleaseKeeps DEF HandlerAborts
<1>6. CASE \E r \in Runs : LoseSession(r)
  BY <1>6, Constants DEF LoseSession, Ownership, AtMostOneRunning, HandlersHoldGuard, Owned
<1>7. CASE \E r \in Runs : RecordEndLost(r) BY <1>7, <1>n, SameOwner DEF RecordEndLost
<1> QED BY <1>2, <1>3, <1>4, <1>5, <1>6, <1>7 DEF FaultStep

LEMMA OwnershipStep ==
    ASSUME NoHandoffLoss, TypeOK, Ownership, [Next]_vars
    PROVE  Ownership'
<1>n. UNCHANGED status => NoNewRunning BY DEF NoNewRunning
<1>1. CASE UNCHANGED vars BY <1>1, <1>n, SameOwner DEF vars, database
<1>2. CASE Next
  BY <1>2, OwnershipHandler, OwnershipExec, OwnershipUser, OwnershipFault DEF Next
<1> QED BY <1>1, <1>2

\* Whatever crashes or loses its executor's session, and however many replicas
\* send, dispatch and recover at once, at most one run of the conversation is
\* running, provided the session of a handler survives until its hand-off.
THEOREM OneRunningRun == NoHandoffLoss /\ Spec => []AtMostOneRunning
<1> SUFFICES ASSUME NoHandoffLoss PROVE Spec => []AtMostOneRunning OBVIOUS
<1>1. TypeOK /\ Ownership /\ [Next]_vars => Ownership' BY OwnershipStep
<1>2. Ownership => AtMostOneRunning BY DEF Ownership
<1> QED BY <1>1, <1>2, OwnershipInit, TypeCorrect, PTL DEF Spec
=============================================================================
