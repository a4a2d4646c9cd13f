------------------------- MODULE PersonalAssistant -------------------------
(***************************************************************************)
(* The personal assistant of one member: the turns of the dialogue, one    *)
(* remembered fact that turns and its owner change, and the task a turn    *)
(* may delegate.                                                           *)
(*                                                                         *)
(* A turn holds a session lock of the member from its acceptance to the    *)
(* end of its delegation.  Between its two transactions a model answers;   *)
(* the second commits only if the revision of the thread has not moved.    *)
(*                                                                         *)
(* Source: backend/internal/personal/*.go.                                 *)
(***************************************************************************)
EXTENDS Integers

CONSTANTS
    Turns,          \* request ids of the dialogue
    MaxMemoryOps,   \* bound: changes of the fact and of the settings by the owner
    MaxPersonalFaults  \* bound: failed calls, lost sessions and processes, a revocation

ASSUME PersonalConstants == {MaxMemoryOps, MaxPersonalFaults} \subseteq Nat

VARIABLES
    thread,         \* the row of personal_threads
    memory,         \* the fact, with what undoing its last change brings back
    turn,           \* personal_turns: the status of each
    delegation,     \* personal_delegations: the status of the task of each turn
    submitted,      \* per turn, what its submission id was accepted as
    chat,           \* per turn, its handler
    signedIn,       \* the account, its membership and its session are valid
    memoryOps, personalFaults

personalVars == <<thread, memory, turn, delegation, submitted, chat, signedIn, memoryOps, personalFaults>>

NoChat == [at |-> "idle", rev |-> 0, auto |-> FALSE, seen |-> 0, op |-> "none", task |-> FALSE,
           alive |-> FALSE, status |-> "none"]

Kept == {"none", "live", "gone"}
InDoubt == {"prepared", "dispatching"}

PersonalTypeOK ==
    /\ thread.rev \in Nat /\ thread.auto \in BOOLEAN
    /\ memory.state \in Kept /\ memory.rev \in Nat /\ memory.undo \in Kept \cup {"nothing"}
    /\ \A t \in Turns :
           /\ turn[t] \in {"none", "pending", "completed", "failed", "interrupted"}
           /\ delegation[t] \in InDoubt \cup {"none", "started", "queued", "failed", "unknown"}
           /\ submitted[t] \in {"none", "started", "queued"}
           /\ chat[t].at \in {"idle", "reading", "thinking", "finish", "claim", "accept", "save"}

PersonalInit ==
    /\ thread = [rev |-> 0, auto |-> TRUE]
    /\ memory = [state |-> "none", rev |-> 0, undo |-> "nothing"]
    /\ turn = [t \in Turns |-> "none"] /\ delegation = [t \in Turns |-> "none"]
    /\ submitted = [t \in Turns |-> "none"]
    /\ chat = [t \in Turns |-> NoChat]
    /\ signedIn = TRUE
    /\ memoryOps = 0 /\ personalFaults = 0

PersonalFault == personalFaults < MaxPersonalFaults /\ personalFaults' = personalFaults + 1

-----------------------------------------------------------------------------
\* The fact.

Barrier_Kept == thread \* mutant: the revision of the thread stays
\* Every manual change, and forgetting, also shuts older turns out of the context.
Barrier == [thread EXCEPT !.rev = @ + 1]

\* A change records what it replaces.
WriteMemory(state) == memory' = [state |-> state, rev |-> memory.rev + 1, undo |-> memory.state]

ByOwner ==
    /\ memoryOps < MaxMemoryOps /\ memoryOps' = memoryOps + 1
    /\ signedIn
    /\ UNCHANGED <<turn, delegation, submitted, chat, signedIn, personalFaults>>

\* A topic that was ever used, a forgotten one too, is a conflict.
CreateMemory == ByOwner /\ memory.state = "none" /\ WriteMemory("live") /\ thread' = Barrier

\* Of the revision shown; a forgotten fact cannot be edited.
UpdateMemory ==
    /\ ByOwner
    /\ memory.state = "live"
    /\ \E state \in {"live", "gone"} : WriteMemory(state)
    /\ thread' = Barrier

\* Only the last change, once; the first one leaves a tombstone.
Undo ==
    /\ ByOwner
    /\ memory.undo # "nothing"
    /\ memory' = [state |-> IF memory.undo = "none" THEN "gone" ELSE memory.undo,
                  rev |-> memory.rev + 1, undo |-> "nothing"]
    /\ thread' = Barrier

SetAutoMemory ==
    /\ ByOwner
    /\ thread' = [Barrier EXCEPT !.auto = ~@]
    /\ UNCHANGED memory

-----------------------------------------------------------------------------
\* Chat.

PersonalLockFree == \A t \in Turns : ~chat[t].alive

\* A known id returns its turn.  The lock proves that the owner of a pending one is gone.
BeginChat(t) ==
    /\ turn[t] = "none" /\ signedIn
    /\ PersonalLockFree
    /\ turn' = [s \in Turns |-> IF s = t THEN "pending"
                                ELSE IF turn[s] = "pending" THEN "interrupted" ELSE turn[s]]
    /\ chat' = [chat EXCEPT ![t] = [NoChat EXCEPT !.at = "reading", !.rev = thread.rev,
                                        !.auto = thread.auto, !.alive = TRUE]]
    /\ UNCHANGED <<thread, memory, delegation, submitted, signedIn, memoryOps, personalFaults>>

\* The facts, tasks and older turns the model is given; a lookup reads no more than that.
Context == memory.rev
ReadContext(t) ==
    /\ chat[t].at = "reading"
    /\ chat' = [chat EXCEPT ![t].at = "thinking", ![t].seen = Context]
    /\ UNCHANGED <<thread, memory, turn, delegation, submitted, signedIn, memoryOps, personalFaults>>

\* A reply that can be decoded; an automatic change needs the setting, and only a fact that
\* was seen is forgotten.
Replies == [op : {"none", "remember", "automatic", "forget"}, task : BOOLEAN]
Allowed(t, op) == (op = "automatic" => chat[t].auto) /\ (op = "forget" => chat[t].seen > 0)
ModelReplies(t) ==
    /\ chat[t].at = "thinking"
    /\ \E r \in Replies :
           /\ Allowed(t, r.op)
           /\ chat' = [chat EXCEPT ![t].at = "finish", ![t].op = r.op, ![t].task = r.task]
    /\ UNCHANGED <<thread, memory, turn, delegation, submitted, signedIn, memoryOps, personalFaults>>

\* What was forgotten is not remembered automatically.
ApplyMemories(op) ==
    LET ignored == op = "none" \/ (op = "automatic" /\ memory.state = "gone")
    IN  /\ IF ignored THEN UNCHANGED memory ELSE WriteMemory(IF op = "forget" THEN "gone" ELSE "live")
        /\ thread' = IF ~ignored /\ memory.state # "none" THEN Barrier ELSE thread

\* Facts, delegation and reply in one transaction of the session that holds the lock.
FinishChat(t) ==
    /\ chat[t].at = "finish"
    /\ chat[t].alive /\ signedIn /\ thread.rev = chat[t].rev
    /\ ApplyMemories(chat[t].op)
    /\ turn' = [turn EXCEPT ![t] = IF @ = "pending" THEN "completed" ELSE @]
    /\ delegation' = [delegation EXCEPT ![t] = IF chat[t].task THEN "prepared" ELSE @]
    /\ chat' = [chat EXCEPT ![t] = IF chat[t].task THEN [@ EXCEPT !.at = "claim"] ELSE NoChat]
    /\ UNCHANGED <<submitted, signedIn, memoryOps, personalFaults>>

\* The revision moved, the session or the authority is gone, or a call failed.
ChatFails(t) ==
    /\ chat[t].at \in {"reading", "thinking", "finish"}
    /\ IF chat[t].at = "finish" /\ (~chat[t].alive \/ ~signedIn \/ thread.rev # chat[t].rev)
       THEN UNCHANGED personalFaults ELSE PersonalFault
    /\ turn' = [turn EXCEPT ![t] = IF @ = "pending" THEN "failed" ELSE @]
    /\ chat' = [chat EXCEPT ![t] = NoChat]
    /\ UNCHANGED <<thread, memory, delegation, submitted, signedIn, memoryOps>>

\* The process, or the answer of a commit, is lost; the session ends with it.
ChatLost(t) ==
    /\ PersonalFault
    /\ chat[t].at # "idle" /\ chat' = [chat EXCEPT ![t] = NoChat]
    /\ UNCHANGED <<thread, memory, turn, delegation, submitted, signedIn, memoryOps>>
LosePersonalLock(t) ==
    /\ PersonalFault
    /\ chat[t].alive /\ chat' = [chat EXCEPT ![t].alive = FALSE]
    /\ UNCHANGED <<thread, memory, turn, delegation, submitted, signedIn, memoryOps>>

-----------------------------------------------------------------------------
\* The delegation of a completed turn.

ClaimDelegation(t) ==
    LET claims == chat[t].alive /\ signedIn /\ delegation[t] = "prepared"
    IN  /\ chat[t].at = "claim"
        /\ delegation' = [delegation EXCEPT ![t] = IF claims THEN "dispatching" ELSE @]
        /\ chat' = [chat EXCEPT ![t] = IF claims THEN [@ EXCEPT !.at = "accept"] ELSE NoChat]
        /\ UNCHANGED <<thread, memory, turn, submitted, signedIn, memoryOps, personalFaults>>

\* Under the authority of the session: a new task, one for an idle conversation, or an input in
\* its queue.
AcceptDelegation(t) ==
    /\ chat[t].at = "accept" /\ signedIn
    /\ \E as \in {"started", "queued"} :
           /\ submitted' = [submitted EXCEPT ![t] = as]
           /\ \/ chat' = [chat EXCEPT ![t].at = "save", ![t].status = as] /\ UNCHANGED personalFaults
              \/ PersonalFault /\ chat' = [chat EXCEPT ![t].at = "save", ![t].status = "unknown"]
    /\ UNCHANGED <<thread, memory, turn, delegation, signedIn, memoryOps>>

\* The errors that come before acceptance, or one that says nothing.
DelegationRefused(t) ==
    /\ chat[t].at = "accept"
    /\ \E status \in {"failed", "unknown"} :
           chat' = [chat EXCEPT ![t].at = "save", ![t].status = status]
    /\ UNCHANGED <<thread, memory, turn, delegation, submitted, signedIn, memoryOps, personalFaults>>

Receipted_Late(t) == chat[t].status \* mutant: a late handler overwrites what was reconciled
\* Only what is still 'dispatching'.
Receipted(t) == IF delegation[t] = "dispatching" THEN chat[t].status ELSE delegation[t]

\* A failed update is forgotten.
SaveDelegation(t) ==
    /\ chat[t].at = "save"
    /\ delegation' = [delegation EXCEPT ![t] = Receipted(t)]
    /\ chat' = [chat EXCEPT ![t] = NoChat]
    /\ UNCHANGED <<thread, memory, turn, submitted, signedIn, memoryOps, personalFaults>>

Abandoned == PersonalLockFree

RecoverTurn(t) ==
    /\ Abandoned
    /\ turn[t] = "pending" \/ delegation[t] \in InDoubt
    /\ turn' = [turn EXCEPT ![t] = IF @ = "pending" THEN "interrupted" ELSE @]
    /\ delegation' = [delegation EXCEPT ![t] = IF @ \in InDoubt THEN "unknown" ELSE @]
    /\ UNCHANGED <<thread, memory, submitted, chat, signedIn, memoryOps, personalFaults>>

\* By the receipts only.
ReconcileDelegation(t) ==
    /\ submitted[t] # "none"
    /\ delegation[t] \in InDoubt \cup {"unknown", "queued"}
    /\ delegation' = [delegation EXCEPT ![t] = submitted[t]]
    /\ UNCHANGED <<thread, memory, turn, submitted, chat, signedIn, memoryOps, personalFaults>>

\* A page asks for a turn; nothing else settles one whose handler is gone.
PollTurn(t) == RecoverTurn(t) \/ ReconcileDelegation(t)

QueuedTaskStarts(t) ==
    /\ submitted[t] = "queued" /\ submitted' = [submitted EXCEPT ![t] = "started"]
    /\ UNCHANGED <<thread, memory, turn, delegation, chat, signedIn, memoryOps, personalFaults>>

RevokePersonal ==
    /\ PersonalFault
    /\ signedIn /\ signedIn' = FALSE
    /\ UNCHANGED <<thread, memory, turn, delegation, submitted, chat, memoryOps>>

-----------------------------------------------------------------------------
ChatStep(t) ==
    \/ ReadContext(t) \/ ModelReplies(t) \/ FinishChat(t) \/ ChatFails(t)
    \/ ClaimDelegation(t) \/ AcceptDelegation(t) \/ DelegationRefused(t) \/ SaveDelegation(t)

PersonalNext ==
    \/ CreateMemory \/ UpdateMemory \/ Undo \/ SetAutoMemory
    \/ RevokePersonal
    \/ \E t \in Turns : \/ BeginChat(t) \/ ChatStep(t) \/ ChatLost(t) \/ LosePersonalLock(t)
                        \/ PollTurn(t) \/ QueuedTaskStarts(t)

PersonalSpec == PersonalInit /\ [][PersonalNext]_personalVars

-----------------------------------------------------------------------------
(* A turn changes the fact only as the model saw it: an edit, a forgetting or an undo of its    *)
(* owner that commits while the model thinks is never overwritten, and what was forgotten does  *)
(* not come back automatically.                                                                 *)
CurrentMemory ==
    [][\A t \in Turns : (chat[t].at = "finish" /\ memory' # memory /\ chat'[t] # chat[t]) =>
           /\ chat[t].seen = memory.rev
           /\ chat[t].op = "automatic" => memory.state # "gone"]_personalVars

(* The record of a turn is true: what is interrupted or failed changed nothing and delegated    *)
(* nothing, a task is reported started or queued only if it was accepted, and as failed only if *)
(* it never will be, whichever handler, page and lost session comes last.                       *)
TurnsTrue ==
    \A t \in Turns :
        /\ turn[t] \in {"interrupted", "failed"} =>
               delegation[t] = "none" /\ chat[t].at \notin {"claim", "accept", "save"}
        /\ delegation[t] \in {"started", "queued"} => submitted[t] # "none"
        /\ delegation[t] \in {"none", "prepared", "failed"} => submitted[t] = "none"

\* The delegation of a turn as work that is claimed; a turn that ended badly has dropped it.
DelegationReport(status, ending) ==
    CASE status = "none" -> IF ending \in {"interrupted", "failed"} THEN "dropped" ELSE "open"
      [] status = "prepared" -> "open"
      [] status = "dispatching" -> "claimed"
      [] status = "unknown" -> "doubt"
      [] status = "failed" -> "dropped"
      [] OTHER -> "made"
DelegationReports == [t \in Turns |-> DelegationReport(delegation[t], turn[t])]
TasksSubmitted == {t \in Turns : submitted[t] # "none"}

DelegationClaims == INSTANCE ClaimedWork
    WITH Work <- Turns, report <- DelegationReports, done <- TasksSubmitted

(* Recorded truly, and delegated as claimed work: a delegation is claimed once and then only    *)
(* reconciled by receipts, a turn that was interrupted never delegates later, and what was      *)
(* reported stays, whichever handler, page and lost session comes last.                         *)
DelegatedOnce == []TurnsTrue /\ DelegationClaims!Spec
=============================================================================
