----------------------------- MODULE RunContract -----------------------------
(***************************************************************************)
(* What a conversation promises about its runs, without saying how: they   *)
(* execute one at a time, in order, each ends at most once, a stop is      *)
(* final, tool calls are answered at most once, and a run ends only with   *)
(* every call answered.  RunLifecycle, with its guard, its recovery, its   *)
(* executors and its faults, implements it.                                *)
(***************************************************************************)
EXTENDS Integers

CONSTANTS MaxRuns, Calls

VARIABLES status, answer

Runs     == 1..MaxRuns
Active   == {"running", "cancelling"}
Terminal == {"cancelled", "failed", "completed"}
Given    == {"result", "interrupted", "cancelled"}

TypeOK ==
    /\ status \in [Runs -> Active \cup Terminal \cup {"none"}]
    /\ answer \in [Runs -> [Calls -> Given \cup {"none", "open"}]]

Init ==
    /\ status = [r \in Runs |-> "none"]
    /\ answer = [r \in Runs |-> [c \in Calls |-> "none"]]

\* The next run in order starts when no other run is running.
Start(r) ==
    /\ status[r] = "none"
    /\ \A q \in Runs : q < r => status[q] # "none"
    /\ \A q \in Runs : status[q] # "running"
    /\ status' = [status EXCEPT ![r] = "running"]
    /\ UNCHANGED answer

RequestStop(r) ==
    /\ status[r] = "running"
    /\ status' = [status EXCEPT ![r] = "cancelling"]
    /\ UNCHANGED answer

\* Calls are issued by a running run and answered while the run is active.
Progress(r) ==
    \A c \in Calls :
        \/ answer'[r][c] = answer[r][c]
        \/ answer[r][c] = "none" /\ answer'[r][c] = "open" /\ status[r] = "running"
        \/ answer[r][c] = "open" /\ answer'[r][c] \in Given

OthersKeep(r) == \A q \in Runs \ {r} : answer'[q] = answer[q]

Work(r) ==
    /\ status[r] \in Active
    /\ Progress(r) /\ OthersKeep(r)
    /\ UNCHANGED status

\* A run that was asked to stop can only end as cancelled.
End(r, outcome) ==
    /\ \/ status[r] = "running"
       \/ status[r] = "cancelling" /\ outcome = "cancelled"
    /\ status' = [status EXCEPT ![r] = outcome]
    /\ Progress(r) /\ OthersKeep(r)
    /\ \A c \in Calls : answer'[r][c] # "open"

Next == \E r \in Runs : \/ Start(r) \/ RequestStop(r) \/ Work(r)
                        \/ \E outcome \in Terminal : End(r, outcome)

Spec == Init /\ [][Next]_<<status, answer>>
=============================================================================
