--------------------------- MODULE MCRunAuthority ---------------------------
(***************************************************************************)
(* Instances of RunAuthority for TLC: two tool calls, a submitter and      *)
(* another member, and the operations each .cfg lets the model ask for.    *)
(***************************************************************************)
EXTENDS RunAuthority

CONSTANTS c1, c2, owner, member

Ordinary(tool)  == [tool |-> tool, sensitive |-> FALSE]
Sensitive(tool) == [tool |-> tool, sensitive |-> TRUE]

\* Commands and writes beside edits, publishing, plans and schedules, in and
\* out of plan mode.
Consents ==
    [c \in Calls |->
        IF c = c1 THEN {Ordinary("bash"), Ordinary("write")}
        ELSE {Ordinary("edit"), Ordinary("github_publish"), Ordinary("enter_plan_mode"),
              Ordinary("propose_plan"), Ordinary("propose_schedule")}]

\* What only reads.
Reading == [c \in Calls |-> {Ordinary("read"), Ordinary("read_tool_result"), Sensitive("read")}]
=============================================================================
