----------------------------- MODULE MCAccess -----------------------------
(***************************************************************************)
(* Instances for TLC of what a user reaches through the API: files of the  *)
(* workspace, the personal assistant, sessions, app connections and        *)
(* publishing to GitHub.  They share no state in these models, so a        *)
(* behaviour follows one of them, chosen in the initial state, and the     *)
(* others stay as they begin.                                              *)
(***************************************************************************)
EXTENDS WorkspaceFile, PersonalAssistant, Sessions, AppConnections, GitHubWork

CONSTANTS a, b      \* helpers, turns, tabs, readers and publishers

VARIABLE part       \* the part that moves

accessVars == <<part, fileVars, personalVars, sessionVars, appVars, hubVars>>

Parts == {"file", "personal", "session", "app", "github"}

AccessInit ==
    /\ part \in Parts
    /\ FileInit /\ PersonalInit /\ SessionInit /\ AppInit /\ HubInit
    /\ part # "file" => target = Absent
    /\ part # "github" => hub.branch = "absent"

AccessNext ==
    /\ UNCHANGED part
    /\ \/ part = "file" /\ FileNext /\ UNCHANGED <<personalVars, sessionVars, appVars, hubVars>>
       \/ part = "personal" /\ PersonalNext /\ UNCHANGED <<fileVars, sessionVars, appVars, hubVars>>
       \/ part = "session" /\ SessionNext /\ UNCHANGED <<fileVars, personalVars, appVars, hubVars>>
       \/ part = "app" /\ AppNext /\ UNCHANGED <<fileVars, personalVars, sessionVars, hubVars>>
       \/ part = "github" /\ HubNext /\ UNCHANGED <<fileVars, personalVars, sessionVars, appVars>>

AccessSpec == AccessInit /\ [][AccessNext]_accessVars

-----------------------------------------------------------------------------
(* Every part keeps its types: rows, requests and counters stay in their domains, whatever      *)
(* crashes, retries and lost answers do to them.                                                *)
AccessTypeOK == FileTypeOK /\ PersonalTypeOK /\ SessionTypeOK /\ AppTypeOK /\ HubTypeOK
=============================================================================
