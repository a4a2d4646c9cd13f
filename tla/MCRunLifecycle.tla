--------------------------- MODULE MCRunLifecycle ---------------------------
(***************************************************************************)
(* Instances of RunLifecycle for TLC.  Replicas, tool calls and the ids    *)
(* clients choose are model values; each .cfg says how many of them, which *)
(* runs a user may stop and which faults may happen, how often.            *)
(***************************************************************************)
EXTENDS RunLifecycle, TLC

CONSTANTS
    p1, p2,     \* replicas
    c1,         \* a tool call
    s1, s2,     \* submission ids of messages
    n1, n2      \* ids of adjust/next inputs

\* No replica is special, so their names may be exchanged.
Symmetric == Permutations({p1, p2})
=============================================================================
