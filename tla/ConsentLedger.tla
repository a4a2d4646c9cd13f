--------------------------- MODULE ConsentLedger ---------------------------
(***************************************************************************)
(* What the permissions of a run promise, without saying how.  A request   *)
(* for consent is decided under an epoch of the user's rules.  Changing    *)
(* the rules opens a new epoch and voids every decision that has not been  *)
(* used, unless the new rules decide it again.  A decision is used at most *)
(* once, in its own epoch and while the run is active; a refusal is final. *)
(***************************************************************************)
EXTENDS Integers

CONSTANTS Calls, MaxEpoch

VARIABLES
    active,     \* the run is running
    epoch,      \* how often the rules have changed
    request     \* per call: its request, and the epoch of its decision

NoRequest == [state |-> "none", epoch |-> 0]
Asked     == [state |-> "asked", epoch |-> 0]
Given(e)  == [state |-> "given", epoch |-> e]
Refused   == [state |-> "refused", epoch |-> 0]
Spent     == [state |-> "spent", epoch |-> 0]

TypeOK ==
    /\ active \in BOOLEAN
    /\ epoch \in 0..MaxEpoch
    /\ request \in [Calls -> {NoRequest, Asked, Refused, Spent}
                                \cup {Given(e) : e \in 0..MaxEpoch}]

Init ==
    /\ active = TRUE
    /\ epoch = 0
    /\ request = [c \in Calls |-> NoRequest]

Open(c) == request[c] = Asked \/ request[c].state = "given"

Ask(c) ==
    /\ active
    /\ request[c] = NoRequest
    /\ request' = [request EXCEPT ![c] = Asked]
    /\ UNCHANGED <<active, epoch>>

\* The user, or a reviewer on his behalf, answers while the run is active.
Decide(c, answer) ==
    /\ active
    /\ request[c] = Asked
    /\ answer \in {Given(epoch), Refused}
    /\ request' = [request EXCEPT ![c] = answer]
    /\ UNCHANGED <<active, epoch>>

\* A request nobody answered may be withdrawn.
Withdraw(S) ==
    /\ \A c \in S : request[c] = Asked
    /\ request' = [c \in Calls |-> IF c \in S THEN Refused ELSE request[c]]
    /\ UNCHANGED epoch
    /\ active' \in {active, FALSE}

\* New rules: every unused request is asked again or decided by the new rules.
Revise ==
    /\ active
    /\ epoch' = epoch + 1
    /\ \A c \in Calls :
        IF Open(c) THEN request'[c] \in {Asked, Given(epoch')}
                   ELSE request'[c] = request[c]
    /\ DOMAIN request' = Calls
    /\ UNCHANGED active

\* The operation is let through on this decision.
Spend(c) ==
    /\ active
    /\ request[c] = Given(epoch)
    /\ request' = [request EXCEPT ![c] = Spent]
    /\ UNCHANGED <<active, epoch>>

Next ==
    \/ \E c \in Calls : Ask(c) \/ Spend(c) \/ \E answer \in {Given(epoch), Refused} : Decide(c, answer)
    \/ \E S \in SUBSET Calls : Withdraw(S)
    \/ Revise

Spec == Init /\ [][Next]_<<active, epoch, request>>
=============================================================================
