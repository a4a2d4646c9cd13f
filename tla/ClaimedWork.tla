---------------------------- MODULE ClaimedWork ----------------------------
(***************************************************************************)
(* What a row that has an effect elsewhere promises, without saying how:   *)
(* the effect and the row cannot be in one transaction, so the row is      *)
(* claimed first and reports afterwards.  Work that was not claimed, was   *)
(* dropped or has been reported is never done; claimed work that cannot be *)
(* reported is in doubt, and only its effect resolves the doubt, never a   *)
(* second claim.  A report that was given is true and stays.               *)
(***************************************************************************)
CONSTANT Work

VARIABLES
    report,     \* per work: open, claimed, doubt, made or dropped
    done        \* work whose effect has happened

Init ==
    /\ report = [w \in Work |-> "open"]
    /\ done = {}

Claim(w) ==
    /\ report[w] = "open"
    /\ report' = [report EXCEPT ![w] = "claimed"]
    /\ UNCHANGED done

\* The effect, by whoever claimed it, however late.
Happen(w) ==
    /\ report[w] \in {"claimed", "doubt"} /\ w \notin done
    /\ done' = done \cup {w}
    /\ UNCHANGED report

\* Its owner is lost; also one that was about to claim.
Doubt(w) ==
    /\ report[w] \in {"open", "claimed"}
    /\ report' = [report EXCEPT ![w] = "doubt"]
    /\ UNCHANGED done

Confirm(w) ==
    /\ report[w] \in {"claimed", "doubt"} /\ w \in done
    /\ report' = [report EXCEPT ![w] = "made"]
    /\ UNCHANGED done

\* Withdrawn before it was claimed, or refused: it will not happen any more.
Drop(S) ==
    /\ \A w \in S : report[w] = "open" \/ (report[w] = "claimed" /\ w \notin done)
    /\ report' = [w \in Work |-> IF w \in S THEN "dropped" ELSE report[w]]
    /\ UNCHANGED done

Next ==
    \/ \E w \in Work : Claim(w) \/ Happen(w) \/ Doubt(w) \/ Confirm(w)
    \/ \E S \in SUBSET Work : Drop(S)

Spec == Init /\ [][Next]_<<report, done>>
=============================================================================
