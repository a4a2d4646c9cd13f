\* Two calls, two users, a change of the permission mode.
CONSTANTS
    c1 = c1
    c2 = c2
    owner = owner
    member = member
    Nobody = Nobody
    NoCall = NoCall
    Calls = {c1, c2}
    Members = {owner, member}
    Submitter = owner
    Requests <- Consents
    MaxRevision = 1
SPECIFICATION FairSpec
INVARIANTS
    TypeOK
    ReceiptsAreCurrent
    SingleUse
    ReviewsAreCurrent
    PlanIsReadOnly
    OwnersOnly
    PlanApproved
PROPERTIES
    ImplementsLedger
    WaitsOnlyForUser
\* The executor may wait for a user who never answers, and a run may be over.
CHECK_DEADLOCK FALSE
