\* Tools that only read.
CONSTANTS
    c1 = c1
    c2 = c2
    owner = owner
    member = member
    Nobody = Nobody
    NoCall = NoCall
    Calls = {c1, c2}
    Members = {owner, member}
    Submitter = owner
    Requests <- Reading
    MaxRevision = 0
SPECIFICATION Spec
INVARIANTS
    ReadsAreFree
\* The executor may wait for a user who never answers, and a run may be over.
CHECK_DEADLOCK FALSE
