SPECIFICATION ContainersSpec
CONSTANTS
    p1 = p1
    p2 = p2
    q1 = q1
    q2 = q2
    Threads = {p1, p2, q1, q2}
    Values = {v1, v2}
    QueueSize = 2
    Calls <- AllCalls
    Users = {p1, p2, q1, q2}
    Items = {v1, v2}
    m_max_count = 3
    Profiles <- ListProfiles
    MaxErased = 2
    Heads = {h1, h2}
    Entries = {e1, e2, e3, e4}
    LIST_POISON = LIST_POISON
SYMMETRY ThreadSymmetry
INVARIANTS QueueInv WedgeNeedsClaimant ListAccounts Rings
PROPERTIES ImplementsBoundedQueue ImplementsLists StructuresImplement
\* Threads that wait with m_Lock held may stop all others, and the singly linked list is
\* destroyed in the end.
CHECK_DEADLOCK FALSE
