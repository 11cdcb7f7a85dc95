SPECIFICATION MCSpec
CONSTANTS
    u1 = u1
    u2 = u2
    u3 = u3
    k1 = k1
    k2 = k2
    k3 = k3
    d1 = d1
    d2 = d2
    d3 = d3
    h1 = h1
    h2 = h2
    h3 = h3
    Sessions = {s1}
    Subjects = {u1, u2, u3}
    Keys = {k1, k2, k3}
    Digests = {d1, d2, d3}
    Handles = {h1, h2, h3}
    MaxEpoch = 2
    MaxRuns = 2
    Passes = 2
    Ttl = 1
    MaxConns = 2
    MaxIncarnation = 2
    MaxNow = 1
    MaxRevision = 2
SYMMETRY Symmetry
INVARIANTS ActiveRunIsCurrent KeyAdmitsOnce
PROPERTIES GrantAnsweredIsUsable ImplementsFencedSession
CHECK_DEADLOCK FALSE
