SPECIFICATION FairSpec
CONSTANTS
    w1 = w1
    w2 = w2
    p1 = p1
    p2 = p2
    rb = rb
    crb = crb
    sec = sec
    target = target
    other = other
    r1 = r1
    r2 = r2
    Worker = {w1, w2}
    NoId = NoId
    PreviewId = {p1}
    DeleteUid = {}
    RoleBinding = {rb}
    ClusterRoleBinding = {}
    Secret = {sec}
    Subject = {target}
    Target = target
    Role = {r1}
    MaxAttempts = 2
    ListLimit = 500
    MaxRev = 1
    MaxFaults = 1
PROPERTIES
    QueuedEnds
