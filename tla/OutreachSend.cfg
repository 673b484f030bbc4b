SPECIFICATION Spec
CONSTANTS
    d1 = d1
    s1 = s1
    s2 = s2
    s3 = s3
    Drafts = {d1}
    Senders = {s1, s2, s3}
    MaxFailed = 2
SYMMETRY Symmetry
INVARIANTS TypeOK NoDoubleSend SentMeansMailed
PROPERTY ImplementsMailOnce
CHECK_DEADLOCK FALSE
