SPECIFICATION Spec
CONSTANTS
    d1 = d1
    s1 = s1
    s2 = s2
    s3 = s3
    s4 = s4
    Drafts = {d1}
    Senders = {s1, s2}
    MaxFailed = 3
PROPERTY SuppressionCheckedAtSend
CHECK_DEADLOCK FALSE
