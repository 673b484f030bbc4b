CONSTANTS
  Replies = {r1, r2, r3}
  Sends = {s1, s2}
CHECK_DEADLOCK FALSE
SPECIFICATION Spec
INVARIANT NoSendAfterTakeover
