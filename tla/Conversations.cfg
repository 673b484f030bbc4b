CONSTANTS
  Senders = {s1, s2}
  Reviews = {r1, r2}
  MaxTime = 3
  Syncs = {"beat", "rest"}
  BeatSyncs = {"beat"}
  SyncLimit = 2
  MaxMail = 3
  MaxCrashes = 1
  AlwaysClassify = FALSE
  Leads = {"lead1", "lead2"}
  LeadOf <- MCLeadOf
  TopicOf <- MCTopicOf
  Topics <- MCTopics
  LookedAt = 2
  MaxMails = 3
  MaxRefs = 1
  MaxReplies = 1
  Replies = {"q1", "q2", "q3"}
  Sends = {"o1", "o2"}
CHECK_DEADLOCK FALSE
SPECIFICATION MCSpec
SYMMETRY Symmetry
INVARIANTS TypesOK OneReplyUnlessUnrecorded ReplyLoggedOnce MatchIsSurest ThreadLeadIsDeliveryLead AnswerFollowsQuestion
PROPERTIES ClearedOnlyByMixedReviews TakeoverSticks
