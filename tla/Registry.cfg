CONSTANTS
  Caller = {loop}
  Page = {p, q}
  Type = {"chat", "empty"}
  Registered = {"chat"}
  Late = {"empty"}
  Capacity = 1
  MaxPackets = 2
  MaxFeeds = 2
SPECIFICATION Spec
INVARIANTS
  FeedsAgree
  PageShowsOnce
PROPERTIES
  ImplementsFeed
  CallsEnd
  NotificationsEnd
CHECK_DEADLOCK FALSE
