\* Two messages, one of them perhaps an upload, a prewarm, a DELETE, and two of a
\* reap, a source change and a restart, in any order.
SPECIFICATION FairSpec
CONSTANTS
  Sources = {"csv"}
  None = "none"
  MaxMessages = 2
  MaxEvents = 1
  MaxTurns = 2
INVARIANTS
  SessionInv
  RepliesDoNotInterleave
  NothingLeaks
PROPERTY
  MessagesEnd
CHECK_DEADLOCK FALSE
