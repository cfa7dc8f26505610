SPECIFICATION Spec
CONSTANTS
  Tabs = {"one", "two"}
  Accounts = {"ann", "ben"}
  NoAccount = "nobody"
  MaxMessages = 2
  Sessions <- AllSessions
INVARIANTS
  NothingLost
  SentAsAuthor
  NoOrphan
PROPERTIES
  SendingEnds
CHECK_DEADLOCK FALSE
