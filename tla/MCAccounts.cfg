\* Two requests at a time, from an empty table or on one confirmed account.
SPECIFICATION FairSpec
CONSTANTS
  Requests = {r1, r2}
  Starts <- MCStarts
  ann = ann
  e1 = e1
  p1 = p1
  Usernames = {ann}
  Emails = {e1, e2}
  Passwords = {p1, p2}
  None = none
  Capacity = 1
  MaxUsers = 2
  MaxCodes = 2
  MaxTokens = 1
  MaxGeneration = 2
\* Codes, tokens and generations run out.
CHECK_DEADLOCK FALSE
INVARIANTS
  OneHolder
  SessionsKnowThePassword
  FailuresAreBounded
PROPERTIES
  
  AbandonedAreFreed
