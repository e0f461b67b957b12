SPECIFICATION Spec
CONSTANTS
  None = None
  Rows = {"mail", "tg", "new"}
  Mailboxes = {"m"}
  Chats = {"c"}
  InitAccounts <- MCAccounts
  Requests = {q1, q2}
  MaxLinks = 2
  MaxStarts = 5
  MaxCrashes = 1
INVARIANTS
  WaysLead
  SessionsDie
  LinksDieUnlessRead
  OneHolder
  ApprovedOnce
SYMMETRY Interchangeable
CHECK_DEADLOCK FALSE
