SPECIFICATION Spec
CONSTANTS
  None = None
  Bets = {bet}
  Kickoff <- MCKickoff
  LastKickoff <- MCLastKickoff
  Odds <- MCOdds
  Outcomes = {"WON", "LOST"}
  Readers = {"reader"}
  Requests = {q1, q2}
  MaxTime = 2
INVARIANTS
  RecordsAgree
  AnnouncedOnce
  RecordCorrect
  PagesAgree
  OffersLead
PROPERTIES
  OutcomeFinal
  AccessChangesBySale
CHECK_DEADLOCK FALSE
