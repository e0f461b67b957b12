SPECIFICATION FairSpec
CONSTANTS
  None = None
  Events = {"bet","result"}
  Kind <- MCKind
  About <- MCAbout
  Channels = {"TELEGRAM"}
  Readers = {"r1","r2"}
  Audience <- MCAudience
  EmailWanted <- MCEmail
  Telegram <- MCTelegram
  Sweeps = {"cron"}
  BROADCASTS_PER_DAY = 1
  MAX_ATTEMPTS = 2
  MaxAge = 0
  Limit = 1
  MaxCrashes = 1
  MaxDay = 0
CHECK_DEADLOCK FALSE
PROPERTIES
  QueueSettles
