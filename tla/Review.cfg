SPECIFICATION FairSpec
CONSTANTS
  c = c
  u = u
  Creates <- MCCreates
  Updates <- MCUpdates
  Choices <- MCChoices
  Submissions = 2
  Processes = 2
  MaxFaults = 1
INVARIANT NoRowLost
INVARIANT WrittenOnce
INVARIANT ChoicesKept
INVARIANT CompletedIsClear
PROPERTY OnlyCurrentWrites
PROPERTY TerminalStays
PROPERTY SubmissionsEnd
CHECK_DEADLOCK FALSE
