SPECIFICATION FairSpec
CONSTANTS
  ClientNum = 2
  MaxReqs = 2
  Backlog = 1
INVARIANTS TypeOK RequestsCounted WakeUp ReadyOnTime Acquainted QuietTearDown
PROPERTIES Closed
