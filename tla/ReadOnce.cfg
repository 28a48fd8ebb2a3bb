CONSTANTS
  MaxReads = 3
  MaxLosses = 2
  MaxEvents = 2
SPECIFICATION FairSpec
INVARIANTS TypeOK AssertionsHold AnsweredOnce SyncedIsOnline TargetIsListenedTo
PROPERTY ReadsAreAnswered
CHECK_DEADLOCK FALSE
