CONSTANTS
  Users = {ann, bob}
  NoUser = NoUser
  Denied = {NoUser}
  Invalid = {}
  MaxPendingWrites = 2
  MaxWrites = 2
  MaxNotices = 2
  MaxFailures = 1
SPECIFICATION FairSpec
INVARIANTS WaitingIsServed AssertionsHold CommittedAsOwner PipelineIsQueueFront
INVARIANT AcknowledgedIsCommitted
PROPERTIES ImplementsClient WritesAreAnswered
CHECK_DEADLOCK FALSE
