CONSTANTS
  Users = {ann}
  NoUser = NoUser
  Denied = {}
  Invalid = {3}
  MaxPendingWrites = 4
  MaxWrites = 4
  MaxNotices = 1
  MaxFailures = 0
SPECIFICATION Spec
INVARIANT RejectedWasRefused
CHECK_DEADLOCK FALSE
