CONSTANTS
  Fields = {author, blog}
  MaxMade = 4
  MaxVersions = 5
SPECIFICATION Spec
INVARIANT SettledIsCurrent
PROPERTY NeverGoesBack
CHECK_DEADLOCK FALSE
