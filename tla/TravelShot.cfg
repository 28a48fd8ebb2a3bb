SPECIFICATION Spec
CONSTANTS
  MaxChoices = 3
  MaxPages = 2
INVARIANT ShownIsSaved
PROPERTIES SavedNeverGoesBack OwnImageIsPublished
CHECK_DEADLOCK FALSE
