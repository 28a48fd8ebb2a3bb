SPECIFICATION Spec
CONSTANTS
  MaxChoices = 3
  MaxPages = 2
CHECK_DEADLOCK FALSE
INVARIANT ChosenIsDisplayed
