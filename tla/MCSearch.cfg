SPECIFICATION FairSpec
CONSTANTS
  PrivateEnd = 3
  Blogs = {b1, b2}
  Locations <- MCLocations
  Texts <- MCTexts
  MaxSearches = 2
  MaxEdits = 1
INVARIANTS TapOpensWhatIsShown TrapsOnlyOnStaleRows ForeignRowsWereOvertaken FoundStartsWithText ResultsAreComplete
PROPERTY SearchEnds
CHECK_DEADLOCK FALSE
