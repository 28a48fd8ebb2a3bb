SPECIFICATION FairTravelSpec
CONSTANTS
  Devices = {phone}
  Users = {ann, bob}
  NoUser = NoUser
  Denied = {NoUser}
  MaxPendingWrites = 2
  Names = {rome, and_or}
  Slashed = {and_or}
  Unprofiled = {}
  Pubs = {p1, p2}
  NoPub = NoPub
  MaxSwitches = 3
INVARIANTS ReportedBlogIsComplete OrphanOnlyAfterSwitch AuthorOwnsBlog InsideIsSignedIn EmptyPageIsExplained
PROPERTIES ImplementsBlogStore PublicationSettles
