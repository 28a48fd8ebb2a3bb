SPECIFICATION Spec
CONSTANTS
  Devices = {phone}
  Users = {ann, bob}
  NoUser = NoUser
  Denied = {NoUser}
  MaxPendingWrites = 2
  Names = {rome}
  Slashed = {}
  Unprofiled = {}
  Pubs = {p1}
  NoPub = NoPub
  MaxSwitches = 3
PROPERTY SuccessMeansAllUploaded
