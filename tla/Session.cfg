SPECIFICATION FairSpec
CONSTANTS
  Device = phone
  Devices = {phone}
  Users = {ann, bob, fay, gus, goe}
  Facebook = {fay, gus}
  Google = {goe}
  NoUser = NoUser
  Denied = {NoUser, bob}
  MaxPendingWrites = 1
  MaxTaps = 4
INVARIANTS InsideIsSignedIn ProfileFollowsAccount ProfileIsOwn FacebookSessionHasToken
  OnlyFacebookSkipsLogin
PROPERTIES FoundIsRestoredOrUnfinished SignUpIsAnswered
