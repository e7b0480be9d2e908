SPECIFICATION Spec
CONSTANTS
  Users <- MCUsers
  NoUser = NoUser
  Tokens = {"t"}
  NoToken = NoToken
  Domain <- MCDomain
  RoomDomain = "s1"
  Federate = TRUE
  Version <- MCVersion
  CreatorLevel = 1000
  Branches = {b1, b2}
  UserOrder <- MCOrder
  History <- MCHistory
  Templates <- MCTemplates
  MaxForked = 3
  MaxMerges = 1
SYMMETRY MCSymmetry
INVARIANTS
  OrderIrrelevant
  BanWins
CHECK_DEADLOCK FALSE
