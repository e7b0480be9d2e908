SPECIFICATION Spec
CONSTANTS
  a = a
  b = b
  c = c
  Users <- MCUsers
  NoUser = NoUser
  Tokens = {"t"}
  NoToken = NoToken
  Domain <- MCDomain
  RoomDomain = "s1"
  Federate = TRUE
  Version <- MCVersion
  CreatorLevel = 1000
  Levels = {50, 100}
  LevelFields = {"ban"}
  Rules = {"knock_restricted"}
SYMMETRY MCSymmetry
INVARIANTS
  TypeOK
  NeededSuffices
PROPERTIES
  PowerHandedDown
  BanHolds
CHECK_DEADLOCK FALSE
