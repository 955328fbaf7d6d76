SPECIFICATION MCSpec
CONSTANTS
  Users = {u1}
  Rival = u1
  Products = {p1}
  Requests = {r1, r2, r3}
  Quantities = {1}
  NoCart = NoCart
  NoUser = NoUser
  NoCall = NoCall
  OneAtATime = TRUE
INVARIANTS
  UserIdKept
CHECK_DEADLOCK FALSE
