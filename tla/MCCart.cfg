SPECIFICATION MCSpec
CONSTANTS
  Users = {u1, u2}
  Rival = u1
  Products = {p1, p2}
  Requests = {r1, r2, r3}
  Quantities = {1}
  NoCart = NoCart
  NoUser = NoUser
  NoCall = NoCall
  OneAtATime = FALSE
INVARIANTS
  OneLinePerProduct
  NothingComesBack
  NoTtlMeansUnfinished
PROPERTIES
  ImplementsShoppingCart
  EventuallyForgotten
\* Every call has been made.
CHECK_DEADLOCK FALSE
