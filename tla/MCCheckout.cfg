SPECIFICATION Spec
CONSTANTS
  Users = {u1}
  Products = {p1}
  Orders = {o1, o2}
  Adders = {a1, a2}
  Quantities = {1}
  MaxAdds = 2
  KafkaConfigured = TRUE
  None = None
  NoUser = NoUser
INVARIANTS
  OneOrderThroughout
  StatusIsHonest
  SomethingIsPaidFor
  ChargedOnce
PROPERTIES
  EveryLossHasACause
  ImplementsOrder
SYMMETRY Symmetry
CHECK_DEADLOCK FALSE
