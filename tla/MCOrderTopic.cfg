SPECIFICATION Spec
CONSTANTS
  Orders = {o1, o2}
  ChannelSize = 1
  Overload = 1
  MaxLength = 3
  NoOrder = NoOrder
  MaxFaults = 1
INVARIANTS
  WaitersAreOwed
  OnlyFaultsLoseOrders
PROPERTIES
  HandlersReturn
  EventuallyAccounted
  EventuallyCounted
CHECK_DEADLOCK FALSE
