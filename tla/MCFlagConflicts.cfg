SPECIFICATION Spec
CONSTANTS
  on = on
  off = off
  Flags = {f1, f2}
  Variants = {on, off}
  Editors = {e1}
  Dashboards = {d1}
  Typed <- MCTyped
  Shipped <- MCShipped
  NoFlags = NoFlags
  NotAMap = NotAMap
  Api = Api
  Down = Down
  Torn = Torn
  MaxMail = 2
  MaxFaults = 1
PROPERTIES
  NoLastWriterWins
CHECK_DEADLOCK FALSE
