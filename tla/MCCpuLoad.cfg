SPECIFICATION LoadSpec
CONSTANTS
  Threads = {t1, t2, t3}
  THREAD_COUNT = 4
  NoInstance = NoInstance
INVARIANTS
  IdleLoadIsKnown
PROPERTIES
  FlagOffStopsLoad
