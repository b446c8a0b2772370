SPECIFICATION FairSpec
CONSTANTS
  MaxEvents = 2
  Capacity = 1
INVARIANT NothingHeldBack
PROPERTIES
  KeepsPromise
  EventsArrive
  Heartbeat
  GoroutinesEnd
\* A request whose goroutines have ended does nothing more.
CHECK_DEADLOCK FALSE
