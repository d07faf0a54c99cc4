\* A producer of three items, two closers, room for two items in each channel.
\* Exports are single steps, so that one producer stands for several.
CONSTANTS
  Producers = {p1}
  Closers = {c1, c2}
  QueueSize = 2
  MaxItems = 3
SPECIFICATION Spec
INVARIANTS PostedOnceInOrder CloseDrains
PROPERTIES QueuedIsPosted
CHECK_DEADLOCK FALSE
