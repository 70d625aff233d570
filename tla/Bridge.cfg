\* Two sidecars, so a bridge task can outlive its own; a queue of two and three
\* messages, so it overflows, ages, is flushed in part and overtaken.
SPECIFICATION FairSpec
CONSTANTS
  MaxMessages = 3
  MaxSpawns = 2
  QueueMax = 2
INVARIANTS
  TypeOK
  MessagesKept
PROPERTIES
  HeldIsResolved
