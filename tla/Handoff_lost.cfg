\* Two workers, pipes of one record, bursts of two accepts, three clients.
CONSTANTS
  c1 = c1  c2 = c2  c3 = c3
  Conns = {c1, c2, c3}
  NWorkers = 2
  PipeCap = 1
  AcceptBatch = 2
SPECIFICATION Spec
PROPERTY AcceptedEventuallyServed
\* Once no client connects, every thread waits in its poll.
CHECK_DEADLOCK FALSE
