\* Two workers whose clients send two commands each, one resolver with a
\* queue of one task, the rehasher, and one shard.
CONSTANTS
  w1 = w1  w2 = w2  r1 = r1  rh = rh
  NoThread = NoThread
  Workers = {w1, w2}
  Resolvers = {r1}
  Rehasher = rh
  DBNum = 1
  QueSize = 1
  MaxCmds = 2
SPECIFICATION Spec
INVARIANT TypeOK
PROPERTIES CommandsComplete BackfillsComplete
