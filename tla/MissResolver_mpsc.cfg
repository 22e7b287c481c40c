\* Two workers push into the one resolver queue, as four workers do in
\* server.cpp.
CONSTANTS
  w1 = w1  w2 = w2  r1 = r1  r2 = r2  k1 = k1  k2 = k2  k3 = k3
  NoKey = NoKey
  Workers = {w1, w2}
  Resolvers = {r1}
  Keys = {k1, k2}
  Fps <- MCFps
  Fp <- MCFpDistinct
  Words <- MCWordsSplit
  WordOf <- MCWordOfSplit
  QueSize = 1
  KeyType <- MCKeyType
  KeyParts <- MCKeyParts
  Doc <- MCDoc
SPECIFICATION Spec
INVARIANT SlotsInBounds
