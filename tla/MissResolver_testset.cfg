\* Two workers miss the same key at once.
CONSTANTS
  w1 = w1  w2 = w2  r1 = r1  r2 = r2  k1 = k1  k2 = k2  k3 = k3
  NoKey = NoKey
  Workers = {w1, w2}
  Resolvers = {r1, r2}
  Keys = {k1}
  Fps <- MCFps
  Fp <- MCFpDistinct
  Words <- MCWordsSplit
  WordOf <- MCWordOfSplit
  QueSize = 1
  KeyType <- MCKeyType
  KeyParts <- MCKeyParts
  Doc <- MCDoc
SPECIFICATION Spec
INVARIANT SingleFlight
