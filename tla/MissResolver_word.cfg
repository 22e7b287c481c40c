\* One producer and one resolver; the two fingerprints share a machine
\* word of the bitset.
CONSTANTS
  w1 = w1  w2 = w2  r1 = r1  r2 = r2  k1 = k1  k2 = k2  k3 = k3
  NoKey = NoKey
  Workers = {w1}
  Resolvers = {r1}
  Keys = {k1, k2}
  Fps <- MCFps
  Fp <- MCFpDistinct
  Words <- MCWordsShared
  WordOf <- MCWordOfShared
  QueSize = 1
  KeyType <- MCKeyType
  KeyParts <- MCKeyParts
  Doc <- MCDoc
SPECIFICATION Spec
PROPERTY BitOpsAtomic
