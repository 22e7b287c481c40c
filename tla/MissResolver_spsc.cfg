\* One producer and one resolver with a queue of one task: RingQue used as
\* the single-producer queue it was written as.  k1 and k2 have their own
\* fingerprints; the empty key of a never-written slot hashes like k1.
CONSTANTS
  w1 = w1  w2 = w2  r1 = r1  r2 = r2  k1 = k1  k2 = k2  k3 = k3
  NoKey = NoKey
  Workers = {w1}
  Resolvers = {r1}
  Keys = {k1, k2}
  Fps <- MCFps
  Fp <- MCFpDistinct
  Words <- MCWordsSplit
  WordOf <- MCWordOfSplit
  QueSize = 1
  KeyType <- MCKeyType
  KeyParts <- MCKeyParts
  Doc <- MCDoc
SPECIFICATION Spec
PROPERTY BitsEventuallyClear
