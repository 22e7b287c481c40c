\* One worker and one resolver, the single-producer build, and one key:
\* k3 "category_stat&&u3", whose document carries ts and category_stat.
CONSTANTS
  w1 = w1  w2 = w2  r1 = r1  r2 = r2  k1 = k1  k2 = k2  k3 = k3
  NoKey = NoKey
  Workers = {w1}
  Resolvers = {r1}
  Keys = {k3}
  Fps <- MCFps
  Fp <- MCFpDistinct
  Words <- MCWordsSplit
  WordOf <- MCWordOfSplit
  QueSize = 1
  KeyType <- MCKeyType
  KeyParts <- MCKeyParts
  Doc <- MCDoc
SPECIFICATION Spec
PROPERTY ImplementsMissBackfill
