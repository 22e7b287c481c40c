\* One shard of five keys; DICT_HT_INITIAL_SIZE scaled to 2 (see MC_Rehash),
\* HASHTABLE_MIN_FILL 10, dictRehashMilliseconds rehashing 100 buckets a batch.
CONSTANTS
  k1 = k1  k2 = k2  k3 = k3  k4 = k4  k5 = k5
  Keys = {k1, k2, k3, k4, k5}
  Hash <- MCHash
  InitSize = 2
  MinFill = 10
  Batch = 100
SPECIFICATION Spec
INVARIANT TypeOK
PROPERTIES RehashCompletes SparseEventuallyResized
