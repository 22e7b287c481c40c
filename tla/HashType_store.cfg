\* One key, three fields, two short values, ziplists of at most two entries:
\* every handler against the abstract store, and the encoding invariants.
CONSTANTS
  k1 = k1  f1 = f1  f2 = f2  f3 = f3  v1 = v1  v2 = v2
  Nil = Nil
  HKeys = {k1}
  Fields = {f1, f2, f3}
  Vals = {v1, v2}
  ValLen <- MCValLen
  MaxArgs = 2
  MaxZiplistEntries = 2
SPECIFICATION Spec
INVARIANTS TypeOK NoEmptyHash ZiplistWithinLimit
PROPERTIES ImplementsHashStore
