\* Four keys, two values, capacities 1 to 3 (reset may switch between them).
CONSTANTS
  a = a  b = b  c = c  d = d  v1 = v1  v2 = v2  Nil = Nil
  Keys = {a, b, c, d}
  Vals = {v1, v2}
  Capacities = {1, 2, 3}
  Miss = Nil
SPECIFICATION Spec
INVARIANTS TypeOK TrackerMatchesStorage
PROPERTIES ImplementsLRUStore
