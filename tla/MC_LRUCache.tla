---------------------------- MODULE MC_LRUCache ----------------------------
(* Four keys and two values.  Capacities 1, 2 and 3 give nstab_ 1 (the    *)
(* floor of 0.8 raised to 1), 1 and 2: a set into a full cache of 3 evicts *)
(* two keys at once, one into a full cache of 1 or 2 evicts all of them.   *)
EXTENDS LRUCache

CONSTANTS a, b, c, d, v1, v2, Nil
====
