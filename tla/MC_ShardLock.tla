---------------------------- MODULE MC_ShardLock ----------------------------
(* Instances of ShardLock for TLC: threads are model values.                *)
EXTENDS ShardLock

CONSTANTS w1, w2, r1, rh
====
