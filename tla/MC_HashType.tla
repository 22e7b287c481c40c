---------------------------- MODULE MC_HashType ----------------------------
(* One shard key, three fields, two values: enough for a ziplist with a    *)
(* limit of two entries to grow past it, and for HDEL to empty a hash.     *)
EXTENDS HashType, TLC

CONSTANTS k1, f1, f2, f3, v1, v2

\* v1 is short; v2 is 600 bytes, past hash_max_ziplist_value (512).
MCValLen == (v1 :> 1) @@ (v2 :> 600)
====
