------------------------------ MODULE MC_Rehash ------------------------------
(* Five keys over tables of 2, 4 and 8 buckets (DICT_HT_INITIAL_SIZE     *)
(* scaled from 4 to 2).  The keys collide in small tables (k1/k2, k3/k4)  *)
(* and part in larger ones, so a rehash moves chains of two.  With an     *)
(* initial size of 2, the rehasher can load a sparse reading of a table   *)
(* of 4 (empty: below HASHTABLE_MIN_FILL) and the clients can add five    *)
(* keys, growing it, before the rehasher takes the lock to resize.        *)
EXTENDS Rehash, TLC

CONSTANTS k1, k2, k3, k4, k5

MCHash == (k1 :> 0) @@ (k2 :> 4) @@ (k3 :> 1) @@ (k4 :> 5) @@ (k5 :> 2)
====
