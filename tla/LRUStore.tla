------------------------------ MODULE LRUStore ------------------------------
(***************************************************************************)
(* What a bounded least-recently-used cache promises its callers, without *)
(* saying how recency is kept.  The store maps keys to values and orders   *)
(* the stored keys by their last use: newer holds <<a, b>> when a was used *)
(* after b.  A get of a stored key returns its value and makes it the most *)
(* recent; a set stores the value and makes the key the most recent.  A   *)
(* set of a new key into a full store first evicts some keys, each older   *)
(* than every key kept, enough that the new key fits.  How many it evicts  *)
(* is left open.  LRUCache refines this.                                   *)
(***************************************************************************)
EXTENDS Naturals, FiniteSets

CONSTANTS Keys, Vals, Capacities, Miss

VARIABLES
  mem,     \* the stored keys and their values
  newer,   \* the recency order of the stored keys
  cap,     \* the capacity
  reply    \* [ret, val] of the last get or set

vars == <<mem, newer, cap, reply>>

NoReply == [ret |-> 0, val |-> Miss]

Stored == DOMAIN mem

\* k becomes the most recent of the keys S.
Touch(k, S, rel) ==
  {p \in rel : k \notin {p[1], p[2]} /\ {p[1], p[2]} \subseteq S}
    \cup {<<k, j>> : j \in S \ {k}}

\* The key sets a set of a new key may evict: none while there is room;
\* otherwise a non-empty set of keys older than all the kept ones, after
\* which there is room.
Evictable ==
  IF Cardinality(Stored) < cap THEN {{}}
  ELSE {E \in SUBSET Stored :
          /\ E # {}
          /\ Cardinality(Stored \ E) < cap
          /\ \A e \in E, r \in Stored \ E : <<r, e>> \in newer}

Init ==
  /\ mem = [k \in {} |-> Miss]
  /\ newer = {}
  /\ cap \in Capacities
  /\ reply = NoReply

Reset(c) ==
  /\ mem' = [k \in {} |-> Miss]
  /\ newer' = {}
  /\ cap' = c
  /\ UNCHANGED reply

GetHit(k) ==
  /\ k \in Stored
  /\ newer' = Touch(k, Stored, newer)
  /\ reply' = [ret |-> 1, val |-> mem[k]]
  /\ UNCHANGED <<mem, cap>>

GetMiss(k) ==
  /\ k \notin Stored
  /\ reply' = NoReply
  /\ UNCHANGED <<mem, newer, cap>>

SetExisting(k, v) ==
  /\ k \in Stored
  /\ mem' = [mem EXCEPT ![k] = v]
  /\ newer' = Touch(k, Stored, newer)
  /\ reply' = NoReply
  /\ UNCHANGED cap

SetNew(k, v) ==
  /\ k \notin Stored
  /\ \E E \in Evictable :
       LET kept == (Stored \ E) \cup {k}
       IN  /\ mem' = [j \in kept |-> IF j = k THEN v ELSE mem[j]]
           /\ newer' = Touch(k, kept, newer)
  /\ reply' = [ret |-> 1, val |-> Miss]
  /\ UNCHANGED cap

Next ==
  \/ \E c \in Capacities : Reset(c)
  \/ \E k \in Keys : GetHit(k) \/ GetMiss(k)
  \/ \E k \in Keys, v \in Vals : SetExisting(k, v) \/ SetNew(k, v)

Spec == Init /\ [][Next]_vars

====
