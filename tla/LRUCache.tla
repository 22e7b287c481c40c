------------------------------ MODULE LRUCache ------------------------------
(***************************************************************************)
(* LRUCache<K, V> (src/util/lru_cache.h): a std::map from key to value and *)
(* tracker iterator, and a std::list tracker_ of the keys, least recently  *)
(* used at the front.  get and set hold the cache's lock (Guard g(lock_))  *)
(* for their whole body, so each call is one atomic step.  reset takes no  *)
(* lock; it is also one step because the class has no caller in the       *)
(* repository and the model has one caller, not threads.  A set of a new   *)
(* key into a cache holding capacity_ keys first evicts from the front of  *)
(* the tracker until fewer than nstab_ (80% of the capacity) remain.       *)
(* Logging to std::cout is left out.                                       *)
(***************************************************************************)
EXTENDS Naturals, FiniteSets, Sequences, SequencesExt, Functions

CONSTANTS Keys, Vals, Capacities, Miss

ASSUME Capacities \subseteq Nat \ {0}   \* reset: assert(capacity)

VARIABLES
  tracker,    \* tracker_: the keys, least recently used first
  storage,    \* storage_: key -> value (the tracker iterator is implicit)
  capacity,   \* capacity_
  nstab,      \* nstab_
  reply       \* [ret, val]: what the last get or set returned

vars == <<tracker, storage, capacity, nstab, reply>>

NoReply == [ret |-> 0, val |-> Miss]

Size == Cardinality(DOMAIN storage)

\* Mutant: nstab_ = (uint32_t)(capacity * 0.8) without the floor of 1.
NStabNoFloor(c) == (c * 8) \div 10

\* nstab_ = (uint32_t)(capacity * 0.8), at least 1.  The double 0.8 is
\* slightly above 4/5, and c * 0.8 rounds to a value no smaller than c*4/5,
\* so the truncation is the integer quotient.
NStab(c) == IF (c * 8) \div 10 = 0 THEN 1 ELSE (c * 8) \div 10

\* tracker_.splice(tracker_.end(), tracker_, it): the key's node moves to
\* the back.
Splice(t, k) == Append(Remove(t, k), k)

\* The constructor calls reset(capacity).
Init ==
  /\ tracker = <<>>
  /\ storage = [k \in {} |-> Miss]
  /\ \E c \in Capacities : capacity = c /\ nstab = NStab(c)
  /\ reply = NoReply

\* reset (no Guard): clear both containers and recompute nstab_.
Reset(c) ==
  /\ tracker' = <<>>
  /\ storage' = [k \in {} |-> Miss]
  /\ capacity' = c
  /\ nstab' = NStab(c)
  /\ UNCHANGED reply

\* Mutant: get returns the value without moving the key to the back.
GetNoSplice(k) ==
  /\ k \in DOMAIN storage
  /\ reply' = [ret |-> 1, val |-> storage[k]]
  /\ UNCHANGED <<tracker, storage, capacity, nstab>>

\* get, found: the key moves to the back; val = it->second.first; 1.
GetHit(k) ==
  /\ k \in DOMAIN storage
  /\ tracker' = Splice(tracker, k)
  /\ reply' = [ret |-> 1, val |-> storage[k]]
  /\ UNCHANGED <<storage, capacity, nstab>>

\* get, not found: return 0, val untouched.
GetMiss(k) ==
  /\ k \notin DOMAIN storage
  /\ reply' = NoReply
  /\ UNCHANGED <<tracker, storage, capacity, nstab>>

\* Mutant: a second node for the key is pushed instead of the splice.
SetExistingPush(k, v) ==
  /\ k \in DOMAIN storage
  /\ storage' = [storage EXCEPT ![k] = v]
  /\ tracker' = Append(tracker, k)
  /\ reply' = NoReply
  /\ UNCHANGED <<capacity, nstab>>

\* set, found: replace the value, move the key to the back, return 0.
SetExisting(k, v) ==
  /\ k \in DOMAIN storage
  /\ storage' = [storage EXCEPT ![k] = v]
  /\ tracker' = Splice(tracker, k)
  /\ reply' = NoReply
  /\ UNCHANGED <<capacity, nstab>>

\* The number of front keys the eviction loop erases: none below the
\* capacity; otherwise one per pass of while (size >= nstab_).
EvictCount == IF Size >= capacity THEN Size - nstab + 1 ELSE 0

\* set, not found: the eviction loop (erase the front key from the map,
\* pop it), then insert the key at the back of the tracker and into the
\* map; return 1.
SetNew(k, v) ==
  /\ k \notin DOMAIN storage
  /\ LET n    == EvictCount
         gone == ToSet(SubSeq(tracker, 1, n))
     IN  /\ tracker' = Append(SubSeq(tracker, n + 1, Len(tracker)), k)
         /\ storage' = [j \in (DOMAIN storage \ gone) \cup {k} |->
                          IF j = k THEN v ELSE storage[j]]
  /\ reply' = [ret |-> 1, val |-> Miss]
  /\ UNCHANGED <<capacity, nstab>>

Next ==
  \/ \E c \in Capacities : Reset(c)
  \/ \E k \in Keys : GetHit(k) \/ GetMiss(k)
  \/ \E k \in Keys, v \in Vals : SetExisting(k, v) \/ SetNew(k, v)

Spec == Init /\ [][Next]_vars

-----------------------------------------------------------------------------
(* Properties.                                                              *)

\* The recency order the tracker stands for: a later position is newer.
NewerOf(t) ==
  {<<t[p[1]], t[p[2]]>> : p \in {q \in (1 .. Len(t)) \X (1 .. Len(t)) : q[1] > q[2]}}

LS == INSTANCE LRUStore WITH mem <- storage, newer <- NewerOf(tracker),
                             cap <- capacity

TypeOK ==
  /\ tracker \in Seq(Keys)
  /\ DOMAIN storage \subseteq Keys
  /\ \A k \in DOMAIN storage : storage[k] \in Vals
  /\ capacity \in Capacities
  /\ nstab \in 1 .. capacity

\* The tracker lists every stored key exactly once and nothing else.  The
\* eviction loop relies on it: assert(!tracker_.empty()) while the map
\* still holds nstab_ keys, and assert(it != storage_.end()) for the
\* front key it erases.  get and set must keep it over any sequence of
\* calls, resets and evictions.
TrackerMatchesStorage ==
  /\ IsInjective(tracker)
  /\ ToSet(tracker) = DOMAIN storage

\* Every get, set and reset is a step of the abstract LRU store: a get or
\* set makes its key the most recent, and the batch eviction of set
\* removes only keys used before every key it keeps, leaving room.
ImplementsLRUStore == LS!Spec

====
