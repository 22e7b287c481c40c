------------------------------- MODULE Rehash -------------------------------
(***************************************************************************)
(* One shard's key dictionary and the ReHasher thread (src/rehasher.cpp).  *)
(* The dictionary has two tables of chained buckets and a rehash index     *)
(* (dict.c is not in the repository: its operations are modelled from the *)
(* spec, sections 3 and 4.1).  Client commands, and the resolver's setKey, *)
(* run under the shard's write lock, so each is one atomic step.  The      *)
(* rehasher reads dictIsRehashing and htNeedsResize (dictSlots, then       *)
(* dictSize) WITHOUT the lock, each load a step of its own, and only then  *)
(* takes the write lock to resize or to rehash for a millisecond.          *)
(***************************************************************************)
EXTENDS Integers, FiniteSets, FiniteSetsExt

CONSTANTS
  Keys,       \* keys of the shard
  Hash,       \* [Keys -> Nat]: dictObjHash of a key
  InitSize,   \* DICT_HT_INITIAL_SIZE
  MinFill,    \* HASHTABLE_MIN_FILL, in percent
  Batch       \* buckets per dictRehash call of dictRehashMilliseconds

VARIABLES
  d,          \* [t0, t1, idx]: ht[0], ht[1] and rehashidx (-1: not rehashing)
  rpc,        \* where the rehasher is in its loop
  rsize       \* the dictSlots value the rehasher loaded

vars == <<d, rpc, rsize>>

-----------------------------------------------------------------------------
(* The dictionary (spec-modelled).                                         *)
Table(s) == [size |-> s, tab |-> [i \in 0 .. s - 1 |-> {}]]
NoTable == Table(0)

KeysOf(t) == UNION {t.tab[i] : i \in DOMAIN t.tab}
Used(t) == Cardinality(KeysOf(t))
Slot(k, t) == Hash[k] % t.size

dictIsRehashing(dc) == dc.idx # -1
dictSlots(dc) == dc.t0.size + dc.t1.size
dictSize(dc)  == Used(dc.t0) + Used(dc.t1)

PutAll(t, S) == [t EXCEPT !.tab = [i \in DOMAIN @ |-> @[i] \cup {k \in S : Slot(k, t) = i}]]
DropKey(t, k) == [t EXCEPT !.tab = [i \in DOMAIN @ |-> @[i] \ {k}]]

\* _dictNextPower: the first power of two from the initial size up.
RECURSIVE NextPowerFrom(_, _)
NextPowerFrom(p, s) == IF p >= s THEN p ELSE NextPowerFrom(2 * p, s)
NextPower(s) == NextPowerFrom(InitSize, s)

\* Mutant: ht[1] is not reset when the rehash completes.
FinishNoReset(dc) ==
  IF dictIsRehashing(dc) /\ Used(dc.t0) = 0
    THEN [t0 |-> dc.t1, t1 |-> dc.t1, idx |-> -1] ELSE dc

\* When ht[0] is empty, ht[1] becomes ht[0] and the rehash ends.
Finish(dc) ==
  IF dictIsRehashing(dc) /\ Used(dc.t0) = 0
    THEN [t0 |-> dc.t1, t1 |-> NoTable, idx |-> -1] ELSE dc

\* dictRehash(d, n): up to n steps, each skipping the empty buckets from
\* rehashidx and moving the next non-empty bucket's chain to ht[1]
\* (rehashidx then points past it), then the check for completion.  The
\* n steps move the n lowest non-empty buckets from rehashidx.
dictRehash(dc, n) ==
  IF ~dictIsRehashing(dc) THEN dc
  ELSE
  LET full  == {i \in dc.idx .. dc.t0.size - 1 : dc.t0.tab[i] # {}}
      moved == {i \in full : Cardinality({j \in full : j < i}) < n}
  IN  Finish([t0  |-> [dc.t0 EXCEPT !.tab = [i \in DOMAIN @ |->
                                    IF i \in moved THEN {} ELSE @[i]]],
              t1  |-> PutAll(dc.t1, UNION {dc.t0.tab[i] : i \in moved}),
              idx |-> IF moved = {} THEN dc.idx ELSE Max(moved) + 1])

\* dictExpand: refused while rehashing or below the used count; a table of
\* the current size is not rebuilt.
dictExpand(dc, size) ==
  LET real == NextPower(size)
  IN  IF dictIsRehashing(dc) \/ Used(dc.t0) > size \/ real = dc.t0.size THEN dc
      ELSE [dc EXCEPT !.t1 = Table(real), !.idx = 0]

Minimal(dc) == IF Used(dc.t0) < InitSize THEN InitSize ELSE Used(dc.t0)

\* dictResize: shrink (or grow) to the used count, not while rehashing.
dictResize(dc) == IF dictIsRehashing(dc) THEN dc ELSE dictExpand(dc, Minimal(dc))

\* One batch of dictRehashMilliseconds(d, 1); the batch finishes every
\* table the configurations build.
dictRehashMilliseconds(dc) == dictRehash(dc, Batch)

\* dictAdd: a rehash step, the grow check (load above 1.0: the next power
\* of two holding the keys), then the insert into ht[1] while rehashing.
dictAdd(dc, k) ==
  LET d1 == dictRehash(dc, 1)
      d2 == IF ~dictIsRehashing(d1) /\ Used(d1.t0) + 1 > d1.t0.size
              THEN dictExpand(d1, Used(d1.t0) + 1) ELSE d1
  IN  IF dictIsRehashing(d2) THEN [d2 EXCEPT !.t1 = PutAll(@, {k})]
      ELSE [d2 EXCEPT !.t0 = PutAll(@, {k})]

\* dictDelete: a rehash step, then the key leaves whichever table has it.
dictDelete(dc, k) ==
  LET d1 == dictRehash(dc, 1)
  IN  [d1 EXCEPT !.t0 = DropKey(@, k), !.t1 = DropKey(@, k)]

\* htNeedsResize on the two values the rehasher loaded.
htNeedsResize(size, used) == size > InitSize /\ (used * 100) \div size < MinFill

\* The keys a lookup can reach.
StoredKeys == KeysOf(d.t0) \cup KeysOf(d.t1)

-----------------------------------------------------------------------------
(* Client writes under the write lock: SET/HSET/... on an absent key (and  *)
(* the resolver's setKey) add it, on a present key only touch the dict; a  *)
(* DEL of any key deletes.  Reads do not change the dictionary.            *)
Init ==
  /\ d = [t0 |-> Table(InitSize), t1 |-> NoTable, idx |-> -1]
  /\ rpc = "chk"
  /\ rsize = 0

SetKey(k) ==
  /\ d' = IF k \in StoredKeys THEN dictRehash(d, 1) ELSE dictAdd(d, k)
  /\ UNCHANGED <<rpc, rsize>>

DelKey(k) ==
  /\ d' = dictDelete(d, k)
  /\ UNCHANGED <<rpc, rsize>>

(* ReHasher::run, one shard: each unlocked load is a step; the resize and  *)
(* the rehash each hold the write lock for their whole call.               *)

\* Mutant: the test reads if (dictIsRehashing(...) && ...).
RCheckIdleInverted ==
  /\ rpc = "chk"
  /\ rpc' = IF ~dictIsRehashing(d) THEN "chk2" ELSE "size"
  /\ UNCHANGED <<d, rsize>>

\* !dictIsRehashing(d): a rehashing dict skips the resize check.
RCheckIdle ==
  /\ rpc = "chk"
  /\ rpc' = IF dictIsRehashing(d) THEN "chk2" ELSE "size"
  /\ UNCHANGED <<d, rsize>>

\* htNeedsResize: size = dictSlots(dict) ...
RReadSize ==
  /\ rpc = "size"
  /\ rsize' = dictSlots(d)
  /\ rpc' = "used"
  /\ UNCHANGED d

\* ... used = dictSize(dict), then the test on the two loaded values.
RReadUsed ==
  /\ rpc = "used"
  /\ rpc' = IF htNeedsResize(rsize, dictSize(d)) THEN "resize" ELSE "chk2"
  /\ UNCHANGED <<d, rsize>>

\* wrlock; dictResize; unlock.
RResize ==
  /\ rpc = "resize"
  /\ d' = dictResize(d)
  /\ rpc' = "chk2"
  /\ UNCHANGED rsize

\* Mutant: the test reads if (!dictIsRehashing(...)).
RCheckRehashingInverted ==
  /\ rpc = "chk2"
  /\ rpc' = IF ~dictIsRehashing(d) THEN "rehash" ELSE "chk"
  /\ UNCHANGED <<d, rsize>>

\* if (dictIsRehashing(...)); otherwise on to the next db and the sleep.
RCheckRehashing ==
  /\ rpc = "chk2"
  /\ rpc' = IF dictIsRehashing(d) THEN "rehash" ELSE "chk"
  /\ UNCHANGED <<d, rsize>>

\* wrlock; dictRehashMilliseconds(d, 1); unlock; usleep.
RRehash ==
  /\ rpc = "rehash"
  /\ d' = dictRehashMilliseconds(d)
  /\ rpc' = "chk"
  /\ UNCHANGED rsize

Rehasher == RCheckIdle \/ RReadSize \/ RReadUsed \/ RResize \/ RCheckRehashing \/ RRehash

Next ==
  \/ \E k \in Keys : SetKey(k) \/ DelKey(k)
  \/ Rehasher

\* The rehasher thread loops forever (its sleep ends, the write lock is
\* released by every command): weak fairness on its steps.  Exactly one
\* of them is enabled in every state (rpc selects it) and each changes
\* rpc, so this is weak fairness on each step.  Clients may stop at any
\* time.
Fairness == WF_vars(Rehasher)

Spec == Init /\ [][Next]_vars /\ Fairness

-----------------------------------------------------------------------------
(* Properties.                                                              *)

Pow2Sizes == {InitSize * 2^i : i \in 0 .. Cardinality(Keys)}

\* ht[0] always has a power-of-two size from the initial one up; ht[1]
\* exists exactly while rehashing; rehashidx stays inside ht[0].
TypeOK ==
  /\ d.t0.size \in Pow2Sizes
  /\ d.t0.tab \in [0 .. d.t0.size - 1 -> SUBSET Keys]
  /\ d.t1.tab \in [0 .. d.t1.size - 1 -> SUBSET Keys]
  /\ d.idx \in -1 .. d.t0.size
  /\ (d.idx = -1) <=> (d.t1 = NoTable)
  /\ rpc \in {"chk", "size", "used", "resize", "chk2", "rehash"}
  /\ rsize \in Nat

\* Spec: the background rehasher drives a rehash to completion even when
\* no client writes (clients migrate only while they write).
RehashCompletes == dictIsRehashing(d) ~> ~dictIsRehashing(d)

\* Spec: a table that is larger than the initial size and less than 10%
\* full is shrunk -- it does not stay so for ever.
Sparse ==
  /\ ~dictIsRehashing(d)
  /\ d.t0.size > InitSize
  /\ Used(d.t0) * 100 < MinFill * d.t0.size

SparseEventuallyResized == []<>(~Sparse)

====
