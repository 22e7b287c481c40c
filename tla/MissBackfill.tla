---------------------------- MODULE MissBackfill ----------------------------
(***************************************************************************)
(* What the miss resolver promises (spec 4.7 and invariant 2), without     *)
(* queues, threads or the bitset.  A miss submits a task for its key       *)
(* unless a task with the same CRC-16 fingerprint is in flight.  A task in *)
(* flight may install one value for its key, shaped as its key's type      *)
(* calls for, and is eventually retired; a retired task never installs.    *)
(* flight[k] counts the tasks of key k in flight, so a second task of a    *)
(* key in flight is a step this specification does not allow.              *)
(* MissResolver refines this.                                              *)
(***************************************************************************)
EXTENDS Naturals

CONSTANTS Keys, Fp, KeyType, KeyParts, Doc, NoValue

VARIABLES
  flight,   \* flight[k]: tasks of key k submitted and not yet retired
  cache     \* cache[k]: the entry installed for k, or NoValue

vars == <<flight, cache>>

\* Step 2 of task execution: the parts each type requires.
PartsOf(t) == IF t \in {"category", "tag"} THEN 3 ELSE 2

\* Steps 2 to 5: the value a task for k may install.  A key of an unknown
\* type or the wrong arity installs nothing; category and tag install the
\* weighted list; a *_stat key installs its document with the stat root
\* renamed to "data", or {} without a document or when the document lacks
\* ts or the root.
Shapes(k) ==
  LET t == KeyType[k]
  IN  IF t \notin {"category", "tag", "category_stat", "tag_stat"}
           \/ KeyParts[k] # PartsOf(t) THEN {}
      ELSE IF t \in {"category", "tag"} THEN {"weighted"}
      ELSE IF Doc[k].exists /\ {"ts", t} \subseteq Doc[k].fields THEN {"data"}
      ELSE {"empty"}

Init ==
  /\ flight = [k \in Keys |-> 0]
  /\ cache  = [k \in Keys |-> NoValue]

\* push_task: no task of the fingerprint in flight; the bit is set.
Submit(k) ==
  /\ \A j \in Keys : Fp[j] = Fp[k] => flight[j] = 0
  /\ flight' = [flight EXCEPT ![k] = 1]
  /\ UNCHANGED cache

\* Step 6: the task in flight installs its value.
Install(k, v) ==
  /\ flight[k] > 0
  /\ v \in Shapes(k)
  /\ cache' = [cache EXCEPT ![k] = v]
  /\ UNCHANGED flight

\* The task ends: the queue was full, the task failed, or step 7 cleared
\* its bit after the install.
Retire(k) ==
  /\ flight[k] > 0
  /\ flight' = [flight EXCEPT ![k] = 0]
  /\ UNCHANGED cache

\* A client DEL or the TTL removes an entry.
Evict(k) ==
  /\ cache[k] # NoValue
  /\ cache' = [cache EXCEPT ![k] = NoValue]
  /\ UNCHANGED flight

Next ==
  \E k \in Keys :
    \/ Submit(k)
    \/ \E v \in Shapes(k) : Install(k, v)
    \/ Retire(k)
    \/ Evict(k)

\* A task in flight is not left there: its resolver gets to it.
Spec == Init /\ [][Next]_vars /\ \A k \in Keys : WF_vars(Retire(k))

====
