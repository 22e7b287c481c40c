---------------------------- MODULE MissResolver ----------------------------
(***************************************************************************)
(* The asynchronous miss resolver of icache (src/asynctask.cpp and the     *)
(* ring queue of src/util/ringque.h).                                      *)
(*                                                                         *)
(* Worker threads that miss a backfilled key call ASyncTask::PushTask: it  *)
(* tests and sets the key's CRC-16 bit in the process-wide std::bitset     *)
(* m_filter, picks the resolver with the shortest RingQue and pushes the   *)
(* MissTask.  Each resolver thread (ASyncTask::run) wakes on a signal or a *)
(* 10 ms timeout, pops tasks, runs ExecMongoTask (which may install the    *)
(* shaped JSON into the store) and resets the bit.                         *)
(*                                                                         *)
(* Nothing here is atomic in the code: std::bitset::set/reset are plain    *)
(* read-modify-writes of a machine word, and RingQue reads and writes      *)
(* m_read/m_write without fences.  Every such access is its own step, so  *)
(* the interleavings the hardware allows are states of the model.         *)
(*                                                                         *)
(* `m_buf[m_write++] = o` (ringque.h:91): MissTask holds a std::string,    *)
(* so the assignment is a call to MissTask::operator=, and the object      *)
(* expression m_buf[m_write++], with its load and store of m_write, is     *)
(* evaluated before the call.  The string copy writes chars, which may     *)
(* alias m_write, so m_write + 1 is in memory before the copy and is       *)
(* loaded again for `if (m_write > m_size) m_write = 0`: the index is      *)
(* published before the slot is written, and m_size + 1 is visible until  *)
(* the wrap.  x86 makes stores visible in program order.  Pop does the     *)
(* same with m_read (ringque.h:103).                                       *)
(***************************************************************************)
EXTENDS Naturals, Sequences, FiniteSets

CONSTANTS
  Workers,    \* worker threads that call PushTask (server.cpp starts 4)
  Resolvers,  \* ASyncTask threads (server.cpp starts 2)
  Keys,       \* miss-task keys "type&&uid&&param"
  NoKey,      \* the empty std::string of a slot that was never written
  Fps,        \* CRC-16 fingerprints, crc16(key) % 65536
  Fp,         \* [Keys \cup {NoKey} -> Fps]
  Words,      \* machine words of the bitset
  WordOf,     \* [Fps -> Words]: the word that holds a fingerprint's bit
  QueSize,    \* RingQue m_size (server.cpp passes 1024)
  KeyType,    \* [Keys \cup {NoKey} -> STRING]: eles[0] after the split
  KeyParts,   \* [Keys \cup {NoKey} -> Nat]: eles.size() after the split
  Doc         \* [Keys -> [exists: BOOLEAN, fields: SUBSET DocFields]]

DocFields == {"ts", "category_stat", "tag_stat"}
DataTypes == {"category", "tag", "category_stat", "tag_stat"}
AllKeys   == Keys \cup {NoKey}

ASSUME
  /\ Workers # {} /\ Resolvers # {}
  /\ NoKey \notin Keys
  /\ Fp \in [AllKeys -> Fps]
  /\ WordOf \in [Fps -> Words]
  /\ QueSize \in Nat \ {0}
  /\ KeyParts \in [AllKeys -> Nat]
  /\ Doc \in [Keys -> [exists: BOOLEAN, fields: SUBSET DocFields]]

\* What ExecMongoTask installs: the category/tag projection, the renamed
\* stat document, or "{}".  NoValue marks a key that is not in the store.
Values  == {"weighted", "data", "empty"}
NoValue == "none"
Slots   == 0 .. QueSize

VARIABLES
  filter,   \* filter[wd]: the bits of ASyncTask::m_filter set in word wd
  ring,     \* ring[r]: m_queue of resolver r as [buf, rd, wr]
  cache,    \* cache[k]: the store entry for k (only backfill writes it here)
  wpc,      \* wpc[w]: where worker w is inside PushTask
  wkey,     \* wkey[w]: the key worker w is pushing
  wword,    \* wword[w]: the bitset word w loaded for its read-modify-write
  wtarget,  \* wtarget[w]: m_tasks[minIndex]
  wslot,    \* wslot[w]: the m_write value w loaded for m_write++
  rpc,      \* rpc[r]: where resolver r is inside run()
  rtask,    \* rtask[r]: task.key popped by r
  rword,    \* rword[r]: the bitset word r loaded for m_filter.reset
  rslot,    \* rslot[r]: the m_read value r loaded for m_read++
  owed      \* history: owed[r] = keys published to r and not yet popped

vars == <<filter, ring, cache, wpc, wkey, wword, wtarget, wslot,
          rpc, rtask, rword, rslot, owed>>
workerVars   == <<wpc, wkey, wword, wtarget, wslot>>
resolverVars == <<rpc, rtask, rword, rslot>>

-----------------------------------------------------------------------------
(* RingQue<MissTask> (src/util/ringque.h): m_size + 1 slots, one kept free. *)

RingLen(q) ==
  IF q.rd = q.wr THEN 0
  ELSE IF q.rd < q.wr THEN q.wr - q.rd
  ELSE q.wr + (QueSize + 1 - q.rd)

Full(q)  == (q.wr + 1) % (QueSize + 1) = q.rd
Empty(q) == q.rd = q.wr

\* m_buf[i] = key; an index past the buffer writes outside it (not kept).
StoreSlot(buf, i, k) == IF i \in Slots THEN [buf EXCEPT ![i] = k] ELSE buf

\* Bits of m_filter that are set, over all words.
Bits == UNION {filter[wd] : wd \in Words}

-----------------------------------------------------------------------------
(* ExecMongoTask (asynctask.cpp:44-272) without its I/O: what it installs   *)
(* for key k when the presence probe answers `present` and the document    *)
(* store query succeeds (`queryOk`); NoValue when it returns early.        *)

\* Both stat branches send the projection {_id:0, tag_stat:1, ts:1}.
StatProjection(t) == {"tag_stat", "ts"}

StatRoot(t) == IF t = "category_stat" THEN "category_stat" ELSE "tag_stat"

\* The *_stat reply: "{}" without a document or when the projected document
\* lacks ts or the stat root, otherwise the document with the root renamed.
StatReply(k) ==
  LET got == Doc[k].fields \cap StatProjection(KeyType[k])
  IN  IF ~Doc[k].exists THEN "empty"
      ELSE IF {"ts", StatRoot(KeyType[k])} \subseteq got THEN "data"
      ELSE "empty"

Backfill(k, present, queryOk) ==
  IF KeyParts[k] < 2 \/ KeyType[k] \notin DataTypes \/ ~present
    THEN NoValue
  ELSE IF KeyType[k] \in {"category", "tag"}
    THEN IF KeyParts[k] # 3 \/ ~queryOk THEN NoValue ELSE "weighted"
  ELSE IF KeyParts[k] # 2 \/ ~queryOk THEN NoValue
  ELSE StatReply(k)

-----------------------------------------------------------------------------
\* The value a worker's target holds outside PushTask (never read there).
AnyResolver == CHOOSE r \in Resolvers : TRUE

Init ==
  /\ filter  = [wd \in Words |-> {}]
  /\ ring    = [r \in Resolvers |-> [buf |-> [i \in Slots |-> NoKey],
                                     rd |-> 0, wr |-> 0]]
  /\ cache   = [k \in Keys |-> NoValue]
  /\ wpc     = [w \in Workers |-> "idle"]
  /\ wkey    = [w \in Workers |-> NoKey]
  /\ wword   = [w \in Workers |-> {}]
  /\ wtarget = [w \in Workers |-> AnyResolver]
  /\ wslot   = [w \in Workers |-> 0]
  /\ rpc     = [r \in Resolvers |-> "wait"]
  /\ rtask   = [r \in Resolvers |-> NoKey]
  /\ rword   = [r \in Resolvers |-> {}]
  /\ rslot   = [r \in Resolvers |-> 0]
  /\ owed    = [r \in Resolvers |-> <<>>]

-----------------------------------------------------------------------------
(* Worker side.                                                             *)

\* A GET misses a backfilled key and the handler calls PushTask(key).
Miss(w, k) ==
  /\ wpc[w] = "idle"
  /\ cache[k] = NoValue
  /\ wpc'  = [wpc EXCEPT ![w] = "test"]
  /\ wkey' = [wkey EXCEPT ![w] = k]
  /\ UNCHANGED <<filter, ring, cache, wword, wtarget, wslot,
                 resolverVars, owed>>

\* PushTask returns: its locals (h, task, minIndex, the loaded indices)
\* go out of scope.
ReturnToIdle(w) ==
  /\ wpc'     = [wpc EXCEPT ![w] = "idle"]
  /\ wkey'    = [wkey EXCEPT ![w] = NoKey]
  /\ wword'   = [wword EXCEPT ![w] = {}]
  /\ wtarget' = [wtarget EXCEPT ![w] = AnyResolver]
  /\ wslot'   = [wslot EXCEPT ![w] = 0]

\* if (m_filter.test(h)) return -100;
PushTaskRunning(w) ==
  LET h == Fp[wkey[w]]
  IN  /\ wpc[w] = "test"
      /\ h \in filter[WordOf[h]]
      /\ ReturnToIdle(w)
      /\ UNCHANGED <<filter, ring, cache, resolverVars, owed>>

PushTaskTest(w) ==
  LET h == Fp[wkey[w]]
  IN  /\ wpc[w] = "test"
      /\ h \notin filter[WordOf[h]]
      /\ wpc' = [wpc EXCEPT ![w] = "setRead"]
      /\ UNCHANGED <<filter, ring, cache, wkey, wword, wtarget, wslot,
                     resolverVars, owed>>

\* m_filter.set(h): load the word ...
PushTaskSetRead(w) ==
  /\ wpc[w] = "setRead"
  /\ wword' = [wword EXCEPT ![w] = filter[WordOf[Fp[wkey[w]]]]]
  /\ wpc'   = [wpc EXCEPT ![w] = "setWrite"]
  /\ UNCHANGED <<filter, ring, cache, wkey, wtarget, wslot, resolverVars, owed>>

\* ... and store it back with bit h set.
PushTaskSetWrite(w) ==
  LET h == Fp[wkey[w]]
  IN  /\ wpc[w] = "setWrite"
      /\ filter' = [filter EXCEPT ![WordOf[h]] = wword[w] \cup {h}]
      /\ wpc'    = [wpc EXCEPT ![w] = "choose"]
      /\ UNCHANGED <<ring, cache, wkey, wword, wtarget, wslot,
                     resolverVars, owed>>

\* The random-start probe for the shortest queue ends on one of minimal
\* Len(); which one depends on rand(), so any of them.
PushTaskChoose(w) ==
  /\ wpc[w] = "choose"
  /\ \E r \in Resolvers :
       /\ \A s \in Resolvers : RingLen(ring[r]) <= RingLen(ring[s])
       /\ wtarget' = [wtarget EXCEPT ![w] = r]
  /\ wpc' = [wpc EXCEPT ![w] = "push"]
  /\ UNCHANGED <<filter, ring, cache, wkey, wword, wslot, resolverVars, owed>>

\* RingQue::Push: if (Full()) return -1;  Full() loads m_read and m_write
\* on its own, before Push loads m_write again for the store.
PushFull(w) ==
  /\ wpc[w] = "push"
  /\ Full(ring[wtarget[w]])
  /\ wpc' = [wpc EXCEPT ![w] = "failRead"]
  /\ UNCHANGED <<filter, ring, cache, wkey, wword, wtarget, wslot,
                 resolverVars, owed>>

PushNotFull(w) ==
  /\ wpc[w] = "push"
  /\ ~Full(ring[wtarget[w]])
  /\ wpc' = [wpc EXCEPT ![w] = "claim"]
  /\ UNCHANGED <<filter, ring, cache, wkey, wword, wtarget, wslot,
                 resolverVars, owed>>

\* m_buf[m_write++] = o, first the load of m_write ...
PushClaim(w) ==
  /\ wpc[w] = "claim"
  /\ wslot' = [wslot EXCEPT ![w] = ring[wtarget[w]].wr]
  /\ wpc'   = [wpc EXCEPT ![w] = "bump"]
  /\ UNCHANGED <<filter, ring, cache, wkey, wword, wtarget, resolverVars, owed>>

\* ... then the store of m_write + 1, which publishes the slot to the
\* resolver before the task is in it ...
PushBump(w) ==
  LET r == wtarget[w]
  IN  /\ wpc[w] = "bump"
      /\ ring' = [ring EXCEPT ![r].wr = wslot[w] + 1]
      /\ owed' = [owed EXCEPT ![r] = Append(@, wkey[w])]
      /\ wpc'  = [wpc EXCEPT ![w] = "copy"]
      /\ UNCHANGED <<filter, cache, wkey, wword, wtarget, wslot, resolverVars>>

\* ... then MissTask::operator= copies the task into m_buf[i].
PushCopy(w) ==
  LET r == wtarget[w]
  IN  /\ wpc[w] = "copy"
      /\ ring' = [ring EXCEPT ![r].buf = StoreSlot(@, wslot[w], wkey[w])]
      /\ wpc'  = [wpc EXCEPT ![w] = "wrap"]
      /\ UNCHANGED <<filter, cache, wkey, wword, wtarget, wslot,
                     resolverVars, owed>>

\* if (m_write > m_size) m_write = 0;  Push then returns Len() >= 0 and
\* PushTask signals the resolver and returns.
PushWrap(w) ==
  LET r == wtarget[w]
  IN  /\ wpc[w] = "wrap"
      /\ ring' = [ring EXCEPT ![r].wr = IF @ > QueSize THEN 0 ELSE @]
      /\ ReturnToIdle(w)
      /\ UNCHANGED <<filter, cache, resolverVars, owed>>

\* if (ret < 0) m_filter.reset(h): load the word ...
PushFailRead(w) ==
  /\ wpc[w] = "failRead"
  /\ wword' = [wword EXCEPT ![w] = filter[WordOf[Fp[wkey[w]]]]]
  /\ wpc'   = [wpc EXCEPT ![w] = "failWrite"]
  /\ UNCHANGED <<filter, ring, cache, wkey, wtarget, wslot, resolverVars, owed>>

\* ... and store it back with bit h clear; PushTask returns -1.
PushFailWrite(w) ==
  LET h == Fp[wkey[w]]
  IN  /\ wpc[w] = "failWrite"
      /\ filter' = [filter EXCEPT ![WordOf[h]] = wword[w] \ {h}]
      /\ ReturnToIdle(w)
      /\ UNCHANGED <<ring, cache, resolverVars, owed>>

-----------------------------------------------------------------------------
(* Resolver side: ASyncTask::run.                                           *)

\* pthread_cond_timedwait returns on a signal or after 10 ms.
Wake(r) ==
  /\ rpc[r] = "wait"
  /\ rpc' = [rpc EXCEPT ![r] = "drain"]
  /\ UNCHANGED <<filter, ring, cache, workerVars, rtask, rword, rslot, owed>>

\* while (!m_stop && m_queue->Pop(task) >= 0): Pop found the queue empty.
DrainEmpty(r) ==
  /\ rpc[r] = "drain"
  /\ Empty(ring[r])
  /\ rpc' = [rpc EXCEPT ![r] = "wait"]
  /\ UNCHANGED <<filter, ring, cache, workerVars, rtask, rword, rslot, owed>>

\* o = m_buf[m_read++]: the load and store of m_read (the resolver is the
\* only writer of m_read) ...
PopClaim(r) ==
  /\ rpc[r] = "drain"
  /\ ~Empty(ring[r])
  /\ rslot' = [rslot EXCEPT ![r] = ring[r].rd]
  /\ ring'  = [ring EXCEPT ![r].rd = @ + 1]
  /\ rpc'   = [rpc EXCEPT ![r] = "copy"]
  /\ UNCHANGED <<filter, cache, workerVars, rtask, rword, owed>>

\* ... then MissTask::operator= copies m_buf[i] out into the task.
PopCopy(r) ==
  /\ rpc[r] = "copy"
  /\ rtask' = [rtask EXCEPT ![r] = ring[r].buf[rslot[r]]]
  /\ owed'  = [owed EXCEPT ![r] = IF @ = <<>> THEN @ ELSE Tail(@)]
  /\ rpc'   = [rpc EXCEPT ![r] = "wrap"]
  /\ UNCHANGED <<filter, ring, cache, workerVars, rword, rslot>>

\* if (m_read > m_size) m_read = 0;
PopWrap(r) ==
  /\ rpc[r] = "wrap"
  /\ ring' = [ring EXCEPT ![r].rd = IF @ > QueSize THEN 0 ELSE @]
  /\ rpc'  = [rpc EXCEPT ![r] = "exec"]
  /\ UNCHANGED <<filter, cache, workerVars, rtask, rword, rslot, owed>>

\* ExecMongoTask(task.key): the presence probe and the document query are
\* external calls with any outcome; a result is installed with
\* setKey(..., 7 days) under the shard's write lock, which serialises it
\* with every command on that shard.
ExecMongoTask(r) ==
  /\ rpc[r] = "exec"
  /\ \E present, queryOk \in BOOLEAN :
       LET k == rtask[r]
           v == IF k \in Keys THEN Backfill(k, present, queryOk) ELSE NoValue
       IN  cache' = IF v = NoValue THEN cache ELSE [cache EXCEPT ![k] = v]
  /\ rpc' = [rpc EXCEPT ![r] = "resetRead"]
  /\ UNCHANGED <<filter, ring, workerVars, rtask, rword, rslot, owed>>

\* m_filter.reset(crc16(task.key) % m_filter.size()): load the word ...
ResetRead(r) ==
  /\ rpc[r] = "resetRead"
  /\ rword' = [rword EXCEPT ![r] = filter[WordOf[Fp[rtask[r]]]]]
  /\ rpc'   = [rpc EXCEPT ![r] = "resetWrite"]
  /\ UNCHANGED <<filter, ring, cache, workerVars, rtask, rslot, owed>>

\* ... and store it back with the bit clear; back to the drain loop.
ResetWrite(r) ==
  LET h == Fp[rtask[r]]
  IN  /\ rpc[r] = "resetWrite"
      /\ filter' = [filter EXCEPT ![WordOf[h]] = rword[r] \ {h}]
      /\ rpc'    = [rpc EXCEPT ![r] = "drain"]
      /\ rtask'  = [rtask EXCEPT ![r] = NoKey]
      /\ rword'  = [rword EXCEPT ![r] = {}]
      /\ rslot'  = [rslot EXCEPT ![r] = 0]
      /\ UNCHANGED <<ring, cache, workerVars, owed>>

-----------------------------------------------------------------------------
(* Environment: a client DEL or the 7-day TTL removes an installed entry.   *)

Evict(k) ==
  /\ cache[k] # NoValue
  /\ cache' = [cache EXCEPT ![k] = NoValue]
  /\ UNCHANGED <<filter, ring, workerVars, resolverVars, owed>>

-----------------------------------------------------------------------------
WorkerStep(w) ==
  \/ PushTaskRunning(w)
  \/ PushTaskTest(w)
  \/ PushTaskSetRead(w)
  \/ PushTaskSetWrite(w)
  \/ PushTaskChoose(w)
  \/ PushFull(w)
  \/ PushNotFull(w)
  \/ PushClaim(w)
  \/ PushBump(w)
  \/ PushCopy(w)
  \/ PushWrap(w)
  \/ PushFailRead(w)
  \/ PushFailWrite(w)

ResolverStep(r) ==
  \/ Wake(r)
  \/ DrainEmpty(r)
  \/ PopClaim(r)
  \/ PopCopy(r)
  \/ PopWrap(r)
  \/ ExecMongoTask(r)
  \/ ResetRead(r)
  \/ ResetWrite(r)

Next ==
  \/ \E w \in Workers, k \in Keys : Miss(w, k)
  \/ \E w \in Workers : WorkerStep(w)
  \/ \E r \in Resolvers : ResolverStep(r)
  \/ \E k \in Keys : Evict(k)

\* Every thread keeps running: a worker finishes the PushTask it started,
\* and a resolver's timed wait returns after 10 ms even without a signal.
\* Clients (Miss) and deletions (Evict) are not required to happen.
Fairness ==
  /\ \A w \in Workers : WF_vars(WorkerStep(w))
  /\ \A r \in Resolvers : WF_vars(ResolverStep(r))

Spec == Init /\ [][Next]_vars /\ Fairness

-----------------------------------------------------------------------------
(* Properties.                                                              *)

\* A task is in flight from the moment its bit is set until the resolver
\* that popped it has cleared the bit again; from the store of m_write + 1
\* until a resolver copies it out it is in owed.
PreVisible(w) == wpc[w] \in {"choose", "push", "claim", "bump"}

Running(r) == rpc[r] \in {"wrap", "exec", "resetRead", "resetWrite"}

\* The number of tasks with fingerprint h in flight.
Tasks(h) ==
  Cardinality({w \in Workers : PreVisible(w) /\ Fp[wkey[w]] = h})
  + Cardinality({r \in Resolvers : Running(r) /\ Fp[rtask[r]] = h})
  + Cardinality(UNION {{<<r, i>> : i \in {j \in DOMAIN owed[r] : Fp[owed[r][j]] = h}}
                        : r \in Resolvers})

\* Spec 8 invariant 2 and scenario 4: with PushTask's filter, at most one
\* task per CRC-16 fingerprint is queued or executing at any instant.
SingleFlight == \A h \in Fps : Tasks(h) <= 1

\* RingQue touches only m_buf[0 .. m_size]: no producer copies a task into
\* a slot past the end of the buffer.  m_write is loaded and stored by
\* each producer on its own, and holds m_size + 1 between a producer's
\* store and its wrap.
SlotsInBounds == \A w \in Workers : wpc[w] = "copy" => wslot[w] \in Slots

\* The fingerprint a step stores back into m_filter: a worker's set or
\* failure reset, or a resolver's reset.
StoredBits ==
  {Fp[wkey[w]] : w \in {v \in Workers : wpc[v] \in {"setWrite", "failWrite"}
                                        /\ wpc'[v] # wpc[v]}}
  \cup {Fp[rtask[r]] : r \in {q \in Resolvers : rpc[q] = "resetWrite"
                                                /\ rpc'[q] # rpc[q]}}

\* Spec 5 (ownership): filter operations are atomic per bit, so m_filter.set(h) and
\* m_filter.reset(h) change bit h and no other bit of m_filter.
BitOpsAtomic ==
  [][\A wd \in Words, h \in Fps \ StoredBits :
       (h \in filter'[wd]) = (h \in filter[wd])]_vars

\* The tasks of key k in flight (the count Tasks(h) makes per fingerprint).
InFlight ==
  [k \in Keys |->
     Cardinality({w \in Workers : PreVisible(w) /\ wkey[w] = k})
     + Cardinality({r \in Resolvers : Running(r) /\ rtask[r] = k})
     + Cardinality(UNION {{<<r, i>> : i \in {j \in DOMAIN owed[r] : owed[r][j] = k}}
                           : r \in Resolvers})]

MB == INSTANCE MissBackfill WITH flight <- InFlight

\* Spec 4.7 as a whole: PushTask, the queue and run() together behave as
\* single-flight submission, an install only by a task still in flight
\* (before ResetWrite clears its bit) in the shape the key's type calls
\* for, and a retirement of every task.  ExecMongoTask's stat branches
\* (asynctask.cpp:169-248) must install the stat root renamed to "data".
ImplementsMissBackfill == MB!Spec

\* Spec 3 (lifecycles) and 4.7 (failure handling): every set filter bit is
\* eventually cleared, so a key whose backfill finished or failed can be
\* requested again.
BitsEventuallyClear == \A h \in Fps : h \in Bits ~> h \notin Bits

=============================================================================
