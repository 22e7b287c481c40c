# TLA+ models of icache

icache (`src/src`) is a Redis-protocol cache server that fills itself from a
document store. This directory holds TLA+ models of:
- its concurrent miss resolver, against the single-flight backfill the spec
  describes (four defects of the code are shown as counterexamples);
- a shard's hash type, shown to implement an abstract store, and its key
  dictionary under the rehasher thread;
- the listener's hand-off of connections to the workers;
- the lock protocol the workers, resolvers and rehasher share: the shard
  rwlocks and each resolver's queue mutex, checked free of deadlock and
  starvation;
- the LRU cache utility, shown to implement an abstract LRU store;
- the pure algorithms between them: command routing and hash-tag slots, and
  the decoding of stored documents.

It also holds the TLC configurations that check those models.

## The system

| Part | Source | Threads / state |
|---|---|---|
| Listener | `listener.cpp` | One thread runs `aeMain`. `AcceptHandler` accepts up to 32 connections per event and writes each fd, round-robin, into a worker's non-blocking notify pipe. |
| Workers | `worker.cpp`, `tiny-redis/server.cpp` | Four `aeMain` loops. `processCommand` looks up the command, checks arity and routes the command to a shard. `getDBIndex` uses `keyHashSlot` (CRC-16 with `{tag}` hash tags). Slot 0x4000 is reserved for admin commands. The command runs under that shard's `pthread_rwlock`, taken as a read or write lock by command flag. |
| Shards | `tiny-redis/server.cpp` (`CreateTinyRedisDB`) | Each shard has its own dict, rwlock and dirty counter. The dict code (`dict.c`) and the string/GET handlers are not in the repository. |
| Hash type | `tiny-redis/t_hash.cpp` | HSET/HSETNX/HMSET/HDEL/HGET… work on a ziplist, which converts one way to a table when it grows. |
| Rehasher | `rehasher.cpp` | One thread, every 2 s. For each shard it checks `dictIsRehashing`/`htNeedsResize` without the lock, then resizes and rehashes under the write lock. |
| Miss resolver | `asynctask.cpp`, `util/ringque.h` | A GET miss calls `ASyncTask::PushTask(key)`. It tests and sets the key's CRC-16 bit in a process-wide 65,536-bit `std::bitset`, picks the resolver whose `RingQue` is shortest, and pushes the task. Two resolver threads (`ASyncTask::run`) wake on a signal or every 10 ms, drain their queue, run `ExecMongoTask` (split the key, probe presence, query the document store, shape the JSON, `setKey` under the shard write lock) and reset the bit. |
| Document-store client | `common/mongo_cli.cpp` | `query` builds a projection for the requested categories/tags. `ParseODoc` → `ParseCategory`/`ParseTag` → `ParseOCategory`/`ParseOTag` decode the answer into `CategoryInfo`/`TagInfo` weight lists. |
| Utilities | `util/*`, `common/log.*` | `Util::separate`, time helpers, pthread wrappers, logging, and `LRUCache` (a locked LRU map with batch eviction, not called by the server). |

How they interact:
- The workers are the producers of the miss resolver. The resolvers write
  into the same shards the workers serve, under the same rwlock.
- The rehasher competes with both for that rwlock.

## Modules

| Module | Models | Kind |
|---|---|---|
| `MissBackfill.tla` | what the miss resolver promises (spec 4.7): single-flight submission per fingerprint, an install only by a task in flight and in its type's shape, every task retired | abstract specification |
| `MissResolver.tla` (+ `MC_MissResolver.tla`) | `ASyncTask::PushTask`, `ASyncTask::run`, `RingQue` | state machine of workers and resolvers |
| `HashStore.tla` | what one shard promises for the hash and string commands | abstract specification |
| `HashType.tla` (+ `MC_HashType.tla`) | `t_hash.cpp` command handlers and the ziplist→table conversion | state machine refining `HashStore` |
| `KeyRouting.tla` (+ `MC_KeyRouting.tla`) | `processCommand`, `getDBIndex`, `getKeysFromCommand`, `keyHashSlot` | operators checked against reference definitions |
| `Rehash.tla` (+ `MC_Rehash.tla`) | `ReHasher::run`, `htNeedsResize`, and the client writes it races with, over a spec-modelled two-table dict | state machine of the rehasher and the clients |
| `Handoff.tla` (+ `MC_Handoff.tla`) | `Listener::AcceptHandler`, `Worker::init`'s non-blocking pipe, the worker's pipe read | state machine of the listener and workers |
| `ShardLock.tla` (+ `MC_ShardLock.tla`) | the shard `pthread_rwlock` in `processCommand`, `ASyncTask::run`'s `m_lockQue` and install write lock, `PushTask`'s signal, `ReHasher::run`'s loop | state machine of every thread's lock steps |
| `LRUStore.tla` | what a bounded least-recently-used cache promises: values, a recency order, eviction of only the oldest keys | abstract specification |
| `LRUCache.tla` (+ `MC_LRUCache.tla`) | `LRUCache<K, V>` (`util/lru_cache.h`): `reset`, `get`, `set` with its eviction loop | state machine refining `LRUStore` |
| `DocParsing.tla` (+ `MC_DocParsing.tla`) | `MongoCli::query` (uid form), `ParseODoc`, `ParseCategory`/`ParseTag`, `ParseOCategory`/`ParseOTag`, the category/tag branches of `ExecMongoTask` | operators checked against reference definitions |

### `MissResolver.tla`: the asynchronous miss resolver and its ring queue

State:

| Variable | Code |
|---|---|
| `filter[wd]` | The bits of `ASyncTask::m_filter` in machine word `wd`. |
| `ring[r]` | `[buf, rd, wr]`: `m_buf`, `m_read` and `m_write` of resolver `r`'s `RingQue`. |
| `cache[k]` | The store entry for key `k`. Only the backfill and deletion touch it here. |
| `wpc`, `wkey`, `wword`, `wtarget`, `wslot` | A worker's position inside `PushTask`, its key, the bitset word it loaded, `minIndex`, and the `m_write` value it loaded. |
| `rpc`, `rtask`, `rword`, `rslot` | The same for a resolver inside `run`. |
| `owed[r]` | A history variable: the keys published to `r` (by the store of `m_write + 1`) and not yet copied out. `SingleFlight` and the refinement mapping use it. |

How the build orders `m_buf[m_write++] = o` (`ringque.h:91`). `MissTask`
holds a `std::string`, so the assignment is a call to `MissTask::operator=`.
The object expression `m_buf[m_write++]`, with its load and its store of
`m_write`, is evaluated before the call. The string copy writes chars, which
may alias `m_write`, so `m_write + 1` is in memory before the copy and is
loaded again for the wrap at lines 92-93. x86 makes stores visible in program
order. So the index is published before the slot is written, and `m_size + 1`
stays visible until the wrap. `Pop` (`:103-105`) does the same with `m_read`.

Actions:
- **Worker side.** Each is one step of `PushTask` / `RingQue::Push`:
  - `Miss` is the GET handler's call. It is not in the repository, so it is spec-modelled.
  - `PushTaskRunning` is `test(h)` returning -100.
  - `PushTaskTest`.
  - `PushTaskSetRead` / `PushTaskSetWrite`: `set(h)` is a load and a store of the word.
  - `PushTaskChoose`: any queue of minimal `Len()`, since the probe starts at `rand()`.
    The probe reads every length in one step. The code reads them one by one, so
    the model explores fewer stale choices than the code allows. The
    consequence that matters, the chosen queue being full by the push, is
    still reached because other steps run between the choice and the push.
  - `PushFull` / `PushNotFull`: `Full()` loads the indices itself.
  - `PushClaim`: the load of `m_write`.
  - `PushBump`: the store of `m_write + 1`.
  - `PushCopy`: `operator=` into `m_buf[i]`.
  - `PushWrap`: `if (m_write > m_size) m_write = 0`, then return.
  - `PushFailRead` / `PushFailWrite`: `reset(h)` when `Push` returned -1.
- **Resolver side:**
  - `Wake`: `pthread_cond_timedwait` returns.
  - `DrainEmpty`: `Pop` finds the queue empty.
  - `PopClaim`: the load and store of `m_read`.
  - `PopCopy`: the copy out of the slot.
  - `PopWrap`: the wrap of `m_read`.
  - `ExecMongoTask`: the presence probe and the query are nondeterministic booleans. `Backfill` gives the value installed, following every early return of the code.
  - `ResetRead` / `ResetWrite`: `m_filter.reset(h)`.
- **Environment:** `Evict` is a DEL or the 7-day TTL. It is spec-modelled.

`MC_MissResolver.tla` supplies:
- keys k1 (`category&&u1&&c1`), k2 (`tag_stat&&u2`) and k3 (`category_stat&&u3`);
- their fingerprints. The empty key of a never-written slot hashes like k1;
- the bitset words, either one word per fingerprint or both in one word;
- the split results and the stored documents. Every stored stat document
  carries ts and its root.

Fairness: weak fairness on every step of each worker inside `PushTask`, and on
every step of each resolver. A thread that has started `PushTask` runs it to
the end, and a resolver's timed wait returns after 10 ms even with no signal.
`Miss` and `Evict` are client behaviour and get no fairness.

Properties. Each of these is checked by a run whose configuration isolates
the one defect that breaks it. There is no passing run of this module: the
twelve runs of the project go to the five defects these runs show.
- `SingleFlight`: spec 8 invariant 2. At most one task per fingerprint is
  before its push, in `owed`, or running.
- `SlotsInBounds`: no producer copies into a slot past `m_buf[m_size]`.
- `BitOpsAtomic`: spec 5. A filter operation changes only its own bit. It is
  an action property over the bits a step stores back.
- `BitsEventuallyClear`: every set bit is eventually cleared, so the key can
  be requested again (spec line 135).
- `ImplementsMissBackfill`: the refinement below.

Refinement: `MissBackfill` keeps only `flight[k]`, the number of tasks of key
`k` in flight, and `cache`. Its actions are:
- `Submit(k)`: allowed only when no task of `k`'s fingerprint is in flight.
- `Install(k, v)`: only while `k` is in flight, and only a value in
  `Shapes(k)`. `Shapes` is step 2 and step 5 of spec 4.7: nothing for an
  unknown type or the wrong arity, the weighted list for category and tag,
  and for a stat key its document renamed to `data`, or `{}` without a
  document or when ts or the root is missing.
- `Retire(k)`, under weak fairness.
- `Evict(k)`.

The mapping `InFlight` counts a worker's task from `set(h)` until its index
store publishes it or the push fails. It counts a published task through
`owed`, and a popped task until `ResetWrite` clears its bit. The `catstat`
run checks the refinement for a single category_stat key, where the
branch's projection defect breaks it at the first install.

### `HashStore.tla` and `HashType.tla`: the hash type, and what it promises

`HashStore` is the client's view of one shard: each key is absent, a string,
or a map of fields to values. Each command (`HSet`, `HSetNX`, `HMSet`,
`HDel`, `HGet`, `HMGet`, `HLen`, `HStrLen`, `HExists`, `HScan`, `SetString`,
`Del`) is one atomic step with one reply. This is justified because
`processCommand` runs every command under the shard's rwlock.

`HashType` keeps the object's encoding as well (`db[k] = [type, enc, h]`).
Each handler of `t_hash.cpp` is one action:
- `hsetCommand`, `hsetnxCommand`, `hmsetCommand` (and the odd-argument error),
  and `hdelCommand` with its `dbDelete` of an emptied hash;
- `hgetCommand`, `hmgetCommand`, `hlenCommand`, `hstrlenCommand`,
  `hexistsCommand`, and `genericHgetallCommand` for HKEYS/HVALS/HGETALL.

Helpers:
- `hashTypeLookupWriteOrCreate` returns `NULL` for a string key, after
  replying WRONGTYPE.
- `hashTypeSet` converts a ziplist once it holds more than `MaxZiplistEntries`
  pairs.

SET and DEL are not in the repository; they are spec-modelled so that keys can
hold strings and disappear. `AbsStore` drops the encoding.
`HS == INSTANCE HashStore WITH store <- AbsStore` makes `ImplementsHashStore`
the refinement property.

### `KeyRouting.tla`: routing and slots

Pure operators, checked over an enumerated set of inputs. The one variable
`in` is an input: a key for the slot check, or a command line.
- `keyHashSlot` is the two loops of the code: the first `{`, then the first
  `}` after it. An empty or unclosed tag hashes the whole key. The result is
  masked with `0x3FFF`.
- `redisCommandTable` holds the rows of the keyed commands used here, plus
  `cluster` (no key, admin).
- `getKeysFromCommand` and `getDBIndex` yield the key positions and one slot,
  -2 for keys in different slots, or `0x4000` for no key.
- `processCommand` gives the outcome:
  - QUIT;
  - unknown command;
  - wrong arity;
  - a bad db index;
  - or a call on a db with a read or write lock.

The references are declarative. `TagBody` is the spec's `{…}` rule.
`SpecRoute` is the spec's dispatch rule over key positions as a set.

`MC_KeyRouting.tla` gives `Crc16` as a polynomial hash mod 2^16. CRC-16 itself
does not matter to any property, but the hash must reach values above `0x3FFF`
so that the mask matters.

### `DocParsing.tla`: decoding the stored document

A BSON value is a sequence of fields `[name, type, s, n, sub]`.
- `ParseKV` is the loop over one weight object's fields, with the code's `k`
  test (`KMatch`) and `v` test. The `k` test is
  `strncmp(kvkey, "k", strlen("k") && kvkey[1] == '\0')`: its length
  argument is 1 for a one-character name and 0 for any other, so every field
  whose name is not one character long matches `k`, and the last such field
  gives the key.
- `WeightOf` drops an entry with an empty key ("invalid w").
- `ParseW` loops over `w` and skips non-documents.
- `ParseOCategory` / `ParseOTag`, `ParseCategory` / `ParseTag` and
  `ParseODoc` are the RECURSIVE folds of the code's `bson_iter_next` loops.
- `Project` is the projection that `query` builds. The store applies it.
- `EntryJson` is the category or tag branch of `ExecMongoTask`. It pre-creates
  the map entry, queries, and writes `{ts, weighted}`, with `ts` through
  `writer.Int` (`Int32`).

The references `SpecWeight` and `SpecEntry` read the schema
`category: {<name>: {config, ts, w: [{k, v}]}}` by field name, not by loop.
`EntryAsSpecified` compares the code's entry with the reference for every
input. The inputs include a weight object with a third field `src` (the
schema does not forbid extra fields) and a `ts` past the `writer.Int` width.

### `Rehash.tla`: the key dictionary and the rehasher

`Rehash` models one shard's dict as `d = [t0, t1, idx]`: ht[0], ht[1] (a
size and a bucket function, each bucket a set of keys) and `rehashidx`.
`dict.c` is not in the repository, so the dict operators are spec-modelled
from the Redis rules the spec names:
- every write (`dictAdd`, `dictDelete`, an overwrite's `dictFind`) first
  does one rehash step (`dictRehash(d, 1)`);
- `dictAdd` grows to the next power of two when the load would pass 1.0,
  and inserts into ht[1] while rehashing;
- `dictRehash(d, n)` moves the chains of the next `n` non-empty buckets from
  `rehashidx`, and swaps the tables when ht[0] is empty;
- `dictExpand` refuses while rehashing, below the used count, or to the
  same size; `dictResize` re-checks `dictIsRehashing` and resizes to the used
  count.

Client writes (`SetKey`: the resolver's `setKey` under the write lock, or a
SET; `DelKey`: `dbDelete` from HDEL) are atomic, since they hold the write
lock. The rehasher's loop is split where the code takes no lock:
- `RCheckIdle` is `!dictIsRehashing(d)`;
- `RReadSize` and `RReadUsed` are the two loads of `htNeedsResize`;
- `RResize` is the locked `dictResize`;
- `RCheckRehashing` is the second, unlocked `dictIsRehashing`;
- `RRehash` is the locked `dictRehashMilliseconds(d, 1)`, then the sleep.

`rpc` is the rehasher's position and `rsize` the size it loaded. The
properties are about the rehasher's loop, the code of this repository:
every rehash completes, and a sparse table is eventually shrunk. Whether the
dict keeps every key findable is a property of `dict.c`, which this model
only follows from the spec, so no run checks it.

Fairness: `WF_vars(Rehasher)`. Exactly one rehasher step is enabled in every
state, and each changes `rpc`. The thread loops until `m_stop`, and its sleep
and its lock waits end (every command releases the lock). Client writes get
no fairness.

### `Handoff.tla`: accepted connections to the workers

State:

| Variable | Code |
|---|---|
| `backlog` | Connections in the listen backlog. |
| `accepted` | Connections `anetTcpAccept` returned an fd for. |
| `pipe[w]` | The `NotifyInfo` records in worker `w`'s notify pipe. |
| `registered[w]` | The fds worker `w`'s event loop has registered. |
| `index` | `AcceptHandler`'s `static uint64_t index`, kept modulo the number of workers (2^64 increments are out of reach). |
| `max` | The accepts left in the running `AcceptHandler`; 0 when the listener waits in its poll. |

Actions:
- `Connect(c)`: a client connects (the environment).
- `AcceptHandlerStart`: the listening socket is readable.
- `AcceptOne`: one iteration of `while(max--)`: accept, write `{cfd, 0}` to
  the pipe of worker `index++ % size`. `WriteNotify` appends the record only
  if the pipe has room; a full non-blocking pipe fails with EAGAIN, and the
  code ignores the result.
- `AcceptWouldBlock`: `anetTcpAccept` fails with EWOULDBLOCK; the burst ends.
- `NotifyHandle(w)`: the worker reads a record and registers the fd. Its body
  is not in the repository; it is spec-modelled from spec 4.5.

Fairness: weak fairness on the listener and on each worker's `NotifyHandle`.
Both loop in `aeMain` with level-triggered polling, so a readable socket or
pipe is served again. Clients get none. `CHECK_DEADLOCK FALSE`: once no client
connects, every thread waits in its poll.

### `ShardLock.tla`: the locks every thread shares

This module composes the threads by what they lock. It leaves out what they
do to the data, which `HashType`, `Rehash` and `MissResolver` model. Each
shard's rwlock is initialised with `PTHREAD_RWLOCK_INITIALIZER`
(`server.cpp:506`). glibc then lets a reader in whenever no writer holds the
lock, so `CanRead(s)` ignores waiting writers.

State:

| Variable | Code |
|---|---|
| `readers[s]`, `writer[s]` | The holders of shard `s`'s rwlock. |
| `qlock[r]` | The holder of resolver `r`'s `m_lockQue`. |
| `queue[r]` | The shards of the tasks in `r`'s `RingQue`. |
| `wpc`, `wshard`, `wtarget`, `issued` | A worker's step in `processCommand`, `c->db`, `minIndex` of its `PushTask`, and the commands its clients have sent. |
| `rpc`, `rshard` | A resolver's step in `run` and the shard of its popped task. |
| `hpc`, `hshard` | The rehasher's step and its loop index `i`. |

Actions:
- Workers:
  - `Command` chooses a shard and the write flag.
  - `RdLock` / `WrLock` take the lock; `Call` runs a write handler.
  - A GET either hits (`GetHit`, spec-modelled: `getCommand` is not in the
    repository) or misses. On a miss, `GetMiss` runs `PushTask`'s
    shortest-queue choice and its push, which fails when the queue is full.
    `Signal` then calls `pthread_cond_signal` without `m_lockQue`.
  - `Unlock` releases the lock.
- Resolvers:
  - `LockQue` takes `m_lockQue` once.
  - `TimedWait` releases it. The wait ends by `Timeout` or by a signal
    (`Woken`), and `Relock` takes the mutex back.
  - The queue is then drained: `DrainEmpty`, or `Pop`.
  - `ExecMongoTask` may end the task before the install.
  - `InstallLock` takes the write lock with `m_lockQue` held, and `Install`
    releases it.
  - `ResetBit` clears the task's bit.
- The rehasher:
  - `CheckResize` / `CheckRehash` are the unlocked tests, either answer.
  - `ResizeLock`, `Resize`, `RehashLock` and `Rehash` are the locked steps.
  - `NextShard` moves the loop on; `Sleep` is the 2 s sleep.

Fairness:
- Every thread step is weakly fair.
- Each lock acquisition is strongly fair (`RdLock`, `WrLock`, `InstallLock`,
  `Relock`, `ResizeLock`, `RehashLock`). The code justifies this: a holder
  keeps a shard lock for one command, one install or a 1 ms rehash. The
  resolver gives `m_lockQue` up on every timed wait. Clients get no fairness.
  Each worker's clients send `MaxCmds` commands, so readers do drain.
- Under an unbounded stream of overlapping GETs, glibc's reader preference
  would let readers keep the lock for ever. That case is a hazard, not a
  checked property.

### `LRUStore.tla` and `LRUCache.tla`: the LRU cache, and what it promises

`LRUCache<K, V>` keeps a `std::map` from key to value and tracker iterator,
and a `std::list` `tracker_` of the keys, least recently used at the front.
`get` and `set` hold `lock_` for their whole body, so each call is one atomic
step. `reset` takes no lock. The class has no caller in the repository, so
the model has one caller, and `reset` is one step too. A `reset` racing a
`get` or `set` on another thread would be a data race; no code can do that.

State of `LRUCache`:

| Variable | Code |
|---|---|
| `tracker` | `tracker_`, as a sequence (front first). |
| `storage` | `storage_`, as a function from key to value. The stored iterator is implicit: it points at the key's node in `tracker`. |
| `capacity`, `nstab` | `capacity_`, and `nstab_ = (uint32_t)(capacity * 0.8)` with a floor of 1. The double `0.8` is slightly above 4/5, so the cast equals `(c * 8) \div 10`. |
| `reply` | What the last `get` or `set` returned, and the value `get` wrote. |

Actions: `Reset(c)` (also the constructor), `GetHit` (splices the key to the
back), `GetMiss`, `SetExisting` (new value, splice), and `SetNew`. `SetNew`
is the whole `set` of a new key: when the map holds `capacity_` keys, the loop
`while (size >= nstab_)` erases front keys, `EvictCount` of them in one batch;
then the key is inserted at the back and in the map.

`LRUStore` keeps the stored keys, their values and a recency relation `newer`.
It lets a set of a new key into a full store evict any non-empty set of keys
that are all older than every kept key, as long as the new key then fits. The
refinement mapping sends `newer` to the order of positions in `tracker`
(`NewerOf`). No fairness: the cache is a passive object, and the properties are
safety properties.

## Runs

| Run | Config | Expect | What it shows |
|---|---|---|---|
| `spsc` | `MissResolver_spsc.cfg`: 1 worker, 1 resolver, k1 and k2, queue of one task | violation of `BitsEventuallyClear` | The single-producer use the spec intends. `PushBump` publishes the slot before `PushCopy` fills it. The resolver pops the slot, copies out the empty string of a never-written slot and runs it. The pushed task is skipped, so a bit stays set for ever and that key is never backfilled again. |
| `catstat` | 1 worker, 1 resolver, only k3 (`category_stat`), with a complete document | violation of `ImplementsMissBackfill` | The branch projects `tag_stat`, so the document comes back without `category_stat`. The resolver installs `{}` where spec 4.7 installs the document under `data`. Every `category_stat` key is cached as `{}` for 7 days. |
| `mpsc` | 2 workers, 1 resolver | violation of `SlotsInBounds` | Both workers push into one queue. w2 stores `m_write = 2` (`m_size + 1`) before its wrap; w1 loads it and copies into `m_buf[2]`, past the end of the two-slot buffer. |
| `testset` | 2 workers, 1 key | violation of `SingleFlight` | Test-then-set is not atomic. Two tasks run for one key (spec scenario 4). |
| `word` | fingerprints sharing a word | violation of `BitOpsAtomic` | The resolver loads the word to reset k1's bit, the worker sets k2's bit in it, and the resolver's store wipes k2's bit while k2's task is queued. |
| `hash_store` | `HashType_store.cfg`: 1 key, 3 fields, 2 values, ziplist limit 2, up to 2 arguments | pass (817 states) | No empty hash remains. A ziplist never exceeds the entry limit. Every command refines `HashStore` (`ImplementsHashStore`). |
| `rehash_pass` | `Rehash_pass.cfg`: 5 keys, `DICT_HT_INITIAL_SIZE` 2, `HASHTABLE_MIN_FILL` 10, 100 buckets per rehash batch | pass (8,604 states) | Under any interleaving of adds and deletes with the rehasher's unlocked loads, every rehash completes (`RehashCompletes`), and a sparse table does not stay unshrunk (`SparseEventuallyResized`). |
| `handoff_lost` | `Handoff_lost.cfg`: 3 clients, 2 workers, pipes of one record, bursts of 2 | violation of `AcceptedEventuallyServed` | The listener accepts a third connection for worker 0 before worker 0 has read its pipe. The write fails, and the fd is accepted but never registered or closed. |
| `keyrouting_pass` | `KeyRouting_pass.cfg`: keys of ≤4 chars over `a{}`, every command name with ≤3 key arguments | pass (481 states) | Slots follow the hash-tag rule and stay below `0x4000`. Commands are rejected or routed like the spec's rule. |
| `docparsing_entry` | `DocParsing_entry.cfg`: docs with one root holding ≤2 named objects, `w` arrays of ≤2 elements (k before v, v before k, empty k, k and v and `src`, a non-document), `ts` 5 or 2^15 + 5 under a 16-bit int | violation of `EntryAsSpecified` | The weight object `{k: t3, v: 4, src: feed}` gives the entry `feed: 4` where the schema gives `t3: 4`: `src` is not one character long, so it matches `k`. Without that element the same property fails on `ts` = 2^15 + 5, which `writer.Int` writes as a negative number. |
| `shardlock_pass` | `ShardLock_pass.cfg`: 2 workers of 2 commands each, 1 resolver with a queue of one task, the rehasher, 1 shard | pass (16,712 states) | Every command completes (`CommandsComplete`) and every popped backfill completes (`BackfillsComplete`). This holds although a worker calls `PushTask` holding the shard read lock while the resolver, holding `m_lockQue`, may wait for that shard's write lock. It holds because `PushTask` signals without the mutex: with a locked signal, TLC finds the two threads waiting on each other. |
| `lru_pass` | `LRUCache_pass.cfg`: 4 keys, 2 values, capacities 1, 2 and 3 | pass (948 states) | Over any sequence of `get`, `set` and `reset`, the tracker lists every stored key exactly once (`TrackerMatchesStorage`, which the eviction loop's asserts rely on), `nstab_` stays between 1 and the capacity, and every call is a step of the abstract LRU store (`ImplementsLRUStore`): batch eviction removes only keys older than all kept ones. |

Each violation run checks one property and fails on the defect its row
names; the property holds in the code as the spec describes it. Every
property of a passing run has a mutant in `PROJECT.json`: a plausible bug
in the mapped code that TLC must catch under that run's configuration.

### Bounds

- **Queue.** A queue of one task (`QueSize = 1`, two slots) is the smallest in
  which both full and wrap-around happen.
- **Miss-resolver threads.** One worker and one resolver are the
  single-producer use the spec intends. Two workers are the smallest case of
  each producer race, and two resolvers of the test-then-set race.
- **Hashes.** A ziplist limit of 2, with 3 fields, lets a hash cross the limit
  and shrink back by HDEL.
- **Key routing.** Keys of up to four characters over `a`, `{`, `}` cover
  every brace case: none, empty, unclosed, two tags, and `}` before `{`.
- **Documents.** Two names and two elements, among five element shapes, cover:
  - a weight object with a field besides `k` and `v`;
  - a requested name next to an unrequested one;
  - the other root;
  - a skipped non-document before a document;
  - repeated `w` entries.
- **Rehash.** The initial size is scaled from 4 to 2. Five keys then grow
  the table 2 → 4 → 8, and deletes shrink it again. The size matters for the
  race the rehasher guards against: the rehasher must load a sparse reading
  (a table of 4 that is empty), and then clients must add enough keys to
  start a grow before the locked resize. With an initial size of 4 that needs
  nine keys. The hashes make keys collide in small tables, so a rehash step
  moves chains of two.
- **Hand-off.** A pipe of one record stands for the 4,096 16-byte records of a
  64 KiB pipe, and a burst of 2 for 32. With two workers, the third accept
  returns to worker 0, which is the smallest case of a write to a full pipe.

- **LRU cache.** Capacity 3 gives `nstab_` 2, so a full set evicts two keys
  at once. Capacity 2 gives `nstab_` 1 and evicts everything. Capacity 1
  needs the floor of 1. Four keys fill the largest cache and leave one key
  to insert.

- **Shard locks.** One shard is enough, because every lock cycle involves
  one shard's rwlock and one `m_lockQue`. Two workers let a reader and a
  writer meet. Two commands each let a worker come back after the resolver
  is queued for the lock. A queue of one task lets a push fail. With two
  shards the run reaches about a million states, and its liveness check
  does not finish in time.

### What the checks do not cover

- **Miss-key split.** No run checks `Util::separate` and the head of
  `ExecMongoTask`; see below.
- **Dict internals.** Whether `dict.c` keeps every key findable through a
  resize is not checked: the repository does not hold that code.
- **Reader starvation.** `shardlock_pass` bounds each worker's commands, so
  readers always drain and the write lock is eventually granted. A stream of
  overlapping GETs that starves the resolver's install (glibc prefers
  readers) is a hazard in `PROJECT.json`, not a run.

## Analysed but not run

- **`&` inside a uid or param** (`util.cpp:45`). `find_first_of("&&", pos)`
  stops at any `&`, and `pos` then skips two characters. `tag&&a&b&&n`
  splits into `tag`, `a`, `` (empty) and `n`: four parts, so the
  task ends at the arity check and the key is never backfilled.
- **Hash-tagged miss keys** (`asynctask.cpp:61`). `ExecMongoTask` splits
  the whole key on `&&`, so `{u}category&&u1&&c1` has type `{u}category` and
  the task is dropped. Spec scenario 3 says this key is backfilled.
- **Shrinking.** `hashTypeConvert` is one-way, so a hash emptied back below
  the limit stays a table. The spec allows this.
- **`hash_max_ziplist_value`** (`t_hash.cpp:202`). No code reads it, so a
  ziplist can hold values of any length, against spec invariant 5.

The project keeps twelve runs. The first two of these defects are one-step
violations of a pure function, and their runs gave way to the concurrent
ones.

## Not modelled and why

- **I/O.** The document-store driver, the presence probe and the string-form
  `query(condition, opt)` are I/O. In `MissResolver` they are nondeterministic
  outcomes and a fixed document per key. A cursor error is not modelled.
- **Shutdown.** Nothing calls `stop()` on the listener, a worker, the
  rehasher or a resolver. `main` blocks in `pthread_join` on the listener
  for ever, so `ASyncTask::Stop` is never reached. Spec 5 says pending tasks'
  bits are reset during shutdown. `ASyncTask::stop` does not reset them, but
  the bits do not outlive the process.
- **`tv_nsec` overflow in `run`.** It makes the wait return early, and the
  model already lets the wait end at any time.
- **Dict internals.** `dict.c` is not in the repository. `Rehash` follows the
  spec's description of it. It leaves out `dictRehash`'s empty-bucket visit
  limit (a batch of 100 covers every table here) and the shard's `dirty`
  counter, which no property reads. `Rehash` models one db. `ShardLock`
  models the loop over the dbs as lock steps only.
- **Worker event loop.** After registration, the worker reads client bytes,
  parses commands and flushes replies. That code (`ae`, networking) is not in
  the repository.
- **Other code.** Not modelled:
  - the logging;
  - `Util::separate(char)`, `trim` and the time helpers;
  - `cluster.cpp` (a constant reply) and `debug.cpp` (assert, panic and
    bug-report output);
  - `util/ipv4.h`'s `Addr`, which nothing includes. Its `operator==`
    compares `_naddr.n` with itself (line 95), so any two addresses compare
    equal;
  - the command statistics in `call()` (`server.cpp:673`). Workers add to
    the shared `redisCommand`'s `microseconds` and `calls` with no lock, so
    increments can be lost. Nothing in the repository reads those fields.
  - `MongoCli::create` / `update`.

## Plan for further work

1. **Reader starvation.** Model an unbounded stream of overlapping GETs
   without the `MaxCmds` bound. Check whether `BackfillsComplete` fails
   under glibc's reader preference, which the code does not override.
2. **Data under the shard lock.** Compose `ShardLock` with `MissResolver`'s
   cache, so that a client `SET` or `DEL` meets the backfill's `setKey`.
