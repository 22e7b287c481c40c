------------------------------ MODULE ShardLock ------------------------------
(***************************************************************************)
(* The locks the worker, resolver and rehasher threads share.  Each shard  *)
(* has a pthread rwlock (PTHREAD_RWLOCK_INITIALIZER: glibc lets a reader   *)
(* in whenever no writer holds it).  processCommand takes it for reading   *)
(* or writing by the command's flag around call(); a GET that misses a     *)
(* backfilled key calls ASyncTask::PushTask while it still holds the read  *)
(* lock.  Each resolver holds its m_lockQue for its whole life except      *)
(* inside pthread_cond_timedwait, and takes the shard write lock for the   *)
(* install while holding it.  The rehasher takes each shard's write lock   *)
(* for dictResize and for a 1 ms rehash.  What the commands, the dict and  *)
(* the filter do to the data is left to HashType, Rehash and MissResolver; *)
(* here a thread is where it is in its lock protocol.                      *)
(***************************************************************************)
EXTENDS Naturals, Sequences

CONSTANTS
  Workers,     \* worker threads (server.cpp starts 4)
  Resolvers,   \* ASyncTask threads (2)
  Rehasher,    \* the ReHasher thread
  NoThread,    \* no holder
  DBNum,       \* g_redisDB->dbnum
  QueSize,     \* RingQue m_size
  MaxCmds      \* commands each worker's clients send

Shards == 0 .. DBNum - 1

VARIABLES
  readers,   \* readers[s]: threads holding shard s's rwlock for reading
  writer,    \* writer[s]: the thread holding it for writing, or NoThread
  qlock,     \* qlock[r]: the holder of resolver r's m_lockQue, or NoThread
  queue,     \* queue[r]: the shards of the tasks in r's RingQue
  wpc,       \* wpc[w]: where worker w is in processCommand
  wshard,    \* wshard[w]: c->db of the command
  wtarget,   \* wtarget[w]: m_tasks[minIndex] of a PushTask
  issued,    \* issued[w]: commands worker w has started
  rpc,       \* rpc[r]: where resolver r is in run()
  rshard,    \* rshard[r]: the shard of the task r popped
  hpc,       \* where the rehasher is in its pass
  hshard     \* the shard index i of the rehasher's loop

vars == <<readers, writer, qlock, queue, wpc, wshard, wtarget, issued,
          rpc, rshard, hpc, hshard>>
workerVars   == <<wpc, wshard, wtarget, issued>>
resolverVars == <<qlock, rpc, rshard>>
rehasherVars == <<hpc, hshard>>

AnyResolver == CHOOSE r \in Resolvers : TRUE

\* pthread_rwlock_rdlock / wrlock succeed.
CanRead(s)  == writer[s] = NoThread
CanWrite(s) == writer[s] = NoThread /\ readers[s] = {}

Init ==
  /\ readers = [s \in Shards |-> {}]
  /\ writer  = [s \in Shards |-> NoThread]
  /\ qlock   = [r \in Resolvers |-> NoThread]
  /\ queue   = [r \in Resolvers |-> <<>>]
  /\ wpc     = [w \in Workers |-> "idle"]
  /\ wshard  = [w \in Workers |-> 0]
  /\ wtarget = [w \in Workers |-> AnyResolver]
  /\ issued  = [w \in Workers |-> 0]
  /\ rpc     = [r \in Resolvers |-> "lock"]
  /\ rshard  = [r \in Resolvers |-> 0]
  /\ hpc     = "check"
  /\ hshard  = 0

-----------------------------------------------------------------------------
(* Workers: processCommand.  A command rejected before the lock (unknown,  *)
(* wrong arity, bad db index) takes no lock and is left out.               *)

Command(w, s, write) ==
  /\ wpc[w] = "idle"
  /\ issued[w] < MaxCmds
  /\ wpc'    = [wpc EXCEPT ![w] = IF write THEN "wrlock" ELSE "rdlock"]
  /\ wshard' = [wshard EXCEPT ![w] = s]
  /\ issued' = [issued EXCEPT ![w] = @ + 1]
  /\ UNCHANGED <<readers, writer, queue, wtarget, resolverVars, rehasherVars>>

RdLock(w) ==
  /\ wpc[w] = "rdlock"
  /\ CanRead(wshard[w])
  /\ readers' = [readers EXCEPT ![wshard[w]] = @ \cup {w}]
  /\ wpc'     = [wpc EXCEPT ![w] = "get"]
  /\ UNCHANGED <<writer, qlock, queue, wshard, wtarget, issued, rpc, rshard,
                 rehasherVars>>

WrLock(w) ==
  /\ wpc[w] = "wrlock"
  /\ CanWrite(wshard[w])
  /\ writer' = [writer EXCEPT ![wshard[w]] = w]
  /\ wpc'    = [wpc EXCEPT ![w] = "call"]
  /\ UNCHANGED <<readers, qlock, queue, wshard, wtarget, issued, rpc, rshard,
                 rehasherVars>>

\* call() runs a write handler.
Call(w) ==
  /\ wpc[w] = "call"
  /\ wpc' = [wpc EXCEPT ![w] = "unlock"]
  /\ UNCHANGED <<readers, writer, queue, wshard, wtarget, issued,
                 resolverVars, rehasherVars>>

\* call() runs GET: the key is found, or it is not a backfilled key.
GetHit(w) ==
  /\ wpc[w] = "get"
  /\ wpc' = [wpc EXCEPT ![w] = "unlock"]
  /\ UNCHANGED <<readers, writer, queue, wshard, wtarget, issued,
                 resolverVars, rehasherVars>>

\* Mutant: RingQue::Push without its full check.
GetMissNoFullCheck(w) ==
  /\ wpc[w] = "get"
  /\ \E r \in Resolvers :
       /\ \A o \in Resolvers : Len(queue[r]) <= Len(queue[o])
       /\ wtarget' = [wtarget EXCEPT ![w] = r]
       /\ queue' = [queue EXCEPT ![r] = Append(@, wshard[w])]
  /\ wpc' = [wpc EXCEPT ![w] = "signal"]
  /\ UNCHANGED <<readers, writer, wshard, issued, resolverVars, rehasherVars>>

\* GET misses a backfilled key: PushTask picks a shortest queue and pushes
\* the task unless it is full (the filter test is MissResolver's).
GetMiss(w) ==
  /\ wpc[w] = "get"
  /\ \E r \in Resolvers :
       /\ \A o \in Resolvers : Len(queue[r]) <= Len(queue[o])
       /\ wtarget' = [wtarget EXCEPT ![w] = r]
       /\ queue' = IF Len(queue[r]) < QueSize
                     THEN [queue EXCEPT ![r] = Append(@, wshard[w])]
                     ELSE queue
  /\ wpc' = [wpc EXCEPT ![w] = "signal"]
  /\ UNCHANGED <<readers, writer, wshard, issued, resolverVars, rehasherVars>>

\* The resolver's timed wait returns when it is signalled.
Woken(r) == IF rpc[r] = "wait" THEN [rpc EXCEPT ![r] = "relock"] ELSE rpc

\* Mutant: PushTask takes m_lockQue around the signal, as the usual
\* condition-variable idiom does.
SignalLocked(w) ==
  /\ wpc[w] = "signal"
  /\ qlock[wtarget[w]] = NoThread
  /\ rpc' = Woken(wtarget[w])
  /\ wpc' = [wpc EXCEPT ![w] = "unlock"]
  /\ UNCHANGED <<readers, writer, qlock, queue, wshard, wtarget, issued,
                 rshard, rehasherVars>>

\* pthread_cond_signal(&m_tasks[minIndex]->m_condQue), without the mutex.
Signal(w) ==
  /\ wpc[w] = "signal"
  /\ rpc' = Woken(wtarget[w])
  /\ wpc' = [wpc EXCEPT ![w] = "unlock"]
  /\ UNCHANGED <<readers, writer, qlock, queue, wshard, wtarget, issued,
                 rshard, rehasherVars>>

\* pthread_rwlock_unlock after call().
Unlock(w) ==
  /\ wpc[w] = "unlock"
  /\ readers' = [readers EXCEPT ![wshard[w]] = @ \ {w}]
  /\ writer'  = [writer EXCEPT ![wshard[w]] = IF @ = w THEN NoThread ELSE @]
  /\ wpc'     = [wpc EXCEPT ![w] = "idle"]
  /\ UNCHANGED <<qlock, queue, wshard, wtarget, issued, rpc, rshard,
                 rehasherVars>>

-----------------------------------------------------------------------------
(* Resolvers: ASyncTask::run.                                               *)

\* pthread_mutex_lock(&m_lockQue) before the loop.
LockQue(r) ==
  /\ rpc[r] = "lock"
  /\ qlock[r] = NoThread
  /\ qlock' = [qlock EXCEPT ![r] = r]
  /\ rpc'   = [rpc EXCEPT ![r] = "timedwait"]
  /\ UNCHANGED <<readers, writer, queue, workerVars, rshard, rehasherVars>>

\* pthread_cond_timedwait releases the mutex while it waits ...
TimedWait(r) ==
  /\ rpc[r] = "timedwait"
  /\ qlock' = [qlock EXCEPT ![r] = NoThread]
  /\ rpc'   = [rpc EXCEPT ![r] = "wait"]
  /\ UNCHANGED <<readers, writer, queue, workerVars, rshard, rehasherVars>>

\* ... returns after 10 ms without a signal ...
Timeout(r) ==
  /\ rpc[r] = "wait"
  /\ rpc' = [rpc EXCEPT ![r] = "relock"]
  /\ UNCHANGED <<readers, writer, qlock, queue, workerVars, rshard,
                 rehasherVars>>

\* ... and takes the mutex back before it returns.
Relock(r) ==
  /\ rpc[r] = "relock"
  /\ qlock[r] = NoThread
  /\ qlock' = [qlock EXCEPT ![r] = r]
  /\ rpc'   = [rpc EXCEPT ![r] = "drain"]
  /\ UNCHANGED <<readers, writer, queue, workerVars, rshard, rehasherVars>>

\* while (!m_stop && m_queue->Pop(task) >= 0): the queue is empty.
DrainEmpty(r) ==
  /\ rpc[r] = "drain"
  /\ queue[r] = <<>>
  /\ rpc' = [rpc EXCEPT ![r] = "timedwait"]
  /\ UNCHANGED <<readers, writer, qlock, queue, workerVars, rshard,
                 rehasherVars>>

Pop(r) ==
  /\ rpc[r] = "drain"
  /\ queue[r] # <<>>
  /\ rshard' = [rshard EXCEPT ![r] = Head(queue[r])]
  /\ queue'  = [queue EXCEPT ![r] = Tail(@)]
  /\ rpc'    = [rpc EXCEPT ![r] = "exec"]
  /\ UNCHANGED <<readers, writer, qlock, workerVars, rehasherVars>>

\* ExecMongoTask up to the install: the key check, the presence probe and
\* the document query, all without a shard lock.  Any of them may end the
\* task early.
ExecMongoTask(r) ==
  /\ rpc[r] = "exec"
  /\ \E found \in BOOLEAN :
       rpc' = [rpc EXCEPT ![r] = IF found THEN "wrlock" ELSE "reset"]
  /\ UNCHANGED <<readers, writer, qlock, queue, workerVars, rshard,
                 rehasherVars>>

\* pthread_rwlock_wrlock(&g_redisDB->db[slot].rwlock), m_lockQue held.
InstallLock(r) ==
  /\ rpc[r] = "wrlock"
  /\ CanWrite(rshard[r])
  /\ writer' = [writer EXCEPT ![rshard[r]] = r]
  /\ rpc'    = [rpc EXCEPT ![r] = "install"]
  /\ UNCHANGED <<readers, qlock, queue, workerVars, rshard, rehasherVars>>

\* Mutant: the install returns without releasing the write lock.
InstallNoUnlock(r) ==
  /\ rpc[r] = "install"
  /\ rpc' = [rpc EXCEPT ![r] = "reset"]
  /\ UNCHANGED <<readers, writer, qlock, queue, workerVars, rshard,
                 rehasherVars>>

\* setKey(..., 7 days), dirty++, pthread_rwlock_unlock.
Install(r) ==
  /\ rpc[r] = "install"
  /\ writer' = [writer EXCEPT ![rshard[r]] = NoThread]
  /\ rpc'    = [rpc EXCEPT ![r] = "reset"]
  /\ UNCHANGED <<readers, qlock, queue, workerVars, rshard, rehasherVars>>

\* m_filter.reset(h); back to the drain loop.
ResetBit(r) ==
  /\ rpc[r] = "reset"
  /\ rpc' = [rpc EXCEPT ![r] = "drain"]
  /\ UNCHANGED <<readers, writer, qlock, queue, workerVars, rshard,
                 rehasherVars>>

-----------------------------------------------------------------------------
(* The rehasher: ReHasher::run.  Whether a shard needs a resize or is      *)
(* rehashing is read without its lock (Rehash models those loads); here it *)
(* is either answer.                                                       *)

\* The for loop moves to the next db, or ends the pass.
NextShard ==
  IF hshard + 1 < DBNum THEN hshard' = hshard + 1 /\ hpc' = "check"
  ELSE hpc' = "sleep" /\ UNCHANGED hshard

CheckResize ==
  /\ hpc = "check"
  /\ \E need \in BOOLEAN : hpc' = IF need THEN "resizeLock" ELSE "rehashCheck"
  /\ UNCHANGED <<readers, writer, queue, workerVars, resolverVars, hshard>>

ResizeLock ==
  /\ hpc = "resizeLock"
  /\ CanWrite(hshard)
  /\ writer' = [writer EXCEPT ![hshard] = Rehasher]
  /\ hpc'    = "resize"
  /\ UNCHANGED <<readers, queue, workerVars, resolverVars, hshard>>

\* dictResize, then unlock.
Resize ==
  /\ hpc = "resize"
  /\ writer' = [writer EXCEPT ![hshard] = NoThread]
  /\ hpc'    = "rehashCheck"
  /\ UNCHANGED <<readers, queue, workerVars, resolverVars, hshard>>

CheckRehash ==
  /\ hpc = "rehashCheck"
  /\ \/ hpc' = "rehashLock" /\ UNCHANGED hshard
     \/ NextShard
  /\ UNCHANGED <<readers, writer, queue, workerVars, resolverVars>>

RehashLock ==
  /\ hpc = "rehashLock"
  /\ CanWrite(hshard)
  /\ writer' = [writer EXCEPT ![hshard] = Rehasher]
  /\ hpc'    = "rehash"
  /\ UNCHANGED <<readers, queue, workerVars, resolverVars, hshard>>

\* dictRehashMilliseconds(d, 1), then unlock.
Rehash ==
  /\ hpc = "rehash"
  /\ writer' = [writer EXCEPT ![hshard] = NoThread]
  /\ NextShard
  /\ UNCHANGED <<readers, queue, workerVars, resolverVars>>

\* usleep(2000000), then the next pass from db 0.
Sleep ==
  /\ hpc = "sleep"
  /\ hpc' = "check"
  /\ hshard' = 0
  /\ UNCHANGED <<readers, writer, queue, workerVars, resolverVars>>

-----------------------------------------------------------------------------
WorkerStep(w) ==
  RdLock(w) \/ WrLock(w) \/ Call(w) \/ GetHit(w) \/ GetMiss(w)
    \/ Signal(w) \/ Unlock(w)

ResolverStep(r) ==
  LockQue(r) \/ TimedWait(r) \/ Timeout(r) \/ Relock(r) \/ DrainEmpty(r)
    \/ Pop(r) \/ ExecMongoTask(r) \/ InstallLock(r) \/ Install(r)
    \/ ResetBit(r)

RehasherStep ==
  CheckResize \/ ResizeLock \/ Resize \/ CheckRehash \/ RehashLock
    \/ Rehash \/ Sleep

Next ==
  \/ \E w \in Workers, s \in Shards, write \in BOOLEAN : Command(w, s, write)
  \/ \E w \in Workers : WorkerStep(w)
  \/ \E r \in Resolvers : ResolverStep(r)
  \/ RehasherStep

\* Every thread runs.  A lock that keeps coming free is eventually taken by
\* a thread waiting for it: no thread holds a shard lock for more than one
\* command or one 1 ms rehash, and the rehasher sleeps 2 s between passes.
\* Clients need not send commands.
Fairness ==
  /\ \A w \in Workers : WF_vars(WorkerStep(w))
                        /\ SF_vars(RdLock(w)) /\ SF_vars(WrLock(w))
  /\ \A r \in Resolvers : WF_vars(ResolverStep(r))
                          /\ SF_vars(InstallLock(r)) /\ SF_vars(Relock(r))
  /\ WF_vars(RehasherStep) /\ SF_vars(ResizeLock) /\ SF_vars(RehashLock)

Spec == Init /\ [][Next]_vars /\ Fairness

-----------------------------------------------------------------------------
(* Properties.                                                              *)

Threads == Workers \cup Resolvers \cup {Rehasher}

TypeOK ==
  /\ readers \in [Shards -> SUBSET (Workers)]
  /\ writer \in [Shards -> Threads \cup {NoThread}]
  /\ qlock \in [Resolvers -> Resolvers \cup {NoThread}]
  /\ queue \in [Resolvers -> Seq(Shards)]
  /\ \A r \in Resolvers : Len(queue[r]) <= QueSize
  /\ wpc \in [Workers -> {"idle", "rdlock", "wrlock", "get", "call",
                          "signal", "unlock"}]
  /\ issued \in [Workers -> 0 .. MaxCmds]
  /\ rpc \in [Resolvers -> {"lock", "timedwait", "wait", "relock", "drain",
                            "exec", "wrlock", "install", "reset"}]
  /\ hpc \in {"check", "resizeLock", "resize", "rehashCheck", "rehashLock",
              "rehash", "sleep"}

\* Every command a worker has started is answered: the worker gets its
\* shard lock, runs the handler and unlocks.  A GET miss calls PushTask
\* holding the shard's read lock while the resolver holds m_lockQue and
\* waits for that shard's write lock (asynctask.cpp:262); only because
\* PushTask signals without m_lockQue (asynctask.cpp:373) do the two not
\* wait on each other.
CommandsComplete == \A w \in Workers : wpc[w] # "idle" ~> wpc[w] = "idle"

\* Every task a resolver pops is finished: the resolver gets the shard's
\* write lock past the workers' read locks and the rehasher, installs,
\* releases it and goes back to its queue.
BackfillsComplete == \A r \in Resolvers : rpc[r] = "exec" ~> rpc[r] = "drain"

====
