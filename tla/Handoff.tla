------------------------------ MODULE Handoff ------------------------------
(***************************************************************************)
(* The listener thread hands accepted connections to the worker threads   *)
(* (src/listener.cpp, src/worker.cpp).  Each worker owns a pipe whose two  *)
(* ends Worker::init makes non-blocking; the listener's AcceptHandler      *)
(* accepts up to 32 connections per readable event and writes a            *)
(* NotifyInfo{fd, ms} record to the pipe of worker index++ % size,         *)
(* ignoring what write returns.  The worker's event loop reads the pipe    *)
(* (NotifyHandle, registered by CreateTinyRedisProc; its body is not in    *)
(* the repository and is modelled from spec 4.5) and registers the fd.     *)
(* A pipe holds a bounded number of records: a write to a full             *)
(* non-blocking pipe fails with EAGAIN and writes nothing.                 *)
(***************************************************************************)
EXTENDS Naturals, Sequences, FiniteSets

CONSTANTS
  Conns,        \* client connections
  NWorkers,     \* m_workers.size()
  PipeCap,      \* records a notify pipe holds
  AcceptBatch   \* max accepts per AcceptHandler call (32 in the code)

Workers == 0 .. NWorkers - 1

VARIABLES
  backlog,      \* connections in the listen backlog, not yet accepted
  accepted,     \* connections anetTcpAccept has returned an fd for
  pipe,         \* pipe[w]: the records in worker w's notify pipe
  registered,   \* registered[w]: fds worker w's event loop has registered
  index,        \* the static round-robin index (kept modulo NWorkers)
  max           \* accepts left in the running AcceptHandler (0: idle)

vars == <<backlog, accepted, pipe, registered, index, max>>

Init ==
  /\ backlog = {}
  /\ accepted = {}
  /\ pipe = [w \in Workers |-> <<>>]
  /\ registered = [w \in Workers |-> {}]
  /\ index = 0
  /\ max = 0

\* A client connects: the connection waits in the backlog.
Connect(c) ==
  /\ c \notin backlog \cup accepted
  /\ backlog' = backlog \cup {c}
  /\ UNCHANGED <<accepted, pipe, registered, index, max>>

\* The listening socket is readable: aeMain calls AcceptHandler.
AcceptHandlerStart ==
  /\ max = 0
  /\ backlog # {}
  /\ max' = AcceptBatch
  /\ UNCHANGED <<backlog, accepted, pipe, registered, index>>

\* The record joins the pipe when it has room; a write to a full pipe
\* fails and its result is ignored.
WriteNotify(p, c) == IF Len(p) < PipeCap THEN Append(p, c) ELSE p

\* One iteration of while(max--): accept, then write {cfd, 0} to worker
\* index % size and advance index.
AcceptOne ==
  /\ max > 0
  /\ \E c \in backlog :
       /\ backlog' = backlog \ {c}
       /\ accepted' = accepted \cup {c}
       /\ pipe' = [pipe EXCEPT ![index] = WriteNotify(@, c)]
  /\ index' = (index + 1) % NWorkers
  /\ max' = max - 1
  /\ UNCHANGED registered

\* anetTcpAccept fails with EWOULDBLOCK: the burst ends.
AcceptWouldBlock ==
  /\ max > 0
  /\ backlog = {}
  /\ max' = 0
  /\ UNCHANGED <<backlog, accepted, pipe, registered, index>>

\* The worker's loop finds its pipe readable: NotifyHandle reads one
\* record and registers the fd with the worker's event loop.
NotifyHandle(w) ==
  /\ pipe[w] # <<>>
  /\ registered' = [registered EXCEPT ![w] = @ \cup {Head(pipe[w])}]
  /\ pipe' = [pipe EXCEPT ![w] = Tail(@)]
  /\ UNCHANGED <<backlog, accepted, index, max>>

Listener == AcceptHandlerStart \/ AcceptOne \/ AcceptWouldBlock

Next ==
  \/ \E c \in Conns : Connect(c)
  \/ Listener
  \/ \E w \in Workers : NotifyHandle(w)

\* The listener and every worker run aeMain for ever and poll their fds
\* level-triggered: a readable socket or pipe is served again and again.
\* Clients need not connect.
Fairness == WF_vars(Listener) /\ \A w \in Workers : WF_vars(NotifyHandle(w))

Spec == Init /\ [][Next]_vars /\ Fairness

-----------------------------------------------------------------------------
Served(c) == \E w \in Workers : c \in registered[w]

\* Spec 4.5 and the client lifecycle: every connection the listener
\* accepts is registered by a worker, which then serves it until it
\* closes.  AcceptHandler's write to the chosen worker's notify pipe
\* (listener.cpp:56) is not checked, so an fd accepted while that pipe is
\* full is neither registered nor closed.
AcceptedEventuallyServed == \A c \in Conns : c \in accepted ~> Served(c)

====
