---------------------------- MODULE SocketQueue ----------------------------
(***************************************************************************)
(* The mongoose thread pool cudamond is served by: the master thread       *)
(* accepts connections and puts them in a ring of sockets, the workers     *)
(* take them out, with one mutex and three condition variables; mg_start   *)
(* creates the threads and mg_stop ends them.                              *)
(*                                                                         *)
(* Between two steps of a thread the others may take any number.  What a   *)
(* thread does while it holds the mutex is split only where it uses state  *)
(* the mutex does not protect: stop_flag, and num_threads in mg_start.     *)
(* stop_flag only grows, so an operation right after it was read is part   *)
(* of the step that reads it.  cudamond listens on one port.               *)
(***************************************************************************)
EXTENDS Integers, Sequences, SequencesExt

CONSTANTS
  Conn,          \* client sockets; each may be opened again once closed
  Worker,        \* the worker threads, config[NUM_THREADS] of them
  QueueSize,     \* ARRAY_SIZE(ctx->queue)
  None,          \* no socket, no thread
  MayStop,       \* may the application call mg_stop?
  SpawnMayFail,  \* may pthread_create fail?
  MemoryMayFail, \* may a worker's calloc fail?
  SpuriousWakeups \* may pthread_cond_wait return without a signal?

ASSUME PoolAssumption ==
  /\ QueueSize \in Nat \ {0}
  /\ None \notin Conn \union Worker
  /\ "master" \notin Worker \union {None}
  /\ MayStop \in BOOLEAN
  /\ SpawnMayFail \in BOOLEAN
  /\ MemoryMayFail \in BOOLEAN
  /\ SpuriousWakeups \in BOOLEAN

VARIABLES
  backlog,     \* the kernel's queue of the listening socket
  open,        \* the accepted sockets not closed by the server
  stopFlag,    \* ctx->stop_flag
  numThreads,  \* ctx->num_threads
  lock,        \* the thread that holds ctx->mutex
  queue,       \* ctx->queue
  sqHead,      \* ctx->sq_head
  sqTail,      \* ctx->sq_tail
  apc,         \* the application thread, in mg_start or mg_stop
  aload,       \* num_threads as it read it
  lost,        \* history: was an update of num_threads overwritten?
  mpc,         \* the master thread
  msock,       \* the socket it accepted
  wpc,         \* the workers
  wsock,       \* conn->client of each worker
  wload        \* num_threads as each worker read it

ringVars   == <<queue, sqHead, sqTail>>
appVars    == <<apc, aload, lost>>
masterVars == <<mpc, msock>>
workerVars == <<wpc, wsock, wload>>

vars == <<backlog, open, stopFlag, numThreads, lock,
          ringVars, appVars, masterVars, workerVars>>

\* mg_start has created the master thread and is about to create the workers.
Init ==
  /\ backlog = <<>>
  /\ open = {}
  /\ stopFlag = 0
  /\ numThreads = 0
  /\ lock = None
  /\ queue = [k \in 0 .. QueueSize - 1 |-> None]
  /\ sqHead = 0
  /\ sqTail = 0
  /\ apc = "spawn"
  /\ aload = 0
  /\ lost = FALSE
  /\ mpc = "poll"
  /\ msock = None
  /\ wpc = [w \in Worker |-> "off"]
  /\ wsock = [w \in Worker |-> None]
  /\ wload = [w \in Worker |-> 0]

\* The sockets in the ring, oldest first.
Queued ==
  [k \in 1 .. sqHead - sqTail |-> queue[(sqTail + k - 1) % QueueSize]]

Full  == sqHead - sqTail >= QueueSize
Empty == sqHead = sqTail

Free    == lock = None
Release == lock' = None
Goto(w, label) == wpc' = [wpc EXCEPT ![w] = label]

\* The process is gone once an assertion failed.
Aborted == \E w \in Worker : wpc[w] = "aborted"

\* mg_stop freed the context under a worker: what follows is undefined, and not
\* modelled.
FreedInUse == apc = "stopped" /\ \E w \in Worker : wpc[w] \notin {"failed", "gone"}

Alive == ~Aborted /\ ~FreedInUse

\* Where a thread that takes a step is.
AppAt(label)     == Alive /\ apc = label
MasterAt(labels) == Alive /\ mpc \in labels
At(w, labels)    == Alive /\ wpc[w] \in labels

-----------------------------------------------------------------------------
(* mg_start's loop over the workers, and mg_stop. *)

Spawn(w) ==
  /\ AppAt("spawn")
  /\ wpc[w] = "off"
  /\ Goto(w, "start")
  /\ apc' = "load"
  /\ UNCHANGED <<backlog, open, stopFlag, numThreads, lock, ringVars, aload, lost,
                 masterVars, wsock, wload>>

SpawnFails(w) ==
  /\ SpawnMayFail
  /\ AppAt("spawn")
  /\ wpc[w] = "off"
  /\ Goto(w, "failed")
  /\ UNCHANGED <<backlog, open, stopFlag, numThreads, lock, ringVars, appVars,
                 masterVars, wsock, wload>>

\* ctx->num_threads++, which takes no lock: a worker out of memory may leave, and
\* decrement, between the two steps, or these between those of its decrement.
LoadCount ==
  /\ AppAt("load")
  /\ aload' = numThreads
  /\ apc' = "store"
  /\ UNCHANGED <<backlog, open, stopFlag, numThreads, lock, ringVars, lost,
                 masterVars, workerVars>>

StoreCount ==
  /\ AppAt("store")
  /\ numThreads' = aload + 1
  /\ lost' = (lost \/ numThreads # aload)
  /\ apc' = "spawn"
  /\ aload' = 0
  /\ UNCHANGED <<backlog, open, stopFlag, lock, ringVars, masterVars, workerVars>>

MgStop ==
  /\ MayStop
  /\ AppAt("spawn")
  /\ \A w \in Worker : wpc[w] # "off"
  /\ stopFlag' = 1
  /\ apc' = "stopping"
  /\ UNCHANGED <<backlog, open, numThreads, lock, ringVars, aload, lost,
                 masterVars, workerVars>>

\* mg_stop sees that the master is gone and frees the context.
MgStopReturns ==
  /\ AppAt("stopping")
  /\ stopFlag = 2
  /\ apc' = "stopped"
  /\ UNCHANGED <<backlog, open, stopFlag, numThreads, lock, ringVars, aload, lost,
                 masterVars, workerVars>>

App ==
  \/ \E w \in Worker : Spawn(w) \/ SpawnFails(w)
  \/ LoadCount
  \/ StoreCount
  \/ MgStopReturns

-----------------------------------------------------------------------------
(* master_thread: accept_new_connection and produce_socket. *)

\* A client connects: the kernel needs no thread of the server for it.
Connect(c) ==
  /\ c \notin ToSet(backlog) \union open
  /\ MasterAt({"poll", "lock", "asleep", "woken", "test", "wait", "put"})
  /\ backlog' = Append(backlog, c)
  /\ UNCHANGED <<open, stopFlag, numThreads, lock, ringVars, appVars, masterVars,
                 workerVars>>

Accept ==
  /\ MasterAt({"poll"})
  /\ stopFlag = 0
  /\ backlog # <<>>
  /\ msock' = Head(backlog)
  /\ backlog' = Tail(backlog)
  /\ open' = open \union {Head(backlog)}
  /\ mpc' = "lock"
  /\ UNCHANGED <<stopFlag, numThreads, lock, ringVars, appVars, workerVars>>

\* pthread_mutex_lock, at the start of produce_socket or as the end of a
\* pthread_cond_wait.
MasterLocks ==
  /\ MasterAt({"lock", "woken"})
  /\ Free
  /\ lock' = "master"
  /\ mpc' = "test"
  /\ UNCHANGED <<backlog, open, stopFlag, numThreads, ringVars, appVars, msock,
                 workerVars>>

\* Mutant: the master does not wait for room in the ring.
MasterNeverWaits ==
  /\ MasterAt({"test"})
  /\ mpc' = "put"
  /\ UNCHANGED <<backlog, open, stopFlag, numThreads, lock, ringVars, appVars, msock,
                 workerVars>>

\* The condition of produce_socket's loop.
MasterTests ==
  /\ MasterAt({"test"})
  /\ mpc' = IF stopFlag = 0 /\ Full THEN "wait" ELSE "put"
  /\ UNCHANGED <<backlog, open, stopFlag, numThreads, lock, ringVars, appVars, msock,
                 workerVars>>

MasterWaits ==
  /\ MasterAt({"wait"})
  /\ Release
  /\ mpc' = "asleep"
  /\ UNCHANGED <<backlog, open, stopFlag, numThreads, ringVars, appVars, msock,
                 workerVars>>

\* Mutant: nobody is told that a socket was produced.
SignalNobody == UNCHANGED wpc

\* pthread_cond_signal(&ctx->sq_full).
SignalFull ==
  LET asleep == {w \in Worker : wpc[w] = "asleep"} IN
    \/ asleep = {} /\ UNCHANGED wpc
    \/ \E w \in asleep : Goto(w, "woken")

\* The rest of produce_socket.  A socket that finds the ring still full (only
\* when stopping) is forgotten.
Produce ==
  /\ MasterAt({"put"})
  /\ IF Full THEN UNCHANGED ringVars
             ELSE /\ queue' = [queue EXCEPT ![sqHead % QueueSize] = msock]
                  /\ sqHead' = sqHead + 1
                  /\ UNCHANGED sqTail
  /\ SignalFull
  /\ Release
  /\ msock' = None
  /\ mpc' = "poll"
  /\ UNCHANGED <<backlog, open, stopFlag, numThreads, appVars, wsock, wload>>

-----------------------------------------------------------------------------
(* master_thread, once it sees stop_flag. *)

\* It closes the listening socket, and the kernel resets who is in the backlog.
LeavePoll ==
  /\ MasterAt({"poll"})
  /\ stopFlag # 0
  /\ backlog' = <<>>
  /\ mpc' = "broadcast"
  /\ UNCHANGED <<open, stopFlag, numThreads, lock, ringVars, appVars, msock, workerVars>>

\* pthread_cond_broadcast(&ctx->sq_full), without the mutex.
Broadcast ==
  /\ MasterAt({"broadcast"})
  /\ wpc' = [w \in Worker |-> IF wpc[w] = "asleep" THEN "woken" ELSE wpc[w]]
  /\ mpc' = "exitLock"
  /\ UNCHANGED <<backlog, open, stopFlag, numThreads, lock, ringVars, appVars, msock,
                 wsock, wload>>

\* Mutant: the loop is left one worker too early.
AwaitAllButOne ==
  /\ MasterAt({"exitLock"})
  /\ Free
  /\ mpc' = IF numThreads > 1 THEN "exitAsleep" ELSE "exit"
  /\ UNCHANGED <<backlog, open, stopFlag, numThreads, lock, ringVars, appVars, msock,
                 workerVars>>

\* The loop that waits for the workers; pthread_cond_wait is left through
\* "exitLock" too.
AwaitWorkers ==
  /\ MasterAt({"exitLock"})
  /\ Free
  /\ mpc' = IF numThreads > 0 THEN "exitAsleep" ELSE "exit"
  /\ UNCHANGED <<backlog, open, stopFlag, numThreads, lock, ringVars, appVars, msock,
                 workerVars>>

MasterExits ==
  /\ MasterAt({"exit"})
  /\ stopFlag' = 2
  /\ mpc' = "gone"
  /\ UNCHANGED <<backlog, open, numThreads, lock, ringVars, appVars, msock, workerVars>>

Master ==
  \/ Accept \/ MasterLocks \/ MasterTests \/ MasterWaits \/ Produce
  \/ LeavePoll \/ Broadcast \/ AwaitWorkers \/ MasterExits

-----------------------------------------------------------------------------
(* worker_thread and consume_socket. *)

\* calloc of the connection.
WorkerStarts(w) ==
  /\ At(w, {"start"})
  /\ Goto(w, "lock")
  /\ UNCHANGED <<backlog, open, stopFlag, numThreads, lock, ringVars, appVars,
                 masterVars, wsock, wload>>

WorkerHasNoMemory(w) ==
  /\ MemoryMayFail
  /\ At(w, {"start"})
  /\ Goto(w, "leave")
  /\ UNCHANGED <<backlog, open, stopFlag, numThreads, lock, ringVars, appVars,
                 masterVars, wsock, wload>>

\* Mutant: the loop around pthread_cond_wait is an if.
WorkerLocksOnce(w) ==
  /\ At(w, {"lock", "woken"})
  /\ Free
  /\ lock' = w
  /\ Goto(w, IF wpc[w] = "woken" THEN "take" ELSE "test")
  /\ UNCHANGED <<backlog, open, stopFlag, numThreads, ringVars, appVars, masterVars,
                 wsock, wload>>

\* pthread_mutex_lock, at the start of consume_socket or as the end of a
\* pthread_cond_wait.
WorkerLocks(w) ==
  /\ At(w, {"lock", "woken"})
  /\ Free
  /\ lock' = w
  /\ Goto(w, "test")
  /\ UNCHANGED <<backlog, open, stopFlag, numThreads, ringVars, appVars, masterVars,
                 wsock, wload>>

\* The condition of consume_socket's loop.
WorkerTests(w) ==
  /\ At(w, {"test"})
  /\ Goto(w, IF Empty /\ stopFlag = 0 THEN "wait" ELSE "take")
  /\ UNCHANGED <<backlog, open, stopFlag, numThreads, lock, ringVars, appVars,
                 masterVars, wsock, wload>>

WorkerWaits(w) ==
  /\ At(w, {"wait"})
  /\ Release
  /\ Goto(w, "asleep")
  /\ UNCHANGED <<backlog, open, stopFlag, numThreads, ringVars, appVars, masterVars,
                 wsock, wload>>

\* sq_tail and sq_head after a socket was taken, with the loop that wraps them.
Wrapped(index, tail) == index - (IF tail > QueueSize THEN QueueSize ELSE 0)

\* Mutant: the socket taken stays in the ring.
ConsumeKeepsSlot(w) ==
  /\ At(w, {"take"})
  /\ IF sqHead > sqTail
       THEN wsock' = [wsock EXCEPT ![w] = queue[sqTail % QueueSize]]
       ELSE UNCHANGED wsock
  /\ mpc' = IF mpc = "asleep" THEN "woken" ELSE mpc
  /\ Release
  /\ Goto(w, "taken")
  /\ UNCHANGED <<backlog, open, stopFlag, numThreads, ringVars, appVars, msock, wload>>

\* The rest of consume_socket, up to the unlock: sq_empty is signalled whether
\* or not a socket was taken.
Consume(w) ==
  /\ At(w, {"take"})
  /\ IF sqHead > sqTail
       THEN /\ wsock' = [wsock EXCEPT ![w] = queue[sqTail % QueueSize]]
            /\ sqTail' = Wrapped(sqTail + 1, sqTail + 1)
            /\ sqHead' = Wrapped(sqHead, sqTail + 1)
       ELSE UNCHANGED <<wsock, sqTail, sqHead>>
  /\ mpc' = IF mpc = "asleep" THEN "woken" ELSE mpc
  /\ Release
  /\ Goto(w, "taken")
  /\ UNCHANGED <<backlog, open, stopFlag, numThreads, queue, appVars, msock, wload>>

\* return !ctx->stop_flag, read after the unlock.
ConsumeReturns(w) ==
  /\ At(w, {"taken"})
  /\ Goto(w, IF stopFlag = 0 THEN "serve" ELSE "leave")
  /\ UNCHANGED <<backlog, open, stopFlag, numThreads, lock, ringVars, appVars,
                 masterVars, wsock, wload>>

\* process_new_connection serves one request, keep-alive being off, and
\* close_connection closes the socket; conn->client keeps its number.
Serve(w) ==
  /\ At(w, {"serve"})
  /\ open' = open \ {wsock[w]}
  /\ Goto(w, "lock")
  /\ UNCHANGED <<backlog, stopFlag, numThreads, lock, ringVars, appVars, masterVars,
                 wsock, wload>>

\* ctx->num_threads--, under the mutex.
WorkerLeaves(w) ==
  /\ At(w, {"leave"})
  /\ Free
  /\ lock' = w
  /\ wload' = [wload EXCEPT ![w] = numThreads]
  /\ Goto(w, "decrement")
  /\ UNCHANGED <<backlog, open, stopFlag, numThreads, ringVars, appVars, masterVars,
                 wsock>>

\* The store and the signal to the master.
WorkerStores(w) ==
  /\ At(w, {"decrement"})
  /\ numThreads' = wload[w] - 1
  /\ lost' = (lost \/ numThreads # wload[w])
  /\ mpc' = IF mpc = "exitAsleep" THEN "exitLock" ELSE mpc
  /\ wload' = [wload EXCEPT ![w] = 0]
  /\ Goto(w, "assert")
  /\ UNCHANGED <<backlog, open, stopFlag, lock, ringVars, apc, aload, msock, wsock>>

\* assert(ctx->num_threads >= 0) reads the count again, and the unlock.  A worker
\* without memory that leaves before it was counted aborts the process here,
\* unless mg_start counts it in between.
WorkerAsserts(w) ==
  /\ At(w, {"assert"})
  /\ IF numThreads >= 0 THEN Goto(w, "gone") /\ Release
                         ELSE Goto(w, "aborted") /\ UNCHANGED lock
  /\ UNCHANGED <<backlog, open, stopFlag, numThreads, ringVars, appVars, masterVars,
                 wsock, wload>>

WorkerStep(w) ==
  \/ WorkerStarts(w) \/ WorkerHasNoMemory(w) \/ WorkerLocks(w) \/ WorkerTests(w)
  \/ WorkerWaits(w) \/ Consume(w) \/ ConsumeReturns(w) \/ Serve(w)
  \/ WorkerLeaves(w) \/ WorkerStores(w) \/ WorkerAsserts(w)

-----------------------------------------------------------------------------
\* POSIX lets pthread_cond_wait return without a signal.
SpuriousWakeup ==
  /\ SpuriousWakeups
  /\ Alive
  /\ \/ \E w \in Worker : wpc[w] = "asleep" /\ Goto(w, "woken") /\ UNCHANGED mpc
     \/ mpc = "asleep" /\ mpc' = "woken" /\ UNCHANGED wpc
     \/ mpc = "exitAsleep" /\ mpc' = "exitLock" /\ UNCHANGED wpc
  /\ UNCHANGED <<backlog, open, stopFlag, numThreads, lock, ringVars, appVars, msock,
                 wsock, wload>>

Next ==
  \/ App
  \/ MgStop
  \/ Master
  \/ \E w \in Worker : WorkerStep(w)
  \/ \E c \in Conn : Connect(c)
  \/ SpuriousWakeup

Spec == Init /\ [][Next]_vars

(***************************************************************************)
(* Fairness: every thread is scheduled, and a worker is released by the    *)
(* 30 s socket timeouts.  A mutex is only weakly fair, and nobody has to   *)
(* connect or to stop.                                                     *)
(***************************************************************************)
Fairness ==
  /\ WF_vars(App)
  /\ WF_vars(Master)
  /\ \A w \in Worker : WF_vars(WorkerStep(w))

FairSpec == Spec /\ Fairness

-----------------------------------------------------------------------------
\* The workers that will serve the socket they hold.
Serving == {w \in Worker : wpc[w] = "serve" \/ (wpc[w] = "taken" /\ stopFlag = 0)}

TypeOK ==
  /\ backlog \in Seq(Conn)
  /\ open \subseteq Conn
  /\ stopFlag \in 0 .. 2
  /\ numThreads \in Int
  /\ lock \in Worker \union {"master", None}
  /\ queue \in [0 .. QueueSize - 1 -> Conn \union {None}]
  /\ sqTail \in 0 .. QueueSize
  /\ sqHead \in sqTail .. sqTail + QueueSize
  /\ apc \in {"spawn", "load", "store", "stopping", "stopped"}
  /\ aload \in Int
  /\ lost \in BOOLEAN
  /\ mpc \in {"poll", "lock", "test", "wait", "asleep", "woken", "put",
              "broadcast", "exitLock", "exitAsleep", "exit", "gone"}
  /\ msock \in Conn \union {None}
  /\ wpc \in [Worker -> {"off", "failed", "start", "lock", "test", "wait", "asleep",
                         "woken", "take", "taken", "serve", "leave", "decrement", "assert",
                         "gone", "aborted"}]
  /\ wsock \in [Worker -> Conn \union {None}]
  /\ wload \in [Worker -> Int]

\* The socket a worker serves is its own: nobody closed it, and it is in no
\* slot of the ring, not in the master's hands and not with another worker.
\* conn->client is never cleared, so a worker that returned from consume_socket
\* without a socket would serve and close the one it had before.
OneOwner ==
  \A w \in Serving :
    /\ wsock[w] \in open
    /\ wsock[w] # msock
    /\ \A k \in 1 .. sqHead - sqTail : Queued[k] # wsock[w]
    /\ \A v \in Serving \ {w} : wsock[v] # wsock[w]

\* No connection falls between the threads: until mg_stop is called an accepted
\* socket is in the master's hands, in the ring or with a worker that serves it.
NoneForgotten ==
  stopFlag = 0 =>
    open \subseteq {msock} \union ToSet(Queued) \union {wsock[w] : w \in Serving}

\* The count mg_stop relies on: unless an update of it was overwritten, when the
\* master leaves no worker is left that could use the context mg_stop is about to
\* free.  Workers leave before mg_stop only without memory; one that does so while
\* mg_start increments the count may overwrite the increment, or be overwritten:
\* "All threads exited, no sync is needed." need not be true then.
StopIsLast ==
  stopFlag = 2 /\ ~lost => \A w \in Worker : wpc[w] \in {"gone", "failed"}

\* While the pool is not stopped, every connection made is served and closed,
\* unless no worker could be created, every one of them ran out of memory, or one
\* that did left before mg_start had counted it and aborted the process.
Served ==
  \A c \in Conn :
    c \in ToSet(backlog) ~> \/ c \notin ToSet(backlog) \union open
                            \/ \A w \in Worker : wpc[w] \in {"failed", "gone"}
                            \/ Aborted

\* The pool implements Service: the ring and the socket in the master's hands
\* are its line, the sockets of the serving workers are served.
Svc == INSTANCE Service WITH
  Capacity <- QueueSize + 1,
  line     <- IF msock = None THEN Queued ELSE Append(Queued, msock),
  served   <- {wsock[w] : w \in Serving}

ImplementsService == Svc!Spec

-----------------------------------------------------------------------------
(* What a comment of the source says and the code does not do. *)

\* master_thread: "Wakeup workers that are waiting for connections to handle";
\* mongoose.h: mg_stop "blocks until all Mongoose threads are stopped".  Every
\* mg_stop returns.
StopReturns == apc = "stopping" ~> apc = "stopped"
=============================================================================
