------------------------- MODULE SocketQueueProofs -------------------------
(***************************************************************************)
(* Proofs about SocketQueue for every set of sockets, every set of workers *)
(* and every size of the ring.                                             *)
(***************************************************************************)
EXTENDS SocketQueue, TLAPS, SequenceTheorems, FiniteSetTheorems

-----------------------------------------------------------------------------
(* The ring. *)

LEMMA Modulo ==
  ASSUME NEW a \in Nat, NEW b \in Nat \ {0}
  PROVE  /\ a % b \in 0 .. b - 1
         /\ a < b => a % b = a
         /\ b <= a /\ a < 2 * b => a % b = a - b
  OBVIOUS

\* The slot an index stands for; no index reaches twice the size.
Slot(k) == k % QueueSize

LEMMA SlotFacts ==
  ASSUME PoolAssumption, NEW k \in Nat
  PROVE  /\ Slot(k) \in 0 .. QueueSize - 1
         /\ k < QueueSize => Slot(k) = k
         /\ QueueSize <= k /\ k < 2 * QueueSize => Slot(k) = k - QueueSize
<1>1. QueueSize \in Nat \ {0}
  BY DEF PoolAssumption
<1> QED BY <1>1, Modulo DEF Slot

IndexOK ==
  /\ sqTail \in 0 .. QueueSize
  /\ sqHead \in sqTail .. sqTail + QueueSize
  /\ queue \in [0 .. QueueSize - 1 -> Conn \union {None}]

\* The slots between sq_tail and sq_head hold sockets.
RingInv == Queued \in Seq(Conn)

LEMMA QueuedLength ==
  ASSUME PoolAssumption, IndexOK, RingInv
  PROVE  Len(Queued) = sqHead - sqTail
<1>1. sqHead - sqTail \in Nat
  BY DEF PoolAssumption, IndexOK
<1>2. DOMAIN Queued = 1 .. sqHead - sqTail
  BY DEF Queued
<1> QED BY <1>1, <1>2, LenProperties DEF RingInv

\* produce_socket puts a socket at the end of the line: the slot it writes is
\* none of those between sq_tail and sq_head, wherever these are.
LEMMA ProduceAppends ==
  ASSUME PoolAssumption, IndexOK, RingInv, msock \in Conn, ~Full,
         queue' = [queue EXCEPT ![sqHead % QueueSize] = msock],
         sqHead' = sqHead + 1, sqTail' = sqTail
  PROVE  IndexOK' /\ RingInv' /\ Queued' = Append(Queued, msock)
<1> DEFINE n == sqHead - sqTail
<1>1. /\ QueueSize \in Nat \ {0} /\ sqTail \in Nat /\ sqHead \in Nat
      /\ n \in Nat /\ n < QueueSize /\ sqHead < 2 * QueueSize
  BY DEF PoolAssumption, IndexOK, Full
<1>2. sqHead % QueueSize \in 0 .. QueueSize - 1
  BY <1>1, Modulo
<1>3. IndexOK'
  BY <1>1, <1>2 DEF IndexOK
<1>4. DOMAIN Queued' = 1 .. n + 1 /\ Len(Queued) = n
  BY <1>1, QueuedLength DEF Queued
<1>5. ASSUME NEW k \in 1 .. n
      PROVE  Queued'[k] = Queued[k]
  <2>1. sqTail + k - 1 \in Nat /\ sqTail + k - 1 < sqHead /\ sqHead - (sqTail + k - 1) < QueueSize
    BY <1>1
  <2>2. (sqTail + k - 1) % QueueSize # sqHead % QueueSize
    <3>1. Slot(sqTail + k - 1) # Slot(sqHead)
      BY <1>1, <2>1, SlotFacts
    <3> QED BY <3>1 DEF Slot
  <2>3. (sqTail + k - 1) % QueueSize \in 0 .. QueueSize - 1
    BY <1>1, <2>1, Modulo
  <2> QED BY <1>1, <1>2, <2>2, <2>3 DEF Queued, IndexOK
<1>6. Queued'[n + 1] = msock
  BY <1>1, <1>2 DEF Queued, IndexOK
<1>7. Append(Queued, msock) \in Seq(Conn) /\ Len(Append(Queued, msock)) = n + 1
  BY <1>4, AppendProperties DEF RingInv
<1>8. \A k \in 1 .. n + 1 : Queued'[k] = Append(Queued, msock)[k]
  BY <1>1, <1>4, <1>5, <1>6, AppendProperties DEF RingInv
<1>9. Append(Queued, msock) = [k \in 1 .. n + 1 |-> Append(Queued, msock)[k]]
  BY <1>7, LenProperties
<1>10. Queued' = [k \in 1 .. n + 1 |-> Queued'[k]]
  BY <1>4 DEF Queued
<1>11. Queued' = Append(Queued, msock)
  BY <1>8, <1>9, <1>10
<1> QED BY <1>3, <1>7, <1>11 DEF RingInv

\* consume_socket takes the oldest socket, and wrapping both indices does not
\* move the others.
LEMMA ConsumeTakesHead ==
  ASSUME PoolAssumption, IndexOK, RingInv, sqHead > sqTail,
         queue' = queue,
         sqTail' = Wrapped(sqTail + 1, sqTail + 1),
         sqHead' = Wrapped(sqHead, sqTail + 1)
  PROVE  /\ IndexOK' /\ RingInv'
         /\ Queued # <<>>
         /\ queue[sqTail % QueueSize] = Head(Queued)
         /\ Queued' = Tail(Queued)
<1> DEFINE n == sqHead - sqTail
<1>1. /\ QueueSize \in Nat \ {0} /\ sqTail \in Nat /\ sqHead \in Nat
      /\ n \in Nat \ {0} /\ sqTail <= QueueSize /\ n <= QueueSize
  BY DEF PoolAssumption, IndexOK
<1>2. /\ IndexOK' /\ sqHead' - sqTail' = n - 1
      /\ sqTail' \in Nat
      /\ sqTail' = sqTail + 1 \/ (sqTail = QueueSize /\ sqTail' = 1)
  BY <1>1 DEF IndexOK, Wrapped
<1>3. Len(Queued) = n /\ Queued # <<>>
  BY <1>1, QueuedLength, EmptySeq
<1>4. queue[sqTail % QueueSize] = Head(Queued)
  BY <1>1, <1>3 DEF Queued, RingInv
<1>5. Tail(Queued) \in Seq(Conn) /\ Len(Tail(Queued)) = n - 1
      /\ \A k \in 1 .. n - 1 : Tail(Queued)[k] = Queued[k + 1]
  BY <1>3, HeadTailProperties DEF RingInv
<1>6. ASSUME NEW k \in 1 .. n - 1
      PROVE  Queued'[k] = Queued[k + 1]
  <2>1. Queued'[k] = queue[(sqTail' + k - 1) % QueueSize]
    BY <1>1, <1>2 DEF Queued
  <2>2. Queued[k + 1] = queue[(sqTail + k) % QueueSize]
    BY <1>1 DEF Queued
  <2>3. CASE sqTail' = sqTail + 1
    BY <1>1, <2>1, <2>2, <2>3
  <2>4. CASE sqTail = QueueSize /\ sqTail' = 1
    <3>1. k \in Nat /\ k < QueueSize
      BY <1>1
    <3>2. Slot(QueueSize + k) = k
      BY <1>1, <3>1, SlotFacts
    <3>3. (QueueSize + k) % QueueSize = k
      BY <3>2 DEF Slot
    <3>4. k % QueueSize = k
      BY <1>1, <3>1, Modulo
    <3>5. sqTail' + k - 1 = k
      BY <2>4, <3>1
    <3> QED BY <2>1, <2>2, <2>4, <3>3, <3>4, <3>5
  <2> QED BY <1>2, <2>3, <2>4
<1>7. DOMAIN Queued' = 1 .. n - 1
  BY <1>2 DEF Queued
<1>8. Queued' = [k \in 1 .. n - 1 |-> Queued'[k]]
  BY <1>7 DEF Queued
<1>9. Tail(Queued) = [k \in 1 .. n - 1 |-> Tail(Queued)[k]]
  BY <1>5, LenProperties
<1>10. Queued' = Tail(Queued)
  BY <1>5, <1>6, <1>8, <1>9
<1> QED BY <1>2, <1>3, <1>4, <1>5, <1>10 DEF RingInv
-----------------------------------------------------------------------------
(* Types, and who holds the mutex. *)

LEMMA TypeIndexOK == TypeOK => IndexOK
  BY DEF TypeOK, IndexOK

\* Whoever is in a critical section holds the mutex.
LockInv ==
  /\ \A w \in Worker : wpc[w] \in {"test", "wait", "take", "decrement", "assert"} => lock = w
  /\ mpc \in {"test", "wait", "put"} => lock = "master"

\* The master holds a socket from accept to the end of produce_socket.
MasterInv ==
  msock # None <=> mpc \in {"lock", "woken", "test", "wait", "asleep", "put"}

\* A worker that leaves the loop of consume_socket while the pool runs finds a
\* socket: the ring is still as it was when the worker looked.
TakeInv ==
  \A w \in Worker : wpc[w] = "take" /\ stopFlag = 0 => sqHead > sqTail

\* A master that leaves the loop of produce_socket while the pool runs finds
\* room.
PutInv == mpc = "put" /\ stopFlag = 0 => ~Full

ControlInv == LockInv /\ MasterInv /\ TakeInv /\ PutInv

LEMMA InitControl == Init => TypeOK /\ ControlInv /\ RingInv
<1> SUFFICES ASSUME Init PROVE TypeOK /\ ControlInv /\ RingInv
  OBVIOUS
<1> USE PoolAssumption DEF PoolAssumption, Init
<1>1. TypeOK
  <2>1. lost \in BOOLEAN
    BY Zenon
  <2> QED BY <2>1, EmptySeq DEF TypeOK
<1>2. ControlInv
  BY DEF ControlInv, LockInv, MasterInv, TakeInv, PutInv
<1>3. Queued = [k \in 1 .. 0 |-> None] /\ 1 .. 0 = {}
  BY DEF Queued
<1>4. Queued \in [1 .. 0 -> Conn]
  BY <1>3
<1>5. RingInv
  BY <1>4, SeqDef DEF RingInv
<1> QED BY <1>1, <1>2, <1>5

LEMMA NextType == TypeOK /\ RingInv /\ [Next]_vars => TypeOK'
<1> SUFFICES ASSUME TypeOK, RingInv, [Next]_vars PROVE TypeOK'
  OBVIOUS
<1> USE PoolAssumption DEF PoolAssumption, TypeOK, AppAt, MasterAt, At, Goto, Release,
        ringVars, appVars, masterVars, workerVars
<1>1. ASSUME NEW w \in Worker, Spawn(w) \/ SpawnFails(w)
      PROVE  TypeOK'
  BY <1>1 DEF Spawn, SpawnFails
<1>2. CASE LoadCount \/ StoreCount \/ MgStop \/ MgStopReturns
  <2>1. lost' \in BOOLEAN
    BY <1>2, Zenon DEF LoadCount, StoreCount, MgStop, MgStopReturns
  <2> QED BY <1>2, <2>1 DEF LoadCount, StoreCount, MgStop, MgStopReturns
<1>3. CASE Accept
  BY <1>3, HeadTailProperties DEF Accept
<1>4. CASE MasterLocks \/ MasterTests \/ MasterWaits
  BY <1>4 DEF MasterLocks, MasterTests, MasterWaits
<1>5. CASE Produce
  <2>1. sqHead % QueueSize \in 0 .. QueueSize - 1
    BY Modulo
  <2>2. wpc' \in [Worker -> {"off", "failed", "start", "lock", "test", "wait", "asleep",
                         "woken", "take", "taken", "serve", "leave", "decrement", "assert",
                         "gone", "aborted"}]
    BY <1>5 DEF Produce, SignalFull
  <2>3. CASE Full
    BY <1>5, <2>2, <2>3 DEF Produce
  <2>4. CASE ~Full
    <3>1. queue' \in [0 .. QueueSize - 1 -> Conn \union {None}]
      BY <1>5, <2>1, <2>4 DEF Produce
    <3>2. sqTail' = sqTail /\ sqHead' \in sqTail .. sqTail + QueueSize
      BY <1>5, <2>4 DEF Produce, Full
    <3> QED BY <1>5, <2>2, <3>1, <3>2 DEF Produce
  <2> QED BY <2>3, <2>4
<1>6. CASE LeavePoll \/ Broadcast \/ AwaitWorkers \/ MasterExits
  <2>1. CASE LeavePoll
    BY <2>1, EmptySeq DEF LeavePoll
  <2>2. CASE Broadcast
    BY <2>2 DEF Broadcast
  <2>3. CASE AwaitWorkers \/ MasterExits
    BY <2>3 DEF AwaitWorkers, MasterExits
  <2> QED BY <1>6, <2>1, <2>2, <2>3
<1>7. ASSUME NEW w \in Worker,
             \/ WorkerStarts(w) \/ WorkerHasNoMemory(w) \/ WorkerLocks(w)
             \/ WorkerTests(w) \/ WorkerWaits(w)
      PROVE  TypeOK'
  BY <1>7 DEF WorkerStarts, WorkerHasNoMemory, WorkerLocks, WorkerTests, WorkerWaits
<1>8. ASSUME NEW w \in Worker, Consume(w)
      PROVE  TypeOK'
  <2>1. queue[sqTail % QueueSize] \in Conn \union {None}
    BY Modulo
  <2>2. CASE sqHead > sqTail
    BY <1>8, <2>1, <2>2 DEF Consume, Wrapped
  <2>3. CASE ~(sqHead > sqTail)
    BY <1>8, <2>3 DEF Consume
  <2> QED BY <2>2, <2>3
<1>9. ASSUME NEW w \in Worker,
             \/ ConsumeReturns(w) \/ Serve(w) \/ WorkerLeaves(w)
             \/ WorkerStores(w) \/ WorkerAsserts(w)
      PROVE  TypeOK'
  <2>1. CASE ConsumeReturns(w) \/ Serve(w)
    BY <2>1 DEF ConsumeReturns, Serve
  <2>2. CASE WorkerLeaves(w)
    BY <2>2 DEF WorkerLeaves
  <2>3. CASE WorkerStores(w)
    BY <2>3 DEF WorkerStores
  <2>4. CASE WorkerAsserts(w)
    BY <2>4 DEF WorkerAsserts
  <2> QED BY <1>9, <2>1, <2>2, <2>3, <2>4
<1>10. ASSUME NEW c \in Conn, Connect(c)
       PROVE  TypeOK'
  BY <1>10, AppendProperties DEF Connect
<1>11. CASE SpuriousWakeup \/ UNCHANGED vars
  BY <1>11 DEF SpuriousWakeup, vars
<1> QED
  BY <1>1, <1>2, <1>3, <1>4, <1>5, <1>6, <1>7, <1>8, <1>9, <1>10, <1>11
  DEF Next, App, Master, WorkerStep

LEMMA NextControl ==
  ASSUME TypeOK, ControlInv, [Next]_vars
  PROVE  ControlInv'
<1> USE PoolAssumption DEF PoolAssumption, TypeOK, ControlInv, LockInv, MasterInv,
        TakeInv, PutInv, AppAt, MasterAt, At, Goto, Release, Free, Empty, Full,
        ringVars, appVars, masterVars, workerVars
<1>1. ASSUME NEW w \in Worker, Spawn(w) \/ SpawnFails(w)
      PROVE  ControlInv'
  BY <1>1 DEF Spawn, SpawnFails
<1>2. CASE LoadCount \/ StoreCount \/ MgStop \/ MgStopReturns
  BY <1>2 DEF LoadCount, StoreCount, MgStop, MgStopReturns
<1>3. CASE Accept
  BY <1>3, HeadTailProperties DEF Accept
<1>4. CASE MasterLocks \/ MasterTests \/ MasterWaits
  BY <1>4 DEF MasterLocks, MasterTests, MasterWaits
<1>5. CASE Produce
  <2>1. \A w \in Worker : wpc'[w] = wpc[w] \/ wpc'[w] = "woken"
    BY <1>5 DEF Produce, SignalFull
  <2>2. sqTail' = sqTail /\ sqHead' >= sqHead
    BY <1>5 DEF Produce
  <2>3. lock' = None /\ msock' = None /\ mpc' = "poll" /\ stopFlag' = stopFlag
        /\ mpc = "put"
    BY <1>5 DEF Produce
  <2> QED BY <2>1, <2>2, <2>3
<1>6. CASE LeavePoll \/ Broadcast \/ AwaitWorkers \/ MasterExits
  BY <1>6 DEF LeavePoll, Broadcast, AwaitWorkers, MasterExits
<1>7. ASSUME NEW w \in Worker,
             \/ WorkerStarts(w) \/ WorkerHasNoMemory(w) \/ WorkerLocks(w)
             \/ WorkerTests(w) \/ WorkerWaits(w)
      PROVE  ControlInv'
  <2>1. CASE WorkerStarts(w) \/ WorkerHasNoMemory(w)
    BY <2>1 DEF WorkerStarts, WorkerHasNoMemory
  <2>2. CASE WorkerLocks(w)
    BY <2>2 DEF WorkerLocks
  <2>3. CASE WorkerTests(w)
    BY <2>3 DEF WorkerTests
  <2>4. CASE WorkerWaits(w)
    BY <2>4 DEF WorkerWaits
  <2> QED BY <1>7, <2>1, <2>2, <2>3, <2>4
<1>8. ASSUME NEW w \in Worker, Consume(w)
      PROVE  ControlInv'
  <2>1. \A v \in Worker \ {w} :
          wpc'[v] = wpc[v] /\ wpc[v] \notin {"test", "wait", "take", "decrement", "assert"}
    BY <1>8 DEF Consume
  <2>2. wpc'[w] = "taken" /\ lock = w
    BY <1>8 DEF Consume
  <2>3. mpc \notin {"test", "wait", "put"} /\ msock' = msock
        /\ mpc' = IF mpc = "asleep" THEN "woken" ELSE mpc
    BY <1>8, <2>2 DEF Consume
  <2> QED BY <2>1, <2>2, <2>3
<1>9. ASSUME NEW w \in Worker,
             \/ ConsumeReturns(w) \/ Serve(w) \/ WorkerLeaves(w)
             \/ WorkerStores(w) \/ WorkerAsserts(w)
      PROVE  ControlInv'
  <2>1. CASE ConsumeReturns(w) \/ Serve(w)
    BY <2>1 DEF ConsumeReturns, Serve
  <2>2. CASE WorkerLeaves(w)
    BY <2>2 DEF WorkerLeaves
  <2>3. CASE WorkerStores(w)
    BY <2>3 DEF WorkerStores
  <2>4. CASE WorkerAsserts(w)
    BY <2>4 DEF WorkerAsserts
  <2> QED BY <1>9, <2>1, <2>2, <2>3, <2>4
<1>10. ASSUME NEW c \in Conn, Connect(c)
       PROVE  ControlInv'
  BY <1>10 DEF Connect
<1>11. CASE SpuriousWakeup \/ UNCHANGED vars
  BY <1>11 DEF SpuriousWakeup, vars
<1> QED
  BY <1>1, <1>2, <1>3, <1>4, <1>5, <1>6, <1>7, <1>8, <1>9, <1>10, <1>11
  DEF Next, App, Master, WorkerStep
-----------------------------------------------------------------------------
(* Every socket has one place: the backlog, the master's hands, one slot of  *)
(* the ring or one serving worker.                                           *)

BacklogInv ==
  /\ \A k \in 1 .. Len(backlog) : backlog[k] \notin open
  /\ \A j, k \in 1 .. Len(backlog) : j # k => backlog[j] # backlog[k]

LineInv ==
  /\ msock # None => msock \in open
  /\ \A k \in 1 .. Len(Queued) : Queued[k] \in open /\ Queued[k] # msock
  /\ \A j, k \in 1 .. Len(Queued) : j # k => Queued[j] # Queued[k]

ServeInv ==
  \A w \in Serving :
    /\ wsock[w] \in open
    /\ wsock[w] # msock
    /\ \A k \in 1 .. Len(Queued) : Queued[k] # wsock[w]
    /\ \A v \in Serving \ {w} : wsock[v] # wsock[w]

KeptInv ==
  stopFlag = 0 =>
    \A c \in open : \/ c = msock
                    \/ \E k \in 1 .. Len(Queued) : Queued[k] = c
                    \/ \E w \in Serving : wsock[w] = c

PlaceInv == BacklogInv /\ LineInv /\ ServeInv /\ KeptInv

IInv == TypeOK /\ ControlInv /\ RingInv /\ PlaceInv

\* Steps that move no socket.
LEMMA QuietPlaces ==
  ASSUME PlaceInv, Queued' = Queued, UNCHANGED <<backlog, open, msock, wsock>>,
         Serving' \subseteq Serving,
         stopFlag' = 0 => stopFlag = 0 /\ Serving' = Serving
  PROVE  PlaceInv'
  BY DEF PlaceInv, BacklogInv, LineInv, ServeInv, KeptInv

LEMMA SameRing == UNCHANGED ringVars => Queued' = Queued
  BY DEF Queued, ringVars

LEMMA AcceptPlaces ==
  ASSUME IInv, Accept PROVE PlaceInv'
<1> USE DEF IInv, PlaceInv
<1>1. /\ backlog \in Seq(Conn) /\ backlog # <<>> /\ Len(backlog) \in Nat \ {0}
      /\ Head(backlog) = backlog[1] /\ Head(backlog) \in Conn
      /\ backlog' = Tail(backlog) /\ Len(backlog') = Len(backlog) - 1
      /\ \A k \in 1 .. Len(backlog') : backlog'[k] = backlog[k + 1]
  BY EmptySeq, HeadTailProperties DEF Accept, TypeOK
<1>2. /\ msock = None /\ msock' = Head(backlog) /\ Head(backlog) \notin open
      /\ open' = open \union {Head(backlog)}
      /\ msock' # None
  BY <1>1, PoolAssumption
  DEF Accept, MasterAt, ControlInv, MasterInv, BacklogInv, PoolAssumption
<1>3. Queued' = Queued /\ Serving' = Serving /\ UNCHANGED <<wsock, stopFlag>>
  BY SameRing DEF Accept, MasterAt, Serving, workerVars
<1>4. BacklogInv'
  BY <1>1, <1>2 DEF BacklogInv
<1>5. LineInv' /\ ServeInv'
  BY <1>2, <1>3 DEF LineInv, ServeInv
<1>6. KeptInv'
  BY <1>2, <1>3, PoolAssumption DEF KeptInv, TypeOK, PoolAssumption
<1> QED BY <1>4, <1>5, <1>6

LEMMA ProducePlaces ==
  ASSUME IInv, Produce PROVE RingInv' /\ PlaceInv'
<1> USE PoolAssumption DEF IInv, PlaceInv
<1>1. Serving' = Serving /\ UNCHANGED <<backlog, open, stopFlag, wsock>>
  BY DEF Produce, MasterAt, SignalFull, Goto, Serving, TypeOK
<1>2. msock' = None /\ msock \in Conn /\ msock \in open
  BY DEF Produce, MasterAt, ControlInv, MasterInv, TypeOK, LineInv
<1>3. None \notin open
  BY DEF TypeOK, PoolAssumption
<1>4. CASE Full
  <2>1. Queued' = Queued
    BY <1>4, SameRing DEF Produce
  <2>2. stopFlag # 0
    BY <1>4 DEF Produce, MasterAt, ControlInv, PutInv
  <2>3. RingInv'
    BY <2>1 DEF RingInv
  <2>4. BacklogInv' /\ KeptInv'
    BY <1>1, <2>2 DEF BacklogInv, KeptInv
  <2>5. LineInv' /\ ServeInv'
    BY <1>1, <1>2, <1>3, <2>1 DEF LineInv, ServeInv
  <2> QED BY <2>3, <2>4, <2>5
<1>5. CASE ~Full
  <2>1. RingInv' /\ Queued' = Append(Queued, msock)
    BY <1>2, <1>5, TypeIndexOK, ProduceAppends DEF Produce
  <2>2. /\ Len(Queued) \in Nat /\ Len(Queued') = Len(Queued) + 1
        /\ \A k \in 1 .. Len(Queued) : Queued'[k] = Queued[k]
        /\ Queued'[Len(Queued) + 1] = msock
    BY <1>2, <2>1, AppendProperties, LenProperties DEF RingInv
  <2>3. BacklogInv'
    BY <1>1 DEF BacklogInv
  <2>4. LineInv'
    BY <1>1, <1>2, <1>3, <2>2 DEF LineInv
  <2>5. ServeInv'
    BY <1>1, <1>2, <1>3, <2>2 DEF LineInv, ServeInv
  <2>6. KeptInv'
    BY <1>1, <1>2, <1>3, <2>2 DEF KeptInv
  <2> QED BY <2>1, <2>3, <2>4, <2>5, <2>6
<1> QED BY <1>4, <1>5
LEMMA ConsumePlaces ==
  ASSUME IInv, NEW w \in Worker, Consume(w) PROVE RingInv' /\ PlaceInv'
<1> USE PoolAssumption DEF IInv, PlaceInv
<1>1. /\ w \notin Serving /\ wpc[w] = "take"
      /\ Serving' = IF stopFlag = 0 THEN Serving \union {w} ELSE Serving
      /\ UNCHANGED <<backlog, open, stopFlag, msock, queue>>
  BY DEF Consume, At, Goto, Serving, TypeOK
<1>2. BacklogInv'
  BY <1>1 DEF BacklogInv
<1>3. CASE sqHead > sqTail
  <2>1. /\ RingInv' /\ Queued # <<>> /\ Queued' = Tail(Queued)
        /\ queue[sqTail % QueueSize] = Head(Queued)
    BY <1>1, <1>3, TypeIndexOK, ConsumeTakesHead DEF Consume
  <2>2. /\ wsock'[w] = Head(Queued)
        /\ \A v \in Worker \ {w} : wsock'[v] = wsock[v]
    BY <1>3, <2>1 DEF Consume, TypeOK
  <2>3. /\ Len(Queued) \in Nat \ {0} /\ Len(Queued') = Len(Queued) - 1
        /\ Head(Queued) = Queued[1]
        /\ \A k \in 1 .. Len(Queued') : Queued'[k] = Queued[k + 1]
    BY <2>1, EmptySeq, HeadTailProperties DEF RingInv
  <2>4. LineInv'
    BY <1>1, <2>3 DEF LineInv
  <2>5. /\ Queued[1] \in open /\ Queued[1] # msock
        /\ \A k \in 1 .. Len(Queued') : Queued'[k] # Queued[1]
        /\ \A v \in Serving : wsock[v] # Queued[1]
    BY <2>3 DEF LineInv, ServeInv
  <2>6. \A v \in Serving : v \in Worker \ {w}
    BY <1>1 DEF Serving
  <2>7. ServeInv'
    BY <1>1, <2>2, <2>3, <2>5, <2>6 DEF ServeInv
  <2>8. KeptInv'
    <3> SUFFICES ASSUME stopFlag = 0, NEW c \in open, c # msock
                 PROVE  \/ \E k \in 1 .. Len(Queued') : Queued'[k] = c
                        \/ \E v \in Serving' : wsock'[v] = c
      BY <1>1 DEF KeptInv
    <3>1. CASE \E v \in Serving : wsock[v] = c
      BY <1>1, <2>2, <2>6, <3>1
    <3>2. ASSUME NEW k \in 1 .. Len(Queued), Queued[k] = c
          PROVE  \/ \E j \in 1 .. Len(Queued') : Queued'[j] = c
                 \/ \E v \in Serving' : wsock'[v] = c
      <4>1. CASE k = 1
        BY <1>1, <2>2, <2>3, <3>2, <4>1
      <4>2. CASE k # 1
        <5>1. k - 1 \in 1 .. Len(Queued') /\ Queued'[k - 1] = c
          BY <2>3, <3>2, <4>2
        <5> QED BY <5>1
      <4> QED BY <4>1, <4>2
    <3> QED BY <3>1, <3>2 DEF KeptInv
  <2> QED BY <1>2, <2>1, <2>4, <2>7, <2>8
<1>4. CASE ~(sqHead > sqTail)
  <2>1. stopFlag # 0
    BY <1>1, <1>4 DEF ControlInv, TakeInv
  <2>2. Queued' = Queued /\ UNCHANGED wsock
    BY <1>4, SameRing DEF Consume, ringVars
  <2> QED BY <1>1, <2>1, <2>2, QuietPlaces DEF RingInv
<1> QED BY <1>3, <1>4

LEMMA ServePlaces ==
  ASSUME IInv, NEW w \in Worker, Serve(w) PROVE PlaceInv'
<1> USE DEF IInv, PlaceInv
<1>1. /\ w \in Serving /\ Serving' = Serving \ {w}
      /\ open' = open \ {wsock[w]}
      /\ UNCHANGED <<backlog, stopFlag, msock, wsock>>
  BY DEF Serve, At, Goto, Serving, TypeOK, masterVars
<1>2. Queued' = Queued
  BY SameRing DEF Serve
<1>3. BacklogInv'
  BY <1>1 DEF BacklogInv
<1>4. LineInv' /\ ServeInv'
  BY <1>1, <1>2 DEF LineInv, ServeInv
<1>5. KeptInv'
  BY <1>1, <1>2 DEF KeptInv
<1> QED BY <1>3, <1>4, <1>5

LEMMA ConnectPlaces ==
  ASSUME IInv, NEW c \in Conn, Connect(c) PROVE PlaceInv'
<1> USE DEF IInv, PlaceInv
<1>1. /\ Len(backlog) \in Nat /\ Len(backlog') = Len(backlog) + 1
      /\ \A k \in 1 .. Len(backlog) : backlog'[k] = backlog[k]
      /\ backlog'[Len(backlog) + 1] = c
  BY AppendProperties, LenProperties DEF Connect, TypeOK
<1>2. c \notin open /\ \A k \in 1 .. Len(backlog) : backlog[k] # c
  BY LenProperties DEF Connect, ToSet, TypeOK
<1>3. Queued' = Queued /\ Serving' = Serving
      /\ UNCHANGED <<open, stopFlag, msock, wsock>>
  BY SameRing DEF Connect, Serving, masterVars, workerVars
<1>4. BacklogInv'
  BY <1>1, <1>2, <1>3 DEF BacklogInv
<1>5. LineInv' /\ ServeInv' /\ KeptInv'
  BY <1>3 DEF LineInv, ServeInv, KeptInv
<1> QED BY <1>4, <1>5

LEMMA LeavePollPlaces ==
  ASSUME IInv, LeavePoll PROVE PlaceInv'
<1>1. /\ backlog' = <<>> /\ Queued' = Queued /\ Serving' = Serving
      /\ UNCHANGED <<open, stopFlag, msock, wsock>>
  BY SameRing DEF LeavePoll, Serving, workerVars
<1>2. Len(backlog') = 0
  BY <1>1, EmptySeq
<1> QED BY <1>1, <1>2 DEF IInv, PlaceInv, BacklogInv, LineInv, ServeInv, KeptInv
LEMMA InitPlaces == Init => PlaceInv
<1> SUFFICES ASSUME Init PROVE PlaceInv
  OBVIOUS
<1>1. Len(Queued) = 0
  BY QueuedLength, InitControl, TypeIndexOK, PoolAssumption DEF Init
<1>2. Len(backlog) = 0 /\ open = {} /\ Serving = {} /\ msock = None
  BY EmptySeq DEF Init, Serving
<1> QED BY <1>1, <1>2 DEF PlaceInv, BacklogInv, LineInv, ServeInv, KeptInv

LEMMA NextPlaces ==
  ASSUME IInv, [Next]_vars PROVE RingInv' /\ PlaceInv'
<1> USE DEF IInv, AppAt, MasterAt, At, Goto, Serving, TypeOK, ringVars, appVars,
        masterVars, workerVars
<1>1. ASSUME NEW w \in Worker, Spawn(w) \/ SpawnFails(w)
      PROVE  RingInv' /\ PlaceInv'
  BY <1>1, SameRing, QuietPlaces DEF Spawn, SpawnFails, RingInv
<1>2. CASE LoadCount \/ StoreCount \/ MgStop \/ MgStopReturns
  BY <1>2, SameRing, QuietPlaces DEF LoadCount, StoreCount, MgStop, MgStopReturns, RingInv
<1>3. CASE Accept
  BY <1>3, SameRing, AcceptPlaces DEF Accept, RingInv
<1>4. CASE MasterLocks \/ MasterTests \/ MasterWaits
  BY <1>4, SameRing, QuietPlaces DEF MasterLocks, MasterTests, MasterWaits, RingInv
<1>5. CASE Produce
  BY <1>5, ProducePlaces
<1>6. CASE LeavePoll
  BY <1>6, SameRing, LeavePollPlaces DEF LeavePoll, RingInv
<1>7. CASE Broadcast \/ AwaitWorkers \/ MasterExits
  BY <1>7, SameRing, QuietPlaces DEF Broadcast, AwaitWorkers, MasterExits, RingInv
<1>8. ASSUME NEW w \in Worker,
             \/ WorkerStarts(w) \/ WorkerHasNoMemory(w) \/ WorkerLocks(w)
             \/ WorkerTests(w) \/ WorkerWaits(w)
      PROVE  RingInv' /\ PlaceInv'
  BY <1>8, SameRing, QuietPlaces
  DEF WorkerStarts, WorkerHasNoMemory, WorkerLocks, WorkerTests, WorkerWaits, RingInv
<1>9. ASSUME NEW w \in Worker, Consume(w)
      PROVE  RingInv' /\ PlaceInv'
  BY <1>9, ConsumePlaces
<1>10. ASSUME NEW w \in Worker, Serve(w)
       PROVE  RingInv' /\ PlaceInv'
  BY <1>10, SameRing, ServePlaces DEF Serve, RingInv
<1>11. ASSUME NEW w \in Worker, \/ ConsumeReturns(w) \/ WorkerLeaves(w)
                                \/ WorkerStores(w) \/ WorkerAsserts(w)
       PROVE  RingInv' /\ PlaceInv'
  BY <1>11, SameRing, QuietPlaces
  DEF ConsumeReturns, WorkerLeaves, WorkerStores, WorkerAsserts, RingInv
<1>12. ASSUME NEW c \in Conn, Connect(c)
       PROVE  RingInv' /\ PlaceInv'
  BY <1>12, SameRing, ConnectPlaces DEF Connect, RingInv
<1>13. CASE SpuriousWakeup \/ UNCHANGED vars
  BY <1>13, SameRing, QuietPlaces DEF SpuriousWakeup, vars, RingInv
<1> QED
  BY <1>1, <1>2, <1>3, <1>4, <1>5, <1>6, <1>7, <1>8, <1>9, <1>10, <1>11, <1>12, <1>13
  DEF Next, App, Master, WorkerStep

LEMMA Invariance == Spec => []IInv
<1>1. Init => IInv
  BY InitControl, InitPlaces DEF IInv
<1>2. IInv /\ [Next]_vars => IInv'
  BY NextType, NextControl, NextPlaces DEF IInv
<1> QED BY <1>1, <1>2, PTL DEF Spec

-----------------------------------------------------------------------------
\* Every variable of the pool keeps its type; the indices of the ring stay
\* within twice its size.
THEOREM TypeCorrect == Spec => []TypeOK
<1>1. IInv => TypeOK
  BY DEF IInv
<1> QED BY <1>1, Invariance, PTL

\* A socket that is served is open and nobody else's, although conn->client is
\* never cleared and stop_flag is read without the mutex.
THEOREM SocketsHaveOneOwner == Spec => []OneOwner
<1>1. IInv => OneOwner
  BY QueuedLength, TypeIndexOK, PoolAssumption
  DEF IInv, PlaceInv, ServeInv, OneOwner
<1> QED BY <1>1, Invariance, PTL

\* Until mg_stop is called every accepted socket is with the master, in the ring
\* or with a worker that serves it.
THEOREM SocketsAreKept == Spec => []NoneForgotten
<1>1. IInv => NoneForgotten
  BY LenProperties DEF IInv, PlaceInv, KeptInv, NoneForgotten, RingInv, ToSet
<1> QED BY <1>1, Invariance, PTL
-----------------------------------------------------------------------------
(* The count of the threads.  mg_start increments it without the mutex while  *)
(* workers out of memory decrement it; as long as no update was overwritten   *)
(* it is right.                                                               *)

\* The workers num_threads stands for: created, and not yet subtracted.
Live == {w \in Worker : wpc[w] \notin {"off", "failed", "assert", "gone", "aborted"}}

Starting == apc \in {"spawn", "load", "store"}

\* Who may be where, before and after stop_flag is set.
PhaseInv ==
  /\ Starting => stopFlag = 0
  /\ ~Starting => \A w \in Worker : wpc[w] # "off"
  /\ stopFlag = 0 => mpc \notin {"broadcast", "exitLock", "exitAsleep", "exit", "gone"}

\* num_threads counts the live workers, but for the one that mg_start created
\* and has not counted yet.
CountInv ==
  ~lost =>
    numThreads = Cardinality(Live) - (IF apc \in {"load", "store"} THEN 1 ELSE 0)

NobodyLeft == \A w \in Worker : wpc[w] \in {"gone", "failed"}

\* The master leaves when nobody is left.
LastInv == (mpc \in {"exit", "gone"} \/ stopFlag = 2) /\ ~lost => NobodyLeft

StopInv == PhaseInv /\ CountInv /\ LastInv

LEMMA CountFacts ==
  ASSUME IsFiniteSet(Worker)
  PROVE  /\ Cardinality(Live) \in Nat
         /\ Cardinality(Live) = 0 => Live = {}
         /\ \A w \in Worker : w \notin Live => Cardinality(Live \union {w}) = Cardinality(Live) + 1
         /\ \A w \in Live : Cardinality(Live \ {w}) = Cardinality(Live) - 1
<1>1. IsFiniteSet(Live)
  BY FS_Subset DEF Live
<1> QED BY <1>1, FS_CardinalityType, FS_EmptySet, FS_AddElement, FS_RemoveElement

LEMMA InitStop == ASSUME IsFiniteSet(Worker) PROVE Init => StopInv
<1> SUFFICES ASSUME Init PROVE StopInv
  OBVIOUS
<1>1. Live = {}
  BY DEF Init, Live
<1>2. Cardinality(Live) = 0
  BY <1>1, FS_EmptySet
<1> QED BY <1>1, <1>2 DEF Init, StopInv, PhaseInv, Starting, CountInv, LastInv

LEMMA NextPhase ==
  ASSUME TypeOK, PhaseInv, [Next]_vars
  PROVE  PhaseInv'
<1> USE DEF TypeOK, PhaseInv, Starting, AppAt, MasterAt, At, Goto, Release, appVars,
        masterVars, workerVars
<1>1. ASSUME NEW w \in Worker, Spawn(w) \/ SpawnFails(w)
      PROVE  PhaseInv'
  BY <1>1 DEF Spawn, SpawnFails
<1>2. CASE LoadCount \/ StoreCount \/ MgStop \/ MgStopReturns
  BY <1>2 DEF LoadCount, StoreCount, MgStop, MgStopReturns
<1>3. CASE Accept \/ MasterLocks \/ MasterTests \/ MasterWaits
  BY <1>3 DEF Accept, MasterLocks, MasterTests, MasterWaits
<1>4. CASE Produce
  <2>1. \A w \in Worker : wpc'[w] = wpc[w] \/ (wpc[w] = "asleep" /\ wpc'[w] = "woken")
    BY <1>4 DEF Produce, SignalFull
  <2> QED BY <1>4, <2>1 DEF Produce
<1>5. CASE LeavePoll \/ Broadcast
  BY <1>5 DEF LeavePoll, Broadcast
<1>6. CASE AwaitWorkers \/ MasterExits
  BY <1>6 DEF AwaitWorkers, MasterExits
<1>7. ASSUME NEW w \in Worker, WorkerStep(w)
      PROVE  PhaseInv'
  <2>1. /\ wpc[w] # "off" /\ wpc'[w] # "off"
        /\ \A v \in Worker \ {w} : wpc'[v] = wpc[v]
    BY <1>7 DEF WorkerStep, WorkerStarts, WorkerHasNoMemory, WorkerLocks, WorkerTests,
       WorkerWaits, Consume, ConsumeReturns, Serve, WorkerLeaves, WorkerStores,
       WorkerAsserts
  <2>2. /\ UNCHANGED <<apc, stopFlag>>
        /\ \/ mpc' = mpc
           \/ mpc = "asleep" /\ mpc' = "woken"
           \/ mpc = "exitAsleep" /\ mpc' = "exitLock"
    BY <1>7 DEF WorkerStep, WorkerStarts, WorkerHasNoMemory, WorkerLocks, WorkerTests,
       WorkerWaits, Consume, ConsumeReturns, Serve, WorkerLeaves, WorkerStores,
       WorkerAsserts
  <2> QED BY <2>1, <2>2
<1>8. ASSUME NEW c \in Conn, Connect(c)
      PROVE  PhaseInv'
  BY <1>8 DEF Connect
<1>9. CASE SpuriousWakeup \/ UNCHANGED vars
  BY <1>9 DEF SpuriousWakeup, vars
<1> QED
  BY <1>1, <1>2, <1>3, <1>4, <1>5, <1>6, <1>7, <1>8, <1>9 DEF Next, App, Master

LEMMA NextCount ==
  ASSUME IsFiniteSet(Worker), TypeOK, LockInv, PhaseInv, CountInv, LastInv, [Next]_vars
  PROVE  CountInv' /\ LastInv'
<1> DEFINE Quiet == /\ Live' = Live /\ (NobodyLeft => NobodyLeft')
                    /\ UNCHANGED <<numThreads, lost>>
                    /\ apc' \in {"load", "store"} <=> apc \in {"load", "store"}
                    /\ mpc' \in {"exit", "gone"} => mpc \in {"exit", "gone"}
                    /\ stopFlag' = 2 => stopFlag = 2 \/ mpc \in {"exit", "gone"}
<1> USE DEF TypeOK, AppAt, MasterAt, At, Goto, Release, ringVars, appVars, masterVars,
        workerVars
<1>0. Quiet => CountInv' /\ LastInv'
  BY DEF CountInv, LastInv
<1> HIDE DEF Quiet
<1>1. ASSUME NEW w \in Worker, Spawn(w)
      PROVE  CountInv' /\ LastInv'
  <2>1. w \notin Live /\ Live' = Live \union {w}
    BY <1>1 DEF Spawn, Live
  <2>2. Cardinality(Live') = Cardinality(Live) + 1 /\ Cardinality(Live) \in Nat
    BY <2>1, CountFacts
  <2>3. stopFlag = 0 /\ mpc \notin {"exit", "gone"} /\ UNCHANGED <<stopFlag, mpc>>
    BY <1>1 DEF Spawn, PhaseInv, Starting
  <2>4. LastInv'
    BY <2>3 DEF LastInv
  <2>5. CountInv'
    BY <1>1, <2>2 DEF Spawn, CountInv
  <2> QED BY <2>4, <2>5
<1>2. ASSUME NEW w \in Worker, SpawnFails(w)
      PROVE  Quiet
  BY <1>2 DEF SpawnFails, Live, NobodyLeft, Quiet
<1>3. CASE LoadCount
  BY <1>3 DEF LoadCount, Live, NobodyLeft, CountInv, LastInv
<1>4. CASE StoreCount
  <2>1. Live' = Live /\ Cardinality(Live) \in Nat /\ NobodyLeft' = NobodyLeft
    BY <1>4, CountFacts DEF StoreCount, Live, NobodyLeft
  <2>2. ~lost' => ~lost /\ numThreads' = numThreads + 1
    BY <1>4 DEF StoreCount
  <2>3. apc = "store" /\ apc' = "spawn" /\ UNCHANGED <<mpc, stopFlag>>
    BY <1>4 DEF StoreCount
  <2>4. CountInv'
    BY <2>1, <2>2, <2>3 DEF CountInv
  <2>5. LastInv'
    BY <2>1, <2>2, <2>3 DEF LastInv
  <2> QED BY <2>4, <2>5
<1>5. ASSUME MgStop \/ MgStopReturns
      PROVE  Quiet
  BY <1>5 DEF MgStop, MgStopReturns, Live, NobodyLeft, Quiet
<1>6. ASSUME Accept \/ MasterLocks \/ MasterTests \/ MasterWaits \/ LeavePoll \/ Broadcast
      PROVE  Quiet
  <2>1. CASE Accept \/ LeavePoll
    BY <2>1 DEF Accept, LeavePoll, Live, NobodyLeft, Quiet
  <2>2. CASE MasterLocks \/ MasterTests \/ MasterWaits
    BY <2>2 DEF MasterLocks, MasterTests, MasterWaits, Live, NobodyLeft, Quiet
  <2>3. CASE Broadcast
    BY <2>3 DEF Broadcast, Live, NobodyLeft, Quiet
  <2> QED BY <1>6, <2>1, <2>2, <2>3
<1>7. ASSUME Produce
      PROVE  Quiet
  <2>1. \A w \in Worker : wpc'[w] = wpc[w] \/ (wpc[w] = "asleep" /\ wpc'[w] = "woken")
    BY <1>7 DEF Produce, SignalFull
  <2>2. Live' = Live /\ (NobodyLeft => NobodyLeft')
    BY <2>1 DEF Live, NobodyLeft
  <2>3. UNCHANGED <<numThreads, apc, lost, stopFlag>> /\ mpc' = "poll"
    BY <1>7 DEF Produce
  <2> QED BY <2>2, <2>3 DEF Quiet
<1>8. CASE AwaitWorkers
  <2>1. Live' = Live /\ NobodyLeft' = NobodyLeft
    BY <1>8 DEF AwaitWorkers, Live, NobodyLeft
  <2>2. CountInv'
    BY <1>8, <2>1 DEF AwaitWorkers, CountInv
  <2>3. ~Starting
    BY <1>8 DEF AwaitWorkers, PhaseInv
  <2>4. ASSUME mpc' \in {"exit", "gone"}, ~lost
        PROVE  NobodyLeft
    <3>1. Live = {}
      BY <1>8, <2>3, <2>4, CountFacts DEF AwaitWorkers, CountInv, Starting
    <3>2. \A w \in Worker : wpc[w] \notin {"off", "assert", "aborted"}
      BY <1>8, <2>3, PoolAssumption
      DEF AwaitWorkers, Free, LockInv, PhaseInv, Alive, Aborted, PoolAssumption
    <3> QED BY <3>1, <3>2 DEF Live, NobodyLeft
  <2> QED BY <1>8, <2>1, <2>2, <2>4 DEF AwaitWorkers, LastInv
<1>9. ASSUME MasterExits
      PROVE  Quiet
  BY <1>9 DEF MasterExits, Live, NobodyLeft, Quiet
<1>10. ASSUME NEW w \in Worker,
              \/ WorkerStarts(w) \/ WorkerHasNoMemory(w) \/ WorkerLocks(w)
              \/ WorkerTests(w) \/ WorkerWaits(w)
       PROVE  Quiet
  BY <1>10 DEF WorkerStarts, WorkerHasNoMemory, WorkerLocks, WorkerTests, WorkerWaits,
     Live, NobodyLeft, Quiet
<1>11. ASSUME NEW w \in Worker,
              Consume(w) \/ ConsumeReturns(w) \/ Serve(w) \/ WorkerLeaves(w)
       PROVE  Quiet
  BY <1>11 DEF Consume, ConsumeReturns, Serve, WorkerLeaves, Live, NobodyLeft, Quiet
<1>12. ASSUME NEW w \in Worker, WorkerStores(w)
       PROVE  CountInv' /\ LastInv'
  <2>1. w \in Live /\ Live' = Live \ {w} /\ ~NobodyLeft
    BY <1>12 DEF WorkerStores, Live, NobodyLeft
  <2>2. Cardinality(Live') = Cardinality(Live) - 1 /\ Cardinality(Live) \in Nat
    BY <2>1, CountFacts
  <2>3. ~lost' => ~lost /\ numThreads' = numThreads - 1
    BY <1>12 DEF WorkerStores
  <2>4. /\ UNCHANGED <<apc, stopFlag>>
        /\ mpc' \in {"exit", "gone"} => mpc \in {"exit", "gone"}
    BY <1>12 DEF WorkerStores
  <2>5. CountInv'
    BY <2>2, <2>3, <2>4 DEF CountInv
  <2>6. LastInv'
    BY <2>1, <2>3, <2>4 DEF LastInv
  <2> QED BY <2>5, <2>6
<1>13. ASSUME NEW w \in Worker, WorkerAsserts(w)
       PROVE  Quiet
  BY <1>13 DEF WorkerAsserts, Live, NobodyLeft, Quiet
<1>14. ASSUME NEW c \in Conn, Connect(c)
       PROVE  Quiet
  BY <1>14 DEF Connect, Live, NobodyLeft, Quiet
<1>15. ASSUME SpuriousWakeup \/ UNCHANGED vars
       PROVE  Quiet
  <2>1. CASE SpuriousWakeup
    <3>1. /\ UNCHANGED <<numThreads, apc, lost, stopFlag>>
          /\ \A w \in Worker :
               wpc'[w] = wpc[w] \/ (wpc[w] = "asleep" /\ wpc'[w] = "woken")
          /\ mpc' \in {mpc, "woken", "exitLock"}
      BY <2>1 DEF SpuriousWakeup
    <3>2. Live' = Live /\ (NobodyLeft => NobodyLeft')
      BY <3>1 DEF Live, NobodyLeft
    <3> QED BY <3>1, <3>2 DEF Quiet
  <2>2. CASE UNCHANGED vars
    BY <2>2 DEF vars, Live, NobodyLeft, Quiet
  <2> QED BY <1>15, <2>1, <2>2
<1> QED
  BY <1>0, <1>1, <1>2, <1>3, <1>4, <1>5, <1>6, <1>7, <1>8, <1>9, <1>10, <1>11, <1>12,
     <1>13, <1>14, <1>15
  DEF Next, App, Master, WorkerStep

\* Unless an update of num_threads was overwritten, no worker is left when the
\* master leaves and mg_stop frees the context: for any number of workers,
\* whichever could not be created or ran out of memory, and at any moment.
THEOREM NobodyUsesFreedContext ==
  ASSUME IsFiniteSet(Worker)
  PROVE  Spec => []StopIsLast
<1>1. Init => StopInv
  BY InitStop
<1>2. IInv /\ StopInv /\ [Next]_vars => StopInv'
  BY NextPhase, NextCount DEF IInv, ControlInv, StopInv
<1>3. StopInv => StopIsLast
  BY DEF StopInv, LastInv, NobodyLeft, StopIsLast
<1> QED BY <1>1, <1>2, <1>3, Invariance, PTL DEF Spec

-----------------------------------------------------------------------------
(* The refinement of Service, for a pool nobody stops. *)

\* The images of Service's variables.
Line  == IF msock = None THEN Queued ELSE Append(Queued, msock)
Taken == {wsock[w] : w \in Serving}

\* A pool nobody stops does not stop by itself.
RunningInv ==
  stopFlag = 0 /\ mpc \in {"poll", "lock", "test", "wait", "asleep", "woken", "put"}

LEMMA Running ==
  ASSUME MayStop = FALSE PROVE Spec => []RunningInv
<1>1. Init => RunningInv
  BY DEF Init, RunningInv
<1>2. RunningInv /\ [Next]_vars => RunningInv'
  <2> SUFFICES ASSUME RunningInv, [Next]_vars PROVE RunningInv'
    OBVIOUS
  <2> USE DEF RunningInv, MasterAt, appVars, masterVars
  <2>1. CASE App \/ MgStop
    BY <2>1 DEF App, Spawn, SpawnFails, LoadCount, StoreCount, MgStopReturns, MgStop
  <2>2. CASE Master
    BY <2>2 DEF Master, Accept, MasterLocks, MasterTests, MasterWaits, Produce,
       LeavePoll, Broadcast, AwaitWorkers, MasterExits
  <2>3. ASSUME NEW w \in Worker, WorkerStep(w)
        PROVE  RunningInv'
    BY <2>3 DEF WorkerStep, WorkerStarts, WorkerHasNoMemory, WorkerLocks, WorkerTests,
       WorkerWaits, Consume, ConsumeReturns, Serve, WorkerLeaves,
       WorkerStores, WorkerAsserts
  <2>4. ASSUME NEW c \in Conn, Connect(c)
        PROVE  RunningInv'
    BY <2>4 DEF Connect
  <2>5. CASE SpuriousWakeup \/ UNCHANGED vars
    BY <2>5 DEF SpuriousWakeup, vars
  <2> QED BY <2>1, <2>2, <2>3, <2>4, <2>5 DEF Next
<1> QED BY <1>1, <1>2, PTL DEF Spec

\* What the invariant says of the images.
LEMMA ImageFacts ==
  ASSUME IInv
  PROVE  /\ Queued \in Seq(Conn) /\ Len(Queued) = sqHead - sqTail
         /\ Line \in Seq(Conn)
         /\ ToSet(Line) \subseteq open /\ Taken \subseteq open /\ open \subseteq Conn
<1> USE DEF IInv
<1>1. Queued \in Seq(Conn) /\ Len(Queued) = sqHead - sqTail
  BY QueuedLength, TypeIndexOK, PoolAssumption DEF RingInv
<1>2. ASSUME msock # None
      PROVE  /\ Append(Queued, msock) \in Seq(Conn)
             /\ \A k \in 1 .. Len(Append(Queued, msock)) : Append(Queued, msock)[k] \in open
  BY <1>1, <1>2, AppendProperties, LenProperties DEF TypeOK, PlaceInv, LineInv
<1>3. Line \in Seq(Conn) /\ \A k \in 1 .. Len(Line) : Line[k] \in open
  BY <1>1, <1>2 DEF Line, PlaceInv, LineInv
<1>4. ToSet(Line) \subseteq open
  BY <1>3, LenProperties DEF ToSet
<1>5. Taken \subseteq open
  BY DEF Taken, PlaceInv, ServeInv
<1> QED BY <1>1, <1>3, <1>4, <1>5 DEF TypeOK

\* A step that moves no socket is a stutter.
LEMMA QuietRefines ==
  ASSUME Queued' = Queued, UNCHANGED <<backlog, msock, wsock>>, Serving' = Serving
  PROVE  UNCHANGED <<backlog, Line, Taken>>
  BY DEF Line, Taken

\* Service's actions in terms of the images.
LEMMA SvcConnect ==
  ASSUME NEW c \in Conn, c \notin ToSet(backlog) \union ToSet(Line) \union Taken,
         backlog' = Append(backlog, c), UNCHANGED <<Line, Taken>>
  PROVE  Svc!Connect(c)
  BY Zenon DEF Svc!Connect, Line, Taken, ToSet, Svc!ToSet

LEMMA SvcClose ==
  ASSUME NEW c, c \in Taken, Taken' = Taken \ {c}, UNCHANGED <<backlog, Line>>
  PROVE  Svc!Close(c)
  BY Zenon DEF Svc!Close, Line, Taken

LEMMA SvcAccept ==
  ASSUME backlog # <<>>, Len(Line) < QueueSize + 1,
         Line' = Append(Line, Head(backlog)), backlog' = Tail(backlog),
         UNCHANGED Taken
  PROVE  Svc!Accept
  BY Zenon DEF Svc!Accept, Line, Taken

LEMMA SvcTake ==
  ASSUME Line # <<>>, Taken' = Taken \union {Head(Line)}, Line' = Tail(Line),
         UNCHANGED backlog
  PROVE  Svc!Take
  BY Zenon DEF Svc!Take, Line, Taken

LEMMA AcceptRefines ==
  ASSUME IInv, Accept PROVE Svc!Accept
<1> USE DEF IInv
<1>1. msock = None /\ Line = Queued /\ backlog # <<>>
  BY DEF Accept, MasterAt, ControlInv, MasterInv, Line
<1>2. Head(backlog) \in Conn /\ Head(backlog) # None
  BY <1>1, HeadTailProperties, PoolAssumption DEF TypeOK, PoolAssumption
<1>3. Queued' = Queued /\ msock' = Head(backlog) /\ backlog' = Tail(backlog)
  BY SameRing DEF Accept
<1>4. Line' = Append(Line, Head(backlog))
  BY <1>1, <1>2, <1>3 DEF Line
<1>5. Len(Line) < QueueSize + 1
  BY <1>1, ImageFacts, PoolAssumption DEF TypeOK, PoolAssumption
<1>6. Taken' = Taken
  BY DEF Accept, Taken, Serving, workerVars
<1> QED BY <1>1, <1>3, <1>4, <1>5, <1>6, SvcAccept

LEMMA ProduceRefines ==
  ASSUME IInv, RunningInv, Produce PROVE UNCHANGED <<backlog, Line, Taken>>
<1> USE DEF IInv
<1>1. msock \in Conn /\ msock # None /\ msock' = None /\ ~Full
  BY DEF Produce, MasterAt, ControlInv, MasterInv, PutInv, RunningInv, TypeOK
<1>2. Queued' = Append(Queued, msock)
  BY <1>1, TypeIndexOK, ProduceAppends, PoolAssumption DEF Produce
<1>3. Line' = Line
  BY <1>1, <1>2 DEF Line
<1>4. Serving' = Serving /\ UNCHANGED <<backlog, wsock>>
  BY DEF Produce, MasterAt, SignalFull, Goto, Serving, TypeOK
<1> QED BY <1>3, <1>4 DEF Taken

LEMMA ConsumeRefines ==
  ASSUME IInv, RunningInv, NEW w \in Worker, Consume(w) PROVE Svc!Take
<1> USE DEF IInv
<1>1. sqHead > sqTail /\ UNCHANGED <<backlog, msock, queue, stopFlag>>
  BY DEF Consume, At, ControlInv, TakeInv, RunningInv
<1>2. /\ Queued # <<>> /\ Queued' = Tail(Queued)
      /\ queue[sqTail % QueueSize] = Head(Queued)
  BY <1>1, TypeIndexOK, ConsumeTakesHead, PoolAssumption DEF Consume
<1>3. /\ w \notin Serving /\ Serving' = Serving \union {w}
      /\ wsock'[w] = Head(Queued)
      /\ \A v \in Serving : wsock'[v] = wsock[v]
  BY <1>1, <1>2 DEF Consume, At, Goto, Serving, TypeOK, RunningInv
<1>4. Taken' = Taken \union {Head(Queued)}
  BY <1>3 DEF Taken
<1>5. Line # <<>> /\ Head(Line) = Head(Queued) /\ Line' = Tail(Line)
  <2>1. CASE msock = None
    BY <1>1, <1>2, <2>1 DEF Line
  <2>2. CASE msock # None
    <3>1. Line = Append(Queued, msock) /\ Line' = Append(Tail(Queued), msock)
      BY <1>1, <1>2, <2>2 DEF Line
    <3>2. msock \in Conn /\ Queued \in Seq(Conn)
      BY <2>2 DEF TypeOK, RingInv
    <3>3. Head(Line) = Head(Queued) /\ Tail(Line) = Append(Tail(Queued), msock)
      BY <1>2, <3>1, <3>2, HeadTailAppend
    <3> QED BY <3>1, <3>2, <3>3, AppendProperties
  <2> QED BY <2>1, <2>2
<1> QED BY <1>1, <1>4, <1>5, SvcTake

LEMMA ServeRefines ==
  ASSUME IInv, NEW w \in Worker, Serve(w) PROVE \E c \in Conn : Svc!Close(c)
<1> USE DEF IInv
<1>1. /\ w \in Serving /\ Serving' = Serving \ {w}
      /\ Queued' = Queued /\ UNCHANGED <<backlog, msock, wsock>>
  BY SameRing DEF Serve, At, Goto, Serving, TypeOK, masterVars
<1>2. \A v \in Serving \ {w} : wsock[v] # wsock[w]
  BY <1>1 DEF PlaceInv, ServeInv
<1>3. wsock[w] \in Taken /\ wsock[w] \in Conn
  BY <1>1, ImageFacts DEF Taken
<1>4. Taken' = Taken \ {wsock[w]}
  BY <1>1, <1>2 DEF Taken
<1>5. Line' = Line
  BY <1>1 DEF Line
<1>6. PICK c \in Conn : c = wsock[w]
  BY <1>3
<1>7. Svc!Close(c)
  BY <1>1, <1>3, <1>4, <1>5, <1>6, SvcClose
<1> QED BY <1>7

LEMMA ConnectRefines ==
  ASSUME IInv, NEW c \in Conn, Connect(c) PROVE Svc!Connect(c)
<1>1. c \notin ToSet(backlog) \union ToSet(Line) \union Taken
  BY ImageFacts DEF Connect
<1>2. backlog' = Append(backlog, c)
  BY DEF Connect
<1>3. UNCHANGED <<Line, Taken>>
  BY SameRing DEF Connect, Serving, Line, Taken, masterVars, workerVars
<1> QED BY <1>1, <1>2, <1>3, SvcConnect

LEMMA StepRefines ==
  ASSUME MayStop = FALSE, IInv, RunningInv, [Next]_vars
  PROVE  [Svc!Next]_<<backlog, Line, Taken>>
<1> USE DEF RunningInv, AppAt, MasterAt, At, Goto, Serving, ringVars, appVars,
        masterVars, workerVars
<1>0. TypeOK
  BY DEF IInv
<1>1. ASSUME NEW w \in Worker, Spawn(w) \/ SpawnFails(w)
      PROVE  UNCHANGED <<backlog, Line, Taken>>
  BY <1>0, <1>1, SameRing, QuietRefines DEF Spawn, SpawnFails, TypeOK
<1>2. CASE LoadCount \/ StoreCount \/ MgStop \/ MgStopReturns
  BY <1>2, SameRing, QuietRefines DEF LoadCount, StoreCount, MgStop, MgStopReturns
<1>3. CASE Accept
  BY <1>3, AcceptRefines DEF Svc!Next
<1>4. CASE MasterLocks \/ MasterTests \/ MasterWaits
  BY <1>4, SameRing, QuietRefines DEF MasterLocks, MasterTests, MasterWaits
<1>5. CASE Produce
  BY <1>5, ProduceRefines
<1>6. ~(LeavePoll \/ Broadcast \/ AwaitWorkers \/ MasterExits)
  BY DEF LeavePoll, Broadcast, AwaitWorkers, MasterExits
<1>7. ASSUME NEW w \in Worker,
             \/ WorkerStarts(w) \/ WorkerHasNoMemory(w) \/ WorkerLocks(w)
             \/ WorkerTests(w) \/ WorkerWaits(w)
      PROVE  UNCHANGED <<backlog, Line, Taken>>
  BY <1>0, <1>7, SameRing, QuietRefines
  DEF WorkerStarts, WorkerHasNoMemory, WorkerLocks, WorkerTests, WorkerWaits, TypeOK
<1>8. ASSUME NEW w \in Worker, Consume(w)
      PROVE  Svc!Next
  BY <1>8, ConsumeRefines DEF Svc!Next
<1>9. ASSUME NEW w \in Worker, Serve(w)
      PROVE  Svc!Next
  <2>1. \E c \in Conn : Svc!Close(c)
    BY <1>9, ServeRefines
  <2> QED BY <2>1 DEF Svc!Next
<1>10. ASSUME NEW w \in Worker, \/ ConsumeReturns(w) \/ WorkerLeaves(w)
                                \/ WorkerStores(w) \/ WorkerAsserts(w)
       PROVE  UNCHANGED <<backlog, Line, Taken>>
  BY <1>0, <1>10, SameRing, QuietRefines
  DEF ConsumeReturns, WorkerLeaves, WorkerStores, WorkerAsserts, TypeOK
<1>11. ASSUME NEW c \in Conn, Connect(c)
       PROVE  Svc!Next
  BY <1>11, ConnectRefines DEF Svc!Next
<1>12. CASE SpuriousWakeup \/ UNCHANGED vars
  BY <1>0, <1>12, SameRing, QuietRefines DEF SpuriousWakeup, vars, TypeOK
<1> QED
  BY <1>1, <1>2, <1>3, <1>4, <1>5, <1>6, <1>7, <1>8, <1>9, <1>10, <1>11, <1>12
  DEF Next, App, Master, WorkerStep

LEMMA InitRefines == Init => Svc!Init
<1> SUFFICES ASSUME Init PROVE Svc!Init
  OBVIOUS
<1>1. Len(Queued) = 0 /\ Queued \in Seq(Conn)
  BY QueuedLength, InitControl, TypeIndexOK, PoolAssumption DEF Init, RingInv
<1>2. Queued = <<>>
  BY <1>1, EmptySeq
<1>3. Serving = {}
  BY DEF Init, Serving
<1> QED BY <1>2, <1>3 DEF Init, Svc!Init

\* The pool implements Service while nobody stops it, whatever the number of
\* workers and the size of the ring, and whichever workers could not be made:
\* connections are taken in the order they came, each by one worker.
THEOREM PoolImplementsService ==
  ASSUME MayStop = FALSE PROVE Spec => ImplementsService
<1>1. Init => Svc!Init
  BY InitRefines
<1>2. IInv /\ RunningInv /\ [Next]_vars => [Svc!Next]_Svc!serviceVars
  BY StepRefines DEF Svc!serviceVars, Line, Taken
<1> QED BY <1>1, <1>2, Invariance, Running, PTL DEF Spec, ImplementsService, Svc!Spec
=============================================================================
