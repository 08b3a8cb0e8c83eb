----------------------------- MODULE Lifecycle -----------------------------
(***************************************************************************)
(* The life of a cudamond process: main, monitor_new, server_new,          *)
(* server_start, the loop of monitor_start, monitor_destroy and            *)
(* server_destroy, with the resources they own (the NVML session, the NVML *)
(* event sets, the monitor on the heap) and the mongoose workers that use  *)
(* the monitor meanwhile.                                                  *)
(*                                                                         *)
(* What a pass reads is in Telemetry, how connections reach the workers in *)
(* SocketQueue: here a pass is the waits on the event sets, a request one  *)
(* use of the monitor.                                                     *)
(***************************************************************************)
EXTENDS Naturals

CONSTANTS
  DevCount,  \* mon->dev_count
  Worker     \* the mongoose worker threads

ASSUME DevCountAssumption == DevCount \in Nat

Device == 0 .. DevCount - 1

VARIABLES
  pc,         \* where the main thread is
  i,          \* loop index of the main thread
  proc,       \* "running", or how the process ended
  nvml,       \* is the NVML session open?
  atexit,     \* is shutdown_nvml registered?
  open,       \* the event sets NVML holds, named by their device
  eventSet,   \* the devices whose dev->event_set points to its set
  heap,       \* the monitor and its device array: "none", "live" or "freed"
  active,     \* mon->active
  published,  \* server.c's static `monitor` is not NULL
  threads,    \* do the mongoose threads run?
  ctx,        \* srv->ctx: "unset", "null" or "live"
  busy        \* the workers inside begin_request_handler

mainVars    == <<pc, i, proc>>
sessionVars == <<nvml, atexit>>
eventVars   == <<open, eventSet>>
monitorVars == <<heap, active>>
serverVars  == <<published, threads, ctx, busy>>

vars == <<mainVars, sessionVars, eventVars, monitorVars, serverVars>>

Init ==
  /\ pc = "nvmlInit"
  /\ i = 0
  /\ proc = "running"
  /\ nvml = FALSE
  /\ atexit = FALSE
  /\ open = {}
  /\ eventSet = {}
  /\ heap = "none"
  /\ active = FALSE
  /\ published = FALSE
  /\ threads = FALSE
  /\ ctx = "unset"
  /\ busy = {}

At(label) == proc = "running" /\ pc = label

-----------------------------------------------------------------------------
(* main, up to the server. *)

\* Mutant: the result of nvmlInit is not tested.
NvmlInitFailsIgnored ==
  /\ At("nvmlInit")
  /\ pc' = "monitorNew"
  /\ atexit' = TRUE
  /\ UNCHANGED <<i, proc, nvml, eventVars, monitorVars, serverVars>>

NvmlInitFails ==
  /\ At("nvmlInit")
  /\ pc' = "exit"
  /\ UNCHANGED <<i, proc, sessionVars, eventVars, monitorVars, serverVars>>

NvmlInit ==
  /\ At("nvmlInit")
  /\ nvml' = TRUE
  /\ atexit' = TRUE
  /\ pc' = "monitorNew"
  /\ UNCHANGED <<i, proc, eventVars, monitorVars, serverVars>>

\* monitor_new, up to the loop of init_device_info.
MonitorNew ==
  /\ At("monitorNew")
  /\ heap' = "live"
  /\ active' = TRUE
  /\ i' = 0
  /\ pc' = "probe"
  /\ UNCHANGED <<proc, sessionVars, eventVars, serverVars>>

\* Mutant: dev.event_set is set although nvmlEventSetCreate failed.
ProbeEventsUnchecked ==
  /\ At("probe") /\ i < DevCount
  /\ \E created, typesKnown \in BOOLEAN :
       /\ open' = IF created THEN open \union {i} ELSE open
       /\ eventSet' = IF typesKnown THEN eventSet \union {i} ELSE eventSet
  /\ i' = i + 1
  /\ UNCHANGED <<pc, proc, sessionVars, monitorVars, serverVars>>

\* One iteration of that loop.  Creating the event set and asking which event
\* types the device has may each fail; when the second fails dev.event_set is
\* set to NULL, whether or not there is a set.
ProbeEvents ==
  /\ At("probe") /\ i < DevCount
  /\ \E created, typesKnown \in BOOLEAN :
       /\ open' = IF created THEN open \union {i} ELSE open
       /\ eventSet' = IF created /\ typesKnown THEN eventSet \union {i} ELSE eventSet
  /\ i' = i + 1
  /\ UNCHANGED <<pc, proc, sessionVars, monitorVars, serverVars>>

\* The end of monitor_new, and server_new.
ServerNew ==
  /\ At("probe") /\ i = DevCount
  /\ pc' = "publish"
  /\ UNCHANGED <<i, proc, sessionVars, eventVars, monitorVars, serverVars>>

-----------------------------------------------------------------------------
(* server_start. *)

\* Mutant: the handlers' pointer is not set before mg_start.
PublishLater ==
  /\ At("publish")
  /\ pc' = "mgStart"
  /\ UNCHANGED <<i, proc, sessionVars, eventVars, monitorVars, serverVars>>

Publish ==
  /\ At("publish")
  /\ published' = TRUE
  /\ pc' = "mgStart"
  /\ UNCHANGED <<i, proc, threads, ctx, busy, sessionVars, eventVars, monitorVars>>

\* mg_start created the threads; it returns only later.
ThreadsStart ==
  /\ At("mgStart")
  /\ threads' = TRUE
  /\ pc' = "mgStarted"
  /\ UNCHANGED <<i, proc, published, ctx, busy, sessionVars, eventVars, monitorVars>>

\* Mutant: the test of the returned context is inverted.
MgStartReturnsInverted ==
  /\ At("mgStarted")
  /\ ctx' = "live"
  /\ active' = FALSE
  /\ pc' = "loop"
  /\ UNCHANGED <<i, proc, heap, published, threads, busy, sessionVars, eventVars>>

MgStartReturns ==
  /\ At("mgStarted")
  /\ ctx' = "live"
  /\ pc' = "loop"
  /\ UNCHANGED <<i, proc, published, threads, busy, sessionVars, eventVars, monitorVars>>

\* Mutant: a failed start is reported and nothing else.
MgStartFailsIgnored ==
  /\ At("mgStart")
  /\ ctx' = "null"
  /\ pc' = "loop"
  /\ UNCHANGED <<i, proc, published, threads, busy, sessionVars, eventVars, monitorVars>>

\* mg_start returns NULL: the port is taken, for one.
MgStartFails ==
  /\ At("mgStart")
  /\ ctx' = "null"
  /\ active' = FALSE
  /\ pc' = "loop"
  /\ UNCHANGED <<i, proc, heap, published, threads, busy, sessionVars, eventVars>>

-----------------------------------------------------------------------------
(* monitor_start. *)

\* Mutant: the loop test is made once.
LoopOnce ==
  /\ At("loop")
  /\ active
  /\ active' = FALSE
  /\ i' = 0
  /\ pc' = "pass"
  /\ UNCHANGED <<proc, heap, sessionVars, eventVars, serverVars>>

Loop ==
  /\ At("loop")
  /\ active
  /\ i' = 0
  /\ pc' = "pass"
  /\ UNCHANGED <<proc, sessionVars, eventVars, monitorVars, serverVars>>

\* update_device_info for one device: the queries, and the wait on the event
\* set unless it is NULL.
UpdateDevice ==
  /\ At("pass") /\ i < DevCount
  /\ i' = i + 1
  /\ UNCHANGED <<pc, proc, sessionVars, eventVars, monitorVars, serverVars>>

\* The end of the pass, and the sleep.
EndPass ==
  /\ At("pass") /\ i = DevCount
  /\ pc' = "loop"
  /\ UNCHANGED <<i, proc, sessionVars, eventVars, monitorVars, serverVars>>

LeaveLoop ==
  /\ At("loop")
  /\ ~active
  /\ i' = 0
  /\ pc' = "monitorDestroy"
  /\ UNCHANGED <<proc, sessionVars, eventVars, monitorVars, serverVars>>

-----------------------------------------------------------------------------
(* monitor_destroy, server_destroy, and the end. *)

\* Mutant: the loop skips the first device.
FreeEventSetButFirst ==
  /\ At("monitorDestroy") /\ i < DevCount
  /\ open' = open \ (({i} \ {0}) \cap eventSet)
  /\ i' = i + 1
  /\ UNCHANGED <<pc, proc, eventSet, sessionVars, monitorVars, serverVars>>

\* nvmlEventSetFree(dev->event_set); freeing NULL is refused by NVML.
FreeEventSet ==
  /\ At("monitorDestroy") /\ i < DevCount
  /\ open' = open \ ({i} \cap eventSet)
  /\ i' = i + 1
  /\ UNCHANGED <<pc, proc, eventSet, sessionVars, monitorVars, serverVars>>

FreeMonitor ==
  /\ At("monitorDestroy") /\ i = DevCount
  /\ heap' = "freed"
  /\ pc' = "serverDestroy"
  /\ UNCHANGED <<i, proc, active, sessionVars, eventVars, serverVars>>

\* mg_stop(srv->ctx) stores to ctx->stop_flag before it looks at anything; a
\* live context is stopped once its workers are done.
ServerDestroy ==
  /\ At("serverDestroy")
  /\ IF ctx = "null"
       THEN proc' = "crashed" /\ UNCHANGED <<pc, threads>>
       ELSE busy = {} /\ threads' = FALSE /\ pc' = "exit" /\ UNCHANGED proc
  /\ UNCHANGED <<i, published, ctx, busy, sessionVars, eventVars, monitorVars>>

\* exit runs the registered handler, shutdown_nvml.
Exit ==
  /\ At("exit")
  /\ proc' = "exited"
  /\ nvml' = IF atexit THEN FALSE ELSE nvml
  /\ UNCHANGED <<pc, i, atexit, eventVars, monitorVars, serverVars>>

Main ==
  \/ NvmlInit \/ NvmlInitFails \/ MonitorNew \/ ProbeEvents \/ ServerNew
  \/ Publish \/ ThreadsStart \/ MgStartReturns \/ MgStartFails
  \/ Loop \/ UpdateDevice \/ EndPass \/ LeaveLoop
  \/ FreeEventSet \/ FreeMonitor \/ ServerDestroy \/ Exit

-----------------------------------------------------------------------------
(* The rest of the world. *)

\* A worker enters begin_request_handler, which reads through `monitor`.
BeginRequest(w) ==
  /\ proc = "running" /\ threads
  /\ w \notin busy
  /\ busy' = busy \union {w}
  /\ UNCHANGED <<published, threads, ctx, mainVars, sessionVars, eventVars, monitorVars>>

EndRequest(w) ==
  /\ proc = "running"
  /\ w \in busy
  /\ busy' = busy \ {w}
  /\ UNCHANGED <<published, threads, ctx, mainVars, sessionVars, eventVars, monitorVars>>

\* A signal: no handler is installed, so nothing registered with atexit runs.
Kill ==
  /\ proc = "running"
  /\ proc' = "killed"
  /\ UNCHANGED <<pc, i, sessionVars, eventVars, monitorVars, serverVars>>

\* An ended process stays ended.
Ended ==
  /\ proc # "running"
  /\ UNCHANGED vars

Next ==
  \/ Main
  \/ \E w \in Worker : BeginRequest(w) \/ EndRequest(w)
  \/ Kill
  \/ Ended

Spec == Init /\ [][Next]_vars

(***************************************************************************)
(* Fairness: the main thread is scheduled, its calls return (the event     *)
(* wait is bounded by 1 ms) and its sleep ends.                            *)
(***************************************************************************)
FairSpec == Spec /\ WF_vars(Main)

-----------------------------------------------------------------------------
TypeOK ==
  /\ pc \in {"nvmlInit", "monitorNew", "probe", "publish", "mgStart", "mgStarted",
             "loop", "pass", "monitorDestroy", "serverDestroy", "exit"}
  /\ i \in 0 .. DevCount
  /\ proc \in {"running", "exited", "crashed", "killed"}
  /\ nvml \in BOOLEAN
  /\ atexit \in BOOLEAN
  /\ open \subseteq Device
  /\ eventSet \subseteq Device
  /\ heap \in {"none", "live", "freed"}
  /\ active \in BOOLEAN
  /\ published \in BOOLEAN
  /\ threads \in BOOLEAN
  /\ ctx \in {"unset", "null", "live"}
  /\ busy \subseteq Worker

\* A request handler reads the monitor only while it is on the heap and the
\* static pointer is set: server_start publishes before mg_start creates a
\* thread, and main frees the monitor only when no thread was ever created.
HandlersSeeMonitor == busy # {} => published /\ heap = "live"

\* NVML is called only inside the session nvmlInit opened: by main, from
\* monitor_new to monitor_destroy.
NvmlBracketed ==
  At("probe") \/ At("pass") \/ At("monitorDestroy") => nvml

\* A pass waits only on event sets that NVML holds.
WaitsOnOpenSets == At("pass") => eventSet \subseteq open

\* monitor_destroy frees every event set a device points to.  (A set created for
\* a device whose event types cannot be read is not pointed to any more.)
KnownSetsReleased == heap = "freed" => open \cap eventSet = {}

\* A daemon that serves nobody does not monitor either: after a failed
\* server_start monitor_start makes no pass.
NoPassUnserved == At("pass") => ctx = "live"

\* A daemon whose server could not start comes to an end by itself.
FailedStartEnds == ctx = "null" ~> proc # "running"

\* A daemon whose server started goes on monitoring until a signal ends it.
KeepsMonitoring == ctx = "live" ~> (pc = "pass" \/ proc = "killed")

\* The event sets of main's devices: none is waited on that NVML does not hold
\* (update_device_info), none a device points to is left in NVML
\* (monitor_destroy), whichever calls of init_device_info failed.
EventSetsKept == WaitsOnOpenSets /\ KnownSetsReleased

\* The daemon monitors exactly while it serves: without a server it makes no
\* pass and ends by itself, with one it goes on, as mon->active tells it.
RunsWhileServing == []NoPassUnserved /\ FailedStartEnds /\ KeepsMonitoring

\* Nothing but a signal ends a daemon that serves.
ServesUntilKilled ==
  [][ctx = "live" /\ proc = "running" => proc' \in {"running", "killed"}]_vars
=============================================================================
