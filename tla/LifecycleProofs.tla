-------------------------- MODULE LifecycleProofs --------------------------
(***************************************************************************)
(* Proofs about Lifecycle for every number of devices and every set of     *)
(* mongoose workers.                                                       *)
(***************************************************************************)
EXTENDS Lifecycle, TLAPS

(***************************************************************************)
(* The inductive invariant.  That a handler finds the monitor on the heap  *)
(* is a matter of what the main thread can still do: while threads exist   *)
(* the context is not NULL, so `active` is still set and the loop is never *)
(* left.                                                                   *)
(***************************************************************************)
\* What each value of srv->ctx says about the main thread.
ContextInv ==
  /\ ctx = "unset" =>
       /\ pc \in {"nvmlInit", "monitorNew", "probe", "publish", "mgStart", "mgStarted",
                  "exit"}
       /\ threads <=> pc = "mgStarted"
  /\ ctx = "null" =>
       /\ pc \in {"loop", "monitorDestroy", "serverDestroy"}
       /\ ~active /\ ~threads
  /\ ctx = "live" =>
       /\ pc \in {"loop", "pass"}
       /\ active /\ threads
  /\ ctx \in {"unset", "null", "live"}

\* The monitor is on the heap from monitor_new on, the handlers' pointer set
\* from Publish on, and while there are threads `active` stays set.
HeapInv ==
  /\ pc \in {"probe", "publish", "mgStart", "mgStarted", "loop", "pass",
             "monitorDestroy"} => heap = "live"
  /\ pc \in {"probe", "publish", "mgStart", "mgStarted"} => active
  /\ pc \in {"mgStart", "mgStarted", "loop", "pass"} => published

BusyInv == busy # {} => threads

SessionInv == pc \notin {"nvmlInit", "exit"} => nvml

IInv == ContextInv /\ HeapInv /\ BusyInv /\ SessionInv

LEMMA InitInv == Init => IInv
  BY DEF Init, IInv, ContextInv, HeapInv, BusyInv, SessionInv

LEMMA NextInv == IInv /\ [Next]_vars => IInv'
<1> SUFFICES ASSUME IInv, [Next]_vars PROVE IInv'
  OBVIOUS
<1> USE DEF IInv, ContextInv, HeapInv, BusyInv, SessionInv, At,
        mainVars, sessionVars, eventVars, monitorVars, serverVars
<1>1. CASE NvmlInit \/ NvmlInitFails \/ MonitorNew \/ ProbeEvents \/ ServerNew
  BY <1>1 DEF NvmlInit, NvmlInitFails, MonitorNew, ProbeEvents, ServerNew
<1>2. CASE Publish \/ ThreadsStart \/ MgStartReturns \/ MgStartFails
  BY <1>2 DEF Publish, ThreadsStart, MgStartReturns, MgStartFails
<1>3. CASE Loop \/ UpdateDevice \/ EndPass \/ LeaveLoop
  BY <1>3 DEF Loop, UpdateDevice, EndPass, LeaveLoop
<1>4. CASE FreeEventSet \/ FreeMonitor
  BY <1>4 DEF FreeEventSet, FreeMonitor
<1>5. CASE ServerDestroy
  <2>1. ctx = "null"
    BY <1>5 DEF ServerDestroy
  <2> QED BY <1>5, <2>1 DEF ServerDestroy
<1>6. CASE Exit
  BY <1>6 DEF Exit
<1>7. ASSUME NEW w \in Worker, BeginRequest(w) \/ EndRequest(w)
      PROVE  IInv'
  BY <1>7 DEF BeginRequest, EndRequest
<1>8. CASE Kill \/ Ended \/ UNCHANGED vars
  BY <1>8 DEF Kill, Ended, vars
<1> QED BY <1>1, <1>2, <1>3, <1>4, <1>5, <1>6, <1>7, <1>8 DEF Next, Main

LEMMA Invariance == Spec => []IInv
<1>1. Init => IInv
  BY InitInv
<1>2. IInv /\ [Next]_vars => IInv'
  BY NextInv
<1> QED BY <1>1, <1>2, PTL DEF Spec

\* No request handler ever touches the monitor before it is published or after
\* it is freed, although main frees it before it stops the server.
THEOREM NoUseAfterFree == Spec => []HandlersSeeMonitor
<1>1. IInv => HandlersSeeMonitor
  BY DEF IInv, ContextInv, HeapInv, BusyInv, HandlersSeeMonitor
<1> QED BY <1>1, Invariance, PTL

\* Main calls NVML only while the session is open.
THEOREM NvmlInsideSession == Spec => []NvmlBracketed
<1>1. IInv => NvmlBracketed
  BY DEF IInv, SessionInv, NvmlBracketed, At
<1> QED BY <1>1, Invariance, PTL

\* After a failed server_start no pass is made.
THEOREM UnservedNeverMonitors == Spec => []NoPassUnserved
<1>1. IInv => NoPassUnserved
  BY DEF IInv, ContextInv, NoPassUnserved, At
<1> QED BY <1>1, Invariance, PTL

\* Nothing but a signal ends a process that serves.
THEOREM OnlySignalsEndIt == Spec => ServesUntilKilled
<1>1. IInv /\ [Next]_vars =>
        [ctx = "live" /\ proc = "running" => proc' \in {"running", "killed"}]_vars
  <2> SUFFICES ASSUME IInv, Next, ctx = "live", proc = "running"
               PROVE  proc' \in {"running", "killed"}
    OBVIOUS
  <2> USE DEF mainVars
  <2>1. pc \in {"loop", "pass"}
    BY DEF IInv, ContextInv
  <2>2. CASE Main
    BY <2>1, <2>2 DEF Main, At, NvmlInit, NvmlInitFails, MonitorNew, ProbeEvents,
       ServerNew, Publish, ThreadsStart, MgStartReturns, MgStartFails, Loop,
       UpdateDevice, EndPass, LeaveLoop, FreeEventSet, FreeMonitor, ServerDestroy, Exit
  <2>3. ASSUME NEW w \in Worker, BeginRequest(w) \/ EndRequest(w)
        PROVE  proc' \in {"running", "killed"}
    BY <2>3 DEF BeginRequest, EndRequest
  <2>4. CASE Kill \/ Ended
    BY <2>4 DEF Kill, Ended
  <2> QED BY <2>2, <2>3, <2>4 DEF Next
<1> QED BY <1>1, Invariance, PTL DEF Spec, ServesUntilKilled
-----------------------------------------------------------------------------
(***************************************************************************)
(* The event sets.  Until monitor_destroy whatever a device points to is   *)
(* open; in monitor_destroy the sets of the devices behind the loop index  *)
(* are not, and nothing opens a set after the probe.                       *)
(***************************************************************************)
EventInv ==
  /\ pc \in {"probe", "publish", "mgStart", "mgStarted", "loop", "pass"}
       => eventSet \subseteq open
  /\ pc \in {"nvmlInit", "monitorNew"} => eventSet = {}
  /\ pc = "monitorDestroy" =>
       \A d \in Device : d < i => d \notin open \cap eventSet
  /\ heap = "freed" => open \cap eventSet = {}

LEMMA EventNext ==
  ASSUME TypeOK, EventInv, HeapInv, [Next]_vars
  PROVE  TypeOK' /\ EventInv'
<1> USE DevCountAssumption
<1>0. 0 \in 0 .. DevCount
  OBVIOUS
<1>1. CASE NvmlInit \/ NvmlInitFails \/ MonitorNew \/ ServerNew
  <2> USE DEF mainVars, sessionVars, eventVars, monitorVars, serverVars, At
  <2>1. /\ UNCHANGED <<open, eventSet, proc, published, threads, ctx, busy>>
        /\ nvml' \in {nvml, TRUE} /\ atexit' \in {atexit, TRUE}
        /\ heap' \in {heap, "live"} /\ active' \in {active, TRUE}
        /\ i' \in {i, 0}
    BY <1>1 DEF NvmlInit, NvmlInitFails, MonitorNew, ServerNew
  <2>2. \/ pc = "nvmlInit" /\ pc' \in {"exit", "monitorNew"}
        \/ pc = "monitorNew" /\ pc' = "probe"
        \/ pc = "probe" /\ pc' = "publish"
    BY <1>1 DEF NvmlInit, NvmlInitFails, MonitorNew, ServerNew
  <2>3. TypeOK'
    <3>1. /\ nvml' \in BOOLEAN /\ atexit' \in BOOLEAN /\ active' \in BOOLEAN
          /\ published' \in BOOLEAN /\ threads' \in BOOLEAN
      BY <2>1 DEF TypeOK
    <3>2. i' \in 0 .. DevCount
      BY <1>0, <2>1 DEF TypeOK
    <3>3. heap' \in {"none", "live", "freed"} /\ ctx' \in {"unset", "null", "live"}
      BY <2>1 DEF TypeOK
    <3>4. /\ UNCHANGED <<open, eventSet, proc, busy>>
          /\ pc' \in {"exit", "monitorNew", "probe", "publish", "mgStart",
                       "mgStarted", "loop"}
      BY <2>1, <2>2
    <3> QED BY <3>1, <3>2, <3>3, <3>4 DEF TypeOK
  <2>4. EventInv'
    BY <2>1, <2>2 DEF TypeOK, EventInv, HeapInv
  <2> QED BY <2>3, <2>4
<1>2. CASE ProbeEvents
  BY <1>2 DEF ProbeEvents, TypeOK, EventInv, HeapInv, At, Device,
     mainVars, sessionVars, eventVars, monitorVars, serverVars
<1>3. CASE Publish \/ ThreadsStart \/ MgStartReturns \/ MgStartFails
  <2> USE DEF mainVars, sessionVars, eventVars, monitorVars, serverVars, At
  <2>1. /\ UNCHANGED <<open, eventSet, heap, proc, nvml, atexit, busy>>
        /\ i' \in {i, 0} /\ active' \in {active, FALSE}
        /\ published' \in {published, TRUE} /\ threads' \in {threads, TRUE}
        /\ ctx' \in {ctx, "null", "live"}
    BY <1>3 DEF Publish, ThreadsStart, MgStartReturns, MgStartFails
  <2>2. /\ pc \in {"publish", "mgStart", "mgStarted"}
        /\ pc' \in {"mgStart", "mgStarted", "loop"}
    BY <1>3 DEF Publish, ThreadsStart, MgStartReturns, MgStartFails
  <2>3. TypeOK'
    <3>1. /\ nvml' \in BOOLEAN /\ atexit' \in BOOLEAN /\ active' \in BOOLEAN
          /\ published' \in BOOLEAN /\ threads' \in BOOLEAN
      BY <2>1 DEF TypeOK
    <3>2. i' \in 0 .. DevCount
      BY <1>0, <2>1 DEF TypeOK
    <3>3. heap' \in {"none", "live", "freed"} /\ ctx' \in {"unset", "null", "live"}
      BY <2>1 DEF TypeOK
    <3>4. /\ UNCHANGED <<open, eventSet, proc, busy>>
          /\ pc' \in {"exit", "monitorNew", "probe", "publish", "mgStart",
                       "mgStarted", "loop"}
      BY <2>1, <2>2
    <3> QED BY <3>1, <3>2, <3>3, <3>4 DEF TypeOK
  <2>4. EventInv'
    BY <2>1, <2>2 DEF EventInv, HeapInv
  <2> QED BY <2>3, <2>4
<1>4. CASE Loop \/ UpdateDevice \/ EndPass \/ LeaveLoop
  <2> USE DEF mainVars, sessionVars, eventVars, monitorVars, serverVars, At
  <2>1. /\ UNCHANGED <<open, eventSet, heap, active, proc, nvml, atexit>>
        /\ UNCHANGED <<published, threads, ctx, busy>>
    BY <1>4 DEF Loop, UpdateDevice, EndPass, LeaveLoop
  <2>2. /\ pc \in {"loop", "pass"}
        /\ \/ pc' \in {"loop", "pass"}
           \/ pc' = "monitorDestroy" /\ i' = 0
    BY <1>4 DEF Loop, UpdateDevice, EndPass, LeaveLoop
  <2>3. i' \in 0 .. DevCount
    BY <1>0, <1>4 DEF Loop, UpdateDevice, EndPass, LeaveLoop, TypeOK
  <2>4. TypeOK'
    BY <2>1, <2>2, <2>3 DEF TypeOK
  <2>5. EventInv'
    <3>1. eventSet \subseteq open
      BY <2>2 DEF EventInv
    <3>2. \A d \in Device : ~ (d < 0)
      BY DEF Device
    <3> QED BY <2>1, <2>2, <3>1, <3>2 DEF EventInv, HeapInv
  <2> QED BY <2>4, <2>5
<1>5. CASE FreeEventSet
  BY <1>5 DEF FreeEventSet, TypeOK, EventInv, HeapInv, At, Device,
     mainVars, sessionVars, eventVars, monitorVars, serverVars
<1>6. CASE FreeMonitor
  BY <1>6 DEF FreeMonitor, TypeOK, EventInv, HeapInv, At, Device,
     mainVars, sessionVars, eventVars, monitorVars, serverVars
<1>7. CASE ServerDestroy
  <2> USE DEF ServerDestroy, TypeOK, EventInv, HeapInv, At, mainVars,
          sessionVars, eventVars, monitorVars, serverVars
  <2>1. CASE ctx = "null"
    BY <1>7, <2>1
  <2>2. CASE ctx # "null"
    BY <1>7, <2>2
  <2> QED BY <2>1, <2>2
<1>8. CASE Exit
  BY <1>8 DEF Exit, TypeOK, EventInv, HeapInv, At, mainVars, sessionVars,
     eventVars, monitorVars, serverVars
<1>9. ASSUME NEW w \in Worker, BeginRequest(w) \/ EndRequest(w)
      PROVE  TypeOK' /\ EventInv'
  <2> USE DEF mainVars, sessionVars, eventVars, monitorVars, serverVars
  <2>1. /\ UNCHANGED <<pc, i, proc, nvml, atexit, open, eventSet, heap, active>>
        /\ UNCHANGED <<published, threads, ctx>>
        /\ busy' \in {busy \cup {w}, busy \ {w}}
    BY <1>9 DEF BeginRequest, EndRequest
  <2>2. TypeOK'
    BY <2>1 DEF TypeOK
  <2>3. EventInv'
    BY <2>1 DEF EventInv
  <2> QED BY <2>2, <2>3
<1>10. CASE Kill \/ Ended \/ UNCHANGED vars
  <2> USE DEF mainVars, sessionVars, eventVars, monitorVars, serverVars
  <2>1. /\ UNCHANGED <<pc, i, nvml, atexit, open, eventSet, heap, active>>
        /\ UNCHANGED <<published, threads, ctx, busy>>
        /\ proc' \in {proc, "killed"}
    BY <1>10 DEF Kill, Ended, vars
  <2>2. TypeOK'
    BY <2>1 DEF TypeOK
  <2>3. EventInv'
    BY <2>1 DEF EventInv
  <2> QED BY <2>2, <2>3
<1> QED
  BY <1>1, <1>2, <1>3, <1>4, <1>5, <1>6, <1>7, <1>8, <1>9, <1>10 DEF Next, Main

LEMMA EventInvariance == Spec => [](TypeOK /\ EventInv)
<1>1. Init => TypeOK /\ EventInv
  <2>1. Init => 0 \in 0 .. DevCount
    BY DevCountAssumption
  <2>2. Init => TypeOK
    BY <2>1 DEF Init, TypeOK
  <2>3. Init => EventInv
    BY DEF Init, EventInv
  <2> QED BY <2>2, <2>3
<1>2. TypeOK /\ EventInv /\ IInv /\ [Next]_vars => (TypeOK /\ EventInv)'
  BY EventNext DEF IInv
<1> QED BY <1>1, <1>2, Invariance, PTL DEF Spec

\* Every variable of the process keeps its type, the loop index its bounds.
THEOREM TypeCorrect == Spec => []TypeOK
<1> QED BY EventInvariance, PTL

\* update_device_info never waits on an event set that NVML does not hold, and
\* when monitor_destroy has freed the monitor, NVML holds no set that a device
\* pointed to.
THEOREM EventSetsAreKept == Spec => []EventSetsKept
<1>1. EventInv => WaitsOnOpenSets
  BY DEF EventInv, WaitsOnOpenSets, At
<1>2. EventInv => KnownSetsReleased
  BY DEF EventInv, KnownSetsReleased
<1>3. EventInv => EventSetsKept
  BY <1>1, <1>2 DEF EventSetsKept
<1> QED BY <1>3, EventInvariance, PTL
=============================================================================
