----------------------------- MODULE Telemetry -----------------------------
(***************************************************************************)
(* The data path of cudamond: the monitor thread refreshes `struct device` *)
(* in place while mongoose worker threads run begin_request_handler and    *)
(* copy the same structures into JSON replies.  No lock is taken anywhere: *)
(* the only ordering is the program order of each thread.                  *)
(*                                                                         *)
(* Data abstraction.  A measured value is abstracted to the number of the  *)
(* pass that read it from NVML: pass 1 is init_device_info, pass k > 1 is  *)
(* the (k-1)-st update_device_info, and 0 is the memset of the structure.  *)
(* monitor->last_update is the number of the pass that ended when it was   *)
(* stored, so it stands for a clock that never steps back.                 *)
(*                                                                         *)
(* Data race.  `struct device dev = monitor->devices[i]` races with the    *)
(* stores NVML makes through its out-parameters.  The copy is modelled one *)
(* word at a time, in any order, each word getting the value it holds at   *)
(* that moment.  Aligned words do not tear on the targets the driver       *)
(* supports; a structure of several words (nvmlMemory_t) does, and does so *)
(* here.                                                                   *)
(***************************************************************************)
EXTENDS Naturals, Sequences

CONSTANTS
  DevCount,            \* mon->dev_count
  Capable,             \* Capable[d]: the NVML queries device d can answer
  Flaky,               \* the queries that may fail although d can answer them
  CountClockAccepted,  \* does NVML accept NVML_CLOCK_COUNT as a clock domain?
  Client,              \* clients, each with at most one request in progress
  MaxPass              \* bound: passes the monitor makes in a checked behaviour

Device == 0 .. DevCount - 1

(***************************************************************************)
(* The NVML queries, the struct members each of them fills, and the        *)
(* features of `enum feature`.                                             *)
(***************************************************************************)
Fills ==
  [ temperature |-> {"temperature"},
    memory      |-> {"total", "free", "used"},
    power       |-> {"power_usage"},
    graphics    |-> {"clock_graphics"},
    sm          |-> {"clock_sm"},
    mem         |-> {"clock_mem"},
    count       |-> {},                  \* lands past the end of dev->clock
    fan         |-> {"fan"},
    util        |-> {"util_gpu", "util_memory"} ]

Query == DOMAIN Fills

Word == UNION {Fills[q] : q \in Query}

\* The queries whose success sets the feature's bit, in get_device_features.
\* COMPUTE_MODE has no entry: no code ever sets that bit.
Evidence ==
  [ TEMPERATURE      |-> {"temperature"},
    MEMORY_INFO      |-> {"memory"},
    POWER_USAGE      |-> {"power"},
    CLOCK_INFO       |-> {"graphics", "sm", "count"},
    FAN_INFO         |-> {"fan"},
    UTILIZATION_INFO |-> {"util"} ]

Feature == {"TEMPERATURE", "COMPUTE_MODE", "POWER_USAGE", "MEMORY_INFO",
            "CLOCK_INFO", "FAN_INFO", "UTILIZATION_INFO"}

\* Mutant: the result of the query is not tested.
DetectedUntested(answered) == DOMAIN Evidence

Detected(answered) == {f \in DOMAIN Evidence : Evidence[f] \subseteq answered}

\* Mutant: the clock loop stops one domain short.
UpdateOrderShort ==
  <<"memory", "temperature", "power", "graphics", "sm", "fan">>

\* The queries update_device_info makes for one device, in its order, and the
\* bit that guards each of them.  Utilization is not among them.
UpdateOrder ==
  <<"memory", "temperature", "power", "graphics", "sm", "mem", "fan">>

Guard ==
  [ memory |-> "MEMORY_INFO",  temperature |-> "TEMPERATURE",
    power  |-> "POWER_USAGE",  graphics    |-> "CLOCK_INFO",
    sm     |-> "CLOCK_INFO",   mem         |-> "CLOCK_INFO",
    fan    |-> "FAN_INFO" ]

\* The members ajax_send_update prints for a device with features s.
Printed ==
  [ TEMPERATURE      |-> {"temperature"},
    COMPUTE_MODE     |-> {},
    POWER_USAGE      |-> {"power_usage"},
    MEMORY_INFO      |-> {"total", "free", "used"},
    CLOCK_INFO       |-> {"clock_graphics", "clock_sm", "clock_mem"},
    FAN_INFO         |-> {"fan"},
    UTILIZATION_INFO |-> {"util_gpu", "util_memory"} ]

PrintedWords(s) == UNION {Printed[f] : f \in s}

ASSUME ConstantsAssumption ==
  /\ DevCount \in Nat
  /\ Capable \in [Device -> SUBSET Query]
  /\ Flaky \subseteq Query
  /\ CountClockAccepted \in BOOLEAN
  /\ MaxPass \in Nat \ {0}

CanAnswer(d, q) ==
  /\ q \in Capable[d]
  /\ q = "count" => CountClockAccepted

MayFail(d, q) == q \in Flaky \/ ~CanAnswer(d, q)

-----------------------------------------------------------------------------
VARIABLES
  support,     \* dev->feature_support, per device
  reading,     \* reading[d][w]: the pass that last filled word w of device d
  lastUpdate,  \* mon->last_update
  pass,        \* the pass under way, or the last one made
  mpc,         \* where the main thread is
  mi,          \* index of the device the main thread works on
  mq,          \* position in UpdateOrder
  cpc,         \* what the handler serving the client is doing
  ci,          \* index of the device that handler works on
  copied,      \* copied[c][d]: the words of d it has copied so far
  got,         \* got[c][d][w]: the values it copied
  floor,       \* history: the readings when the request arrived
  known,       \* known[c][d]: the features init told the client, per device
  seen         \* the last complete update reply the client received

monitorVars == <<support, reading, lastUpdate, pass, mpc, mi, mq>>
clientVars  == <<cpc, ci, copied, got, floor, known, seen>>
vars == <<support, reading, lastUpdate, pass, mpc, mi, mq,
          cpc, ci, copied, got, floor, known, seen>>

Zeroed   == [d \in Device |-> [w \in Word |-> 0]]
NoWords  == [d \in Device |-> {}]
NoReply  == [time |-> 0, words |-> NoWords, value |-> Zeroed]

Init ==
  /\ support = NoWords
  /\ reading = Zeroed
  /\ lastUpdate = 0
  /\ pass = 1
  /\ mpc = "probe"
  /\ mi = 0
  /\ mq = 1
  /\ cpc = [c \in Client |-> "idle"]
  /\ ci = [c \in Client |-> 0]
  /\ copied = [c \in Client |-> NoWords]
  /\ got = [c \in Client |-> Zeroed]
  /\ floor = [c \in Client |-> Zeroed]
  /\ known = [c \in Client |-> NoWords]
  /\ seen = [c \in Client |-> NoReply]

(***************************************************************************)
(* init_device_info: one iteration of its loop, get_device_features        *)
(* included.  No other thread exists yet, so the iteration is one step.    *)
(* Memory is queried twice, and only the second answer sets a bit.         *)
(* `answered` holds the queries made that succeeded: the three clock       *)
(* queries are joined by &&, so one is made only if those before it        *)
(* succeeded.                                                              *)
(***************************************************************************)
ClockChain == <<"graphics", "sm", "count">>

Made(q, answered) ==
  /\ q # "mem"
  /\ \A i, j \in 1 .. 3 :
       i < j /\ ClockChain[j] = q => ClockChain[i] \in answered

ProbeOutcome(d) ==
  {answered \in SUBSET Query :
     \A q \in Query :
       /\ q \in answered => Made(q, answered) /\ CanAnswer(d, q)
       /\ Made(q, answered) /\ q \notin answered => MayFail(d, q)}

Fill(old, answered, k) ==
  [w \in Word |-> IF \E q \in answered : w \in Fills[q] THEN k ELSE old[w]]

ProbeDevice ==
  /\ mpc = "probe"
  /\ mi < DevCount
  /\ \E early, answered \in ProbeOutcome(mi) :
       /\ support' = [support EXCEPT ![mi] = Detected(answered)]
       /\ reading' = [reading EXCEPT ![mi] =
                        Fill(@, answered \union (early \cap {"memory"}), pass)]
  /\ mi' = mi + 1
  /\ UNCHANGED <<lastUpdate, pass, mpc, mq>>
  /\ UNCHANGED clientVars

\* The loop is over: stamp the data and, back in main, start the server.
StartServer ==
  /\ mpc = "probe"
  /\ mi = DevCount
  /\ lastUpdate' = pass
  /\ mpc' = "between"
  /\ UNCHANGED <<support, reading, pass, mi, mq>>
  /\ UNCHANGED clientVars

-----------------------------------------------------------------------------
(***************************************************************************)
(* monitor_start and update_device_info.                                   *)
(***************************************************************************)
BeginPass ==
  /\ mpc = "between"
  /\ pass < MaxPass
  /\ pass' = pass + 1
  /\ mpc' = "update"
  /\ mi' = 0
  /\ mq' = 1
  /\ UNCHANGED <<support, reading, lastUpdate>>
  /\ UNCHANGED clientVars

AtQuery ==
  /\ mpc = "update"
  /\ mi < DevCount
  /\ mq <= Len(UpdateOrder)

NextQuery ==
  /\ mq' = mq + 1
  /\ UNCHANGED <<support, lastUpdate, pass, mpc, mi>>
  /\ UNCHANGED clientVars

\* The query succeeds and NVML stores the new values.
Refresh ==
  /\ AtQuery
  /\ LET q == UpdateOrder[mq] IN
       /\ Guard[q] \in support[mi]
       /\ CanAnswer(mi, q)
       /\ reading' = [reading EXCEPT ![mi] = Fill(@, {q}, pass)]
  /\ NextQuery

\* Mutant: a failed query leaves zeros behind.
RefreshFailsZeroed ==
  /\ AtQuery
  /\ LET q == UpdateOrder[mq] IN
       /\ Guard[q] \in support[mi]
       /\ MayFail(mi, q)
       /\ reading' = [reading EXCEPT ![mi] = Fill(@, {q}, 0)]
  /\ NextQuery

\* Mutant: a failed query clears the feature's bit.
RefreshFailsClears ==
  /\ AtQuery
  /\ LET q == UpdateOrder[mq] IN
       /\ Guard[q] \in support[mi]
       /\ MayFail(mi, q)
       /\ support' = [support EXCEPT ![mi] = @ \ {Guard[q]}]
  /\ mq' = mq + 1
  /\ UNCHANGED <<reading, lastUpdate, pass, mpc, mi>>
  /\ UNCHANGED clientVars

\* NVML_TRY prints the error and goes on: the words keep their old values.
RefreshFails ==
  /\ AtQuery
  /\ LET q == UpdateOrder[mq] IN
       /\ Guard[q] \in support[mi]
       /\ MayFail(mi, q)
  /\ UNCHANGED reading
  /\ NextQuery

SkipQuery ==
  /\ AtQuery
  /\ Guard[UpdateOrder[mq]] \notin support[mi]
  /\ UNCHANGED reading
  /\ NextQuery

\* Mutant: the loop over the devices ends after the first one.
NextDeviceBreaks ==
  /\ mpc = "update"
  /\ mi < DevCount
  /\ mq > Len(UpdateOrder)
  /\ mi' = DevCount
  /\ mq' = 1
  /\ UNCHANGED <<support, reading, lastUpdate, pass, mpc>>
  /\ UNCHANGED clientVars

\* The wait for events, at most 1 ms and its result dropped, then ++i.
NextDevice ==
  /\ mpc = "update"
  /\ mi < DevCount
  /\ mq > Len(UpdateOrder)
  /\ mi' = mi + 1
  /\ mq' = 1
  /\ UNCHANGED <<support, reading, lastUpdate, pass, mpc>>
  /\ UNCHANGED clientVars

\* Mutant: only init_device_info stamps the data.
EndPassUnstamped ==
  /\ mpc = "update"
  /\ mi = DevCount
  /\ mpc' = "between"
  /\ UNCHANGED <<support, reading, lastUpdate, pass, mi, mq>>
  /\ UNCHANGED clientVars

EndPass ==
  /\ mpc = "update"
  /\ mi = DevCount
  /\ lastUpdate' = pass
  /\ mpc' = "between"
  /\ UNCHANGED <<support, reading, pass, mi, mq>>
  /\ UNCHANGED clientVars

Monitor ==
  \/ ProbeDevice \/ StartServer \/ BeginPass \/ Refresh \/ RefreshFails
  \/ SkipQuery \/ NextDevice \/ EndPass

-----------------------------------------------------------------------------
(***************************************************************************)
(* begin_request_handler, run by the mongoose worker that serves client c. *)
(* Requests exist only once the server listens.  The worker keeps nothing  *)
(* from one request to the next, so its state is the client's.             *)
(***************************************************************************)
BeginRequest(c, uri) ==
  /\ mpc \in {"between", "update"}
  /\ cpc[c] = "idle"
  /\ cpc' = [cpc EXCEPT ![c] = uri]
  /\ ci' = [ci EXCEPT ![c] = 0]
  /\ floor' = [floor EXCEPT ![c] = reading]
  /\ UNCHANGED <<copied, got, known, seen>>
  /\ UNCHANGED monitorVars

\* ajax_send_init: the features of the next device.
SendFeatures(c) ==
  /\ cpc[c] = "init"
  /\ ci[c] < DevCount
  /\ known' = [known EXCEPT ![c][ci[c]] = support[ci[c]]]
  /\ ci' = [ci EXCEPT ![c] = @ + 1]
  /\ UNCHANGED <<cpc, copied, got, floor, seen>>
  /\ UNCHANGED monitorVars

EndInit(c) ==
  /\ cpc[c] = "init"
  /\ ci[c] = DevCount
  /\ cpc' = [cpc EXCEPT ![c] = "idle"]
  /\ floor' = [floor EXCEPT ![c] = Zeroed]
  /\ UNCHANGED <<ci, copied, got, known, seen>>
  /\ UNCHANGED monitorVars

\* ajax_send_update: one word of the structure copy.
CopyWord(c, w) ==
  /\ cpc[c] = "update"
  /\ ci[c] < DevCount
  /\ LET d == ci[c] IN
       /\ w \in PrintedWords(support[d]) \ copied[c][d]
       /\ copied' = [copied EXCEPT ![c][d] = @ \union {w}]
       /\ got' = [got EXCEPT ![c][d][w] = reading[d][w]]
  /\ UNCHANGED <<cpc, ci, floor, known, seen>>
  /\ UNCHANGED monitorVars

\* Mutant: a device is left before all that its features announce is copied.
NextCopyEarly(c) ==
  /\ cpc[c] = "update"
  /\ ci[c] < DevCount
  /\ ci' = [ci EXCEPT ![c] = @ + 1]
  /\ UNCHANGED <<cpc, copied, got, floor, known, seen>>
  /\ UNCHANGED monitorVars

NextCopy(c) ==
  /\ cpc[c] = "update"
  /\ ci[c] < DevCount
  /\ PrintedWords(support[ci[c]]) \subseteq copied[c][ci[c]]
  /\ ci' = [ci EXCEPT ![c] = @ + 1]
  /\ UNCHANGED <<cpc, copied, got, floor, known, seen>>
  /\ UNCHANGED monitorVars

\* Mutant: the copies are kept for the next request.
EndUpdateCached(c) ==
  /\ cpc[c] = "update"
  /\ ci[c] = DevCount
  /\ seen' = [seen EXCEPT ![c] = [time  |-> lastUpdate,
                                  words |-> copied[c],
                                  value |-> got[c]]]
  /\ cpc' = [cpc EXCEPT ![c] = "idle"]
  /\ UNCHANGED <<ci, copied, got, floor, known>>
  /\ UNCHANGED monitorVars

\* last_update is read after all devices; then the reply is complete.
EndUpdate(c) ==
  /\ cpc[c] = "update"
  /\ ci[c] = DevCount
  /\ seen' = [seen EXCEPT ![c] = [time  |-> lastUpdate,
                                  words |-> copied[c],
                                  value |-> got[c]]]
  /\ cpc' = [cpc EXCEPT ![c] = "idle"]
  /\ copied' = [copied EXCEPT ![c] = NoWords]
  /\ got' = [got EXCEPT ![c] = Zeroed]
  /\ floor' = [floor EXCEPT ![c] = Zeroed]
  /\ UNCHANGED <<ci, known>>
  /\ UNCHANGED monitorVars

Handler(c) ==
  \/ SendFeatures(c)
  \/ EndInit(c)
  \/ \E w \in Word : CopyWord(c, w)
  \/ NextCopy(c)
  \/ EndUpdate(c)

Next ==
  \/ Monitor
  \/ \E c \in Client : \/ \E uri \in {"init", "update"} : BeginRequest(c, uri)
                       \/ Handler(c)

Spec == Init /\ [][Next]_vars

(***************************************************************************)
(* Fairness.  Threads are scheduled, NVML calls return (the event wait is  *)
(* bounded by 1 ms) and usleep ends; a handler blocked on a slow client is *)
(* released by the 30 s socket timeout mongoose sets.  A page asks for     *)
(* init once per load and then polls with setInterval: however often it is *)
(* reloaded, it asks for updates again and again (strong fairness).        *)
(***************************************************************************)
Fairness ==
  /\ WF_vars(Monitor)
  /\ \A c \in Client : /\ WF_vars(Handler(c))
                       /\ SF_vars(BeginRequest(c, "update"))

FairSpec == Spec /\ Fairness

-----------------------------------------------------------------------------
TypeOK ==
  /\ support \in [Device -> SUBSET Feature]
  /\ reading \in [Device -> [Word -> Nat]]
  /\ lastUpdate \in Nat
  /\ pass \in Nat \ {0}
  /\ mpc \in {"probe", "between", "update"}
  /\ mi \in 0 .. DevCount
  /\ mq \in 1 .. Len(UpdateOrder) + 1
  /\ cpc \in [Client -> {"idle", "init", "update"}]
  /\ ci \in [Client -> 0 .. DevCount]
  /\ copied \in [Client -> [Device -> SUBSET Word]]
  /\ got \in [Client -> [Device -> [Word -> Nat]]]
  /\ floor \in [Client -> [Device -> [Word -> Nat]]]
  /\ known \in [Client -> [Device -> SUBSET Feature]]
  /\ seen \in [Client -> [time  : Nat,
                         words : [Device -> SUBSET Word],
                         value : [Device -> [Word -> Nat]]]]

\* No reply carries a word that still holds the memset's zero: a feature bit is
\* set only after NVML filled every word the handler prints for it
\* (get_device_features against ajax_send_update).
PrintsOnlyRead ==
  \A c \in Client, d \in Device :
    \A w \in copied[c][d] : got[c][d][w] > 0

\* Every word of a reply under construction is a value the device had between
\* the arrival of the request and now, though the copy is not atomic: it is
\* never older than the request and never ahead of the live structure.
WithinRequest ==
  \A c \in Client, d \in Device :
    \A w \in copied[c][d] :
      floor[c][d][w] <= got[c][d][w] /\ got[c][d][w] <= reading[d][w]

\* The "time" of a reply is at most one pass behind any value it carries: the
\* handler reads last_update after the devices, and update_device_info stores
\* it at the end of every pass, failed queries or not.
TimeCoversReply ==
  \A c \in Client, d \in Device :
    \A w \in seen[c].words[d] : seen[c].value[d][w] <= seen[c].time + 1

\* The words of every feature but UTILIZATION_INFO, which update_device_info
\* never refreshes (see UtilizationIsCurrent).
LiveWord == Word \ Printed["UTILIZATION_INFO"]

\* The pass that last dealt with a word of value x.  get_device_features asks for
\* NVML_CLOCK_COUNT where update_device_info asks for the memory clock: pass 1
\* deals with a device's clock_mem without reading it, so until pass 2 the
\* memset's zero stands there.
DealtWith(w, x) == IF w = "clock_mem" /\ x = 0 THEN 1 ELSE x

\* While no query fails, a device printed later in a reply is at most one pass
\* behind a device printed earlier: both threads walk the array upwards.  A
\* memory clock no pass has read yet counts as left by pass 1, its zero may stand
\* beside values of pass 2 but of none later.
SkewBound ==
  \A c \in Client, d, e \in Device :
    d < e => \A v \in seen[c].words[d] \cap LiveWord,
                w \in seen[c].words[e] \cap LiveWord :
               seen[c].value[d][v] <= DealtWith(w, seen[c].value[e][w]) + 1

\* monitor.h says of last_update "When we last updated this data".  While no
\* query fails that is what it is: after a pass of update_device_info every
\* reading but the utilization dates from it.  A failed query leaves an older
\* value behind, and init_device_info does not read the memory clock.
LastUpdateDatesReadings ==
  mpc = "between" /\ lastUpdate > 1 =>
    \A d \in Device : \A w \in PrintedWords(support[d]) \cap LiveWord :
      reading[d][w] = lastUpdate

\* The keys of an update reply are those the features of the init reply
\* announce: cudamon.js decides what to draw from either, in any order.
KeysMatchInit ==
  \A c \in Client, d \in Device :
    known[c][d] # {} /\ seen[c].time > 0 =>
      seen[c].words[d] = PrintedWords(known[c][d])

\* A client that sends one request after the other (the page's requests are
\* synchronous) never sees a value or a timestamp go back.
NotBack(old, new) ==
  /\ new.time >= old.time
  /\ \A d \in Device : \A w \in old.words[d] :
       w \in new.words[d] /\ new.value[d][w] >= old.value[d][w]

MonotonicReplies == [][\A c \in Client : NotBack(seen[c], seen'[c])]_vars

\* While no query fails, what the last pass read reaches every client that
\* keeps polling, with its timestamp.
CatchesUp ==
  \A c \in Client :
    <>[](/\ seen[c].time = MaxPass
         /\ \A d \in Device : \A w \in seen[c].words[d] \cap LiveWord :
              seen[c].value[d][w] = MaxPass)

\* The monitor and the handlers implement Registers: however a pass and the
\* copies of the structures overlap, each reply could have been made in one step,
\* of values from between its request and that step.
Reg == INSTANCE Registers WITH
  open   <- mpc # "probe",
  shown  <- [d \in Device |-> PrintedWords(support[d])],
  value  <- reading,
  time   <- lastUpdate,
  asking <- {c \in Client : cpc[c] = "update"},
  floor  <- [c \in Client |-> IF cpc[c] = "update" THEN floor[c] ELSE Zeroed],
  told   <- [c \in Client |-> [d \in Device |-> PrintedWords(known[c][d])]],
  reply  <- seen

ImplementsRegisters == Reg!Spec

-----------------------------------------------------------------------------
(* What comments of the source say and the code does not do. *)

\* monitor.h calls dev->util the "Current device resource utilization rates":
\* between passes it should come from the last pass, as every other reading.
UtilizationIsCurrent ==
  mpc = "between" =>
    \A d \in Device : "UTILIZATION_INFO" \in support[d] =>
      reading[d]["util_gpu"] = lastUpdate
=============================================================================
