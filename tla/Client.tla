------------------------------- MODULE Client -------------------------------
(***************************************************************************)
(* The page cudamon.js against a daemon that may be gone, die in the       *)
(* middle of a reply, or be restarted with other devices.                  *)
(*                                                                         *)
(* The requests are synchronous and a script is never interrupted, so one  *)
(* request with the function that handles its answer is one step.  There   *)
(* are three answers: a full reply; none (responseText is empty or         *)
(* undefined, and $.parseJSON returns null); or a reply cut short by the   *)
(* daemon's death, on which $.parseJSON throws.                            *)
(*                                                                         *)
(* Of a reply the model keeps which keys each device has.  data.time is    *)
(* the number of the reply: the replies of the daemon do not go back in    *)
(* time (MonotonicReplies of Telemetry).  Of a value it keeps whether it   *)
(* was measured or is the 0 drawn for want of getData.                     *)
(***************************************************************************)
EXTENDS Naturals, Sequences, FiniteSets

CONSTANTS
  Key,        \* the graphs' keys, all of them keys of a device's reply
  Fleets,     \* the fleets a daemon may report: the graph keys of each device
  Down,       \* no daemon
  SeriesMax,  \* SERIES_MAX
  MaxReply    \* bound: the replies of which the history `log` is kept

ASSUME ClientAssumption ==
  /\ \A f \in Fleets :
       /\ IsFiniteSet(DOMAIN f)
       /\ f \in [0 .. Cardinality(DOMAIN f) - 1 -> SUBSET Key]
  /\ Down \notin Fleets
  /\ SeriesMax \in Nat \ {0, 1}
  /\ MaxReply \in Nat

Index == UNION {DOMAIN f : f \in Fleets}

NoDevices == [d \in {} |-> {}]

VARIABLES
  daemon,   \* the devices the running daemon reports, or Down
  page,     \* what the script does next
  devices,  \* devices: the features init reported
  series,   \* graphs[key].series[i].data, <<>> where there is no series
  getData,  \* the keys whose graph has getData
  drawn,    \* the keys whose graph was drawn
  label,    \* the text of #connection
  redrawn,  \* did the last update reach the loop that redraws the graphs?
  log       \* history: the full replies update handled, up to MaxReply of them

pageVars == <<page, devices, series, getData, drawn, label, redrawn, log>>
vars == <<daemon, pageVars>>

Init ==
  /\ daemon \in Fleets \union {Down}
  /\ page = "init"
  /\ devices = NoDevices
  /\ series = [k \in Key |-> [d \in Index |-> <<>>]]
  /\ getData = {}
  /\ drawn = {}
  /\ label = ""
  /\ redrawn = FALSE
  /\ log = <<>>

-----------------------------------------------------------------------------
(* The three answers to a request. *)

Full == daemon # Down /\ UNCHANGED daemon

None ==
  \/ daemon = Down /\ UNCHANGED daemon
  \/ daemon # Down /\ daemon' = Down

Cut == daemon # Down /\ daemon' = Down

-----------------------------------------------------------------------------
(* ajaxInit: init(null) throws as $.parseJSON does, which ends the script. *)

AjaxInit ==
  /\ page = "init"
  /\ Full
  /\ devices' = daemon
  /\ page' = "first"
  /\ UNCHANGED <<series, getData, drawn, label, redrawn, log>>

AjaxInitFails ==
  /\ page = "init"
  /\ None \/ Cut
  /\ page' = "aborted"
  /\ UNCHANGED <<devices, series, getData, drawn, label, redrawn, log>>

-----------------------------------------------------------------------------
(* update *)

\* The loop that removes the oldest points of a series.
Trimmed(s) ==
  IF Len(s) >= SeriesMax THEN SubSeq(s, Len(s) - SeriesMax + 2, Len(s)) ELSE s

\* Mutant: the whole reply is checked before the first point is pushed.
ReachedAllOrNone(f) ==
  IF \A e \in DOMAIN f : f[e] # {} => e \in DOMAIN devices THEN DOMAIN f ELSE {}

\* The devices of the reply the loop gets through: devices[i].color throws at
\* the first one that has a graph but that init did not report.
Reached(f) ==
  {d \in DOMAIN f :
     \A e \in DOMAIN f : e <= d /\ f[e] # {} => e \in DOMAIN devices}

Point(k) == [x |-> Len(log) + 1, measured |-> k \in getData]

\* update(data), data not null.
Update(f) ==
  /\ label' = "OK"
  /\ series' = [k \in Key |-> [d \in Index |->
                  IF d \in Reached(f) /\ k \in f[d]
                    THEN Trimmed(Append(series[k][d], Point(k)))
                    ELSE series[k][d]]]
  /\ redrawn' = (Reached(f) = DOMAIN f)
  /\ log' = IF Len(log) < MaxReply THEN Append(log, f) ELSE log

\* update(null)
UpdateInterrupted ==
  /\ label' = "Interrupted"
  /\ UNCHANGED <<series, redrawn, log>>

-----------------------------------------------------------------------------
(* The first ajaxUpdate, before any graph exists.  What it throws ends the  *)
(* script.                                                                  *)

FirstUpdate ==
  /\ page = "first"
  /\ Full
  /\ Update(daemon)
  /\ page' = IF redrawn' THEN "draw" ELSE "aborted"
  /\ UNCHANGED <<devices, getData, drawn>>

FirstUpdateEmpty ==
  /\ page = "first"
  /\ None
  /\ UpdateInterrupted
  /\ page' = "draw"
  /\ UNCHANGED <<devices, getData, drawn>>

FirstUpdateCut ==
  /\ page = "first"
  /\ Cut
  /\ page' = "aborted"
  /\ UNCHANGED <<devices, series, getData, drawn, label, redrawn, log>>

\* Mutant: only the graphs that are given a getData get one.
AddGraphsNoDefault ==
  /\ page = "draw"
  /\ drawn' = {k \in Key : \E d \in Index : series[k][d] # <<>>}
  /\ getData' = {}
  /\ page' = "polling"
  /\ redrawn' = TRUE
  /\ UNCHANGED <<daemon, devices, series, label, log>>

\* The calls of addGraph, one for each key, and setInterval.  A graph without
\* any series is given up for good; the others are drawn with what they have.
AddGraphs ==
  /\ page = "draw"
  /\ drawn' = {k \in Key : \E d \in Index : series[k][d] # <<>>}
  /\ getData' = drawn'
  /\ page' = "polling"
  /\ redrawn' = TRUE
  /\ UNCHANGED <<daemon, devices, series, label, log>>

-----------------------------------------------------------------------------
(* ajaxUpdate every second: what it throws ends this call only. *)

Poll ==
  /\ page = "polling"
  /\ Full
  /\ Update(daemon)
  /\ UNCHANGED <<page, devices, getData, drawn>>

\* Mutant: the page stops polling after a request without an answer.
PollEmptyStops ==
  /\ page = "polling"
  /\ None
  /\ UpdateInterrupted
  /\ page' = "aborted"
  /\ UNCHANGED <<devices, getData, drawn>>

PollEmpty ==
  /\ page = "polling"
  /\ None
  /\ UpdateInterrupted
  /\ UNCHANGED <<page, devices, getData, drawn>>

PollCut ==
  /\ page = "polling"
  /\ Cut
  /\ UNCHANGED pageVars

-----------------------------------------------------------------------------
\* The daemon is started, perhaps on other devices, or ends.
DaemonStarts ==
  /\ daemon = Down
  /\ daemon' \in Fleets
  /\ UNCHANGED pageVars

DaemonEnds ==
  /\ daemon # Down
  /\ daemon' = Down
  /\ UNCHANGED pageVars

Script ==
  \/ AjaxInit \/ AjaxInitFails
  \/ FirstUpdate \/ FirstUpdateEmpty \/ FirstUpdateCut
  \/ AddGraphs
  \/ Poll \/ PollEmpty \/ PollCut

Next == Script \/ DaemonStarts \/ DaemonEnds

Spec == Init /\ [][Next]_vars

(***************************************************************************)
(* Fairness: the browser runs the script and its timer.  Nobody has to     *)
(* start a daemon.                                                         *)
(***************************************************************************)
FairSpec == Spec /\ WF_vars(Script)

-----------------------------------------------------------------------------
Points == [x : 1 .. MaxReply + 1, measured : BOOLEAN]

\* Among the types: a series never reaches SERIES_MAX points.
TypeOK ==
  /\ daemon \in Fleets \union {Down}
  /\ page \in {"init", "first", "draw", "polling", "aborted"}
  /\ devices \in Fleets \union {NoDevices}
  /\ \A k \in Key, d \in Index :
       series[k][d] \in Seq(Points) /\ Len(series[k][d]) < SeriesMax
  /\ getData \subseteq Key
  /\ drawn \subseteq Key
  /\ label \in {"", "OK", "Interrupted"}
  /\ redrawn \in BOOLEAN
  /\ log \in Seq(Fleets)

\* The replies that had key k for device d.
Replies(k, d) ==
  {n \in 1 .. Len(log) : d \in DOMAIN log[n] /\ k \in log[n][d]}

\* The series of a device that init reported is the window of its newest
\* points: every one of the last SERIES_MAX - 1 replies that had the key, in
\* order, whatever failed in between and though update throws on devices that
\* appeared since.
SeriesIsWindow ==
  Len(log) < MaxReply =>
    \A k \in Key, d \in DOMAIN devices :
      LET s == series[k][d]
          r == Replies(k, d)
      IN  /\ \A i, j \in 1 .. Len(s) : i < j => s[i].x < s[j].x
          /\ {s[i].x : i \in 1 .. Len(s)} =
               {n \in r : Cardinality({m \in r : m > n}) < SeriesMax - 1}

\* Of a graph that is on the page only the point of the first update may be a
\* 0 that nobody measured.
OnlyFirstUnmeasured ==
  \A k \in drawn, d \in DOMAIN devices :
    \A i \in 1 .. Len(series[k][d]) :
      series[k][d][i].measured \/ series[k][d][i].x = 1

\* The devices of daemon f that have a graph are devices the page knows.
Known(f) == \A d \in DOMAIN f : f[d] # {} => d \in DOMAIN devices

\* A page that was loaded gets over every failed request and restart: if in the
\* end the daemon stays up, with devices the page knows, the page says so, and
\* its graphs are redrawn.
Recovers ==
  <>(page = "polling") /\ <>[](daemon # Down /\ Known(daemon)) =>
    <>[](label = "OK" /\ redrawn)
=============================================================================
