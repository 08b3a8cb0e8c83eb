----------------------------- MODULE Registers -----------------------------
(***************************************************************************)
(* What cudamond promises to the clients that poll it: each word of each   *)
(* device is a regular register.  A reply has every word that the features *)
(* announce, each with a value it had between the request and the reply,   *)
(* and the time of the last pass.  Neither the pass over the devices nor   *)
(* the copy of a structure appears here; Telemetry implements this.        *)
(***************************************************************************)
EXTENDS Naturals

CONSTANTS
  Device, Word,
  Client     \* each asks again only when it has the answer

VARIABLES
  open,      \* does the server listen?
  shown,     \* shown[d]: the words of device d that replies have
  value,     \* value[d][w]: the pass that last read word w of device d
  time,      \* the last pass that ended
  asking,    \* the clients that wait for an update
  floor,     \* the values when they asked
  told,      \* told[c][d]: the words that init announced for d
  reply      \* the last update of each client

settled      == <<open, shown>>
live         == <<value, time>>
polling      == <<asking, floor, told, reply>>
registerVars == <<open, shown, value, time, asking, floor, told, reply>>

Values   == [Device -> [Word -> Nat]]
Keys     == [Device -> SUBSET Word]
Zero     == [d \in Device |-> [w \in Word |-> 0]]
Nothing  == [d \in Device |-> {}]

Init ==
  /\ open = FALSE
  /\ shown = Nothing
  /\ value = Zero
  /\ time = 0
  /\ asking = {}
  /\ floor = [c \in Client |-> Zero]
  /\ told = [c \in Client |-> Nothing]
  /\ reply = [c \in Client |-> [time |-> 0, words |-> Nothing, value |-> Zero]]

\* Nothing goes back, and no value is more than a pass ahead of the time.
Grow ==
  /\ value' \in Values /\ time' \in Nat /\ time' >= time
  /\ \A d \in Device, w \in Word : value'[d][w] \in value[d][w] .. time' + 1

\* What replies have is settled before the server listens.
Prepare ==
  /\ ~open /\ Grow
  /\ shown' \in Keys /\ open' \in BOOLEAN
  /\ UNCHANGED polling

Measure == open /\ Grow /\ UNCHANGED settled /\ UNCHANGED polling

Tell(c, d) ==
  /\ open /\ c \notin asking
  /\ told' = [told EXCEPT ![c][d] = shown[d]]
  /\ UNCHANGED <<asking, floor, reply>> /\ UNCHANGED settled /\ UNCHANGED live

Ask(c) ==
  /\ open /\ c \notin asking
  /\ asking' = asking \union {c}
  /\ floor' = [floor EXCEPT ![c] = value]
  /\ UNCHANGED <<told, reply>> /\ UNCHANGED settled /\ UNCHANGED live

\* The replies that c may get: every word that is shown, with a value from
\* those it had since c asked.
Answers(c) ==
  [time : {time}, words : {shown},
   value : {v \in Values :
              \A d \in Device : \A w \in shown[d] : v[d][w] \in floor[c][d][w] .. value[d][w]}]

Reply(c) ==
  /\ c \in asking /\ asking' = asking \ {c}
  /\ reply'[c] \in Answers(c) /\ reply' = [reply EXCEPT ![c] = reply'[c]]
  /\ floor' = [floor EXCEPT ![c] = Zero]
  /\ UNCHANGED told /\ UNCHANGED settled /\ UNCHANGED live

Next ==
  \/ Prepare \/ Measure
  \/ \E c \in Client : Ask(c) \/ Reply(c) \/ (\E d \in Device : Tell(c, d))

Spec == Init /\ [][Next]_registerVars
=============================================================================
