-------------------------- MODULE TelemetryProofs --------------------------
(***************************************************************************)
(* Proofs about Telemetry for every number of devices, every capability,   *)
(* any set of failing queries, any set of clients and any number of        *)
(* passes.                                                                 *)
(***************************************************************************)
EXTENDS Telemetry, TLAPS

-----------------------------------------------------------------------------
(* Facts about the operators. *)

LEMMA WordFacts == Printed["UTILIZATION_INFO"] \subseteq Word
  BY DEF Printed, Word, Query, Fills

\* The features a probe can detect are features, and UpdateOrder has 7 queries.
LEMMA OperatorFacts ==
  /\ \A answered : Detected(answered) \in SUBSET Feature
  /\ Len(UpdateOrder) = 7
  /\ \A i \in 1 .. 7 : UpdateOrder[i] \in Query
  BY DEF Detected, Feature, Evidence, UpdateOrder, Query, Fills

\* What a feature prints are words of the structure.
LEMMA PrintedAreWords ==
  ASSUME NEW s \in SUBSET Feature
  PROVE  PrintedWords(s) \subseteq Word
<1>1. \A f \in Feature : Printed[f] \subseteq Word
  BY DEF Feature, Printed, Word, Query, Fills
<1> QED BY <1>1 DEF PrintedWords

\* Filling words with the current pass keeps the type, never lowers a reading
\* and never goes beyond the pass.
LEMMA FillFacts ==
  ASSUME NEW old \in [Word -> Nat], NEW k \in Nat, NEW answered,
         \A w \in Word : old[w] <= k
  PROVE  /\ Fill(old, answered, k) \in [Word -> Nat]
         /\ \A w \in Word : /\ old[w] <= Fill(old, answered, k)[w]
                            /\ Fill(old, answered, k)[w] <= k
  BY DEF Fill

-----------------------------------------------------------------------------
(* Type correctness. *)

LEMMA InitTypeOK == Init => TypeOK
<1> SUFFICES ASSUME Init PROVE TypeOK
  OBVIOUS
<1> USE ConstantsAssumption
<1>1. NoWords \in [Device -> SUBSET Feature] /\ NoWords \in [Device -> SUBSET Word]
  BY DEF NoWords
<1>2. Zeroed \in [Device -> [Word -> Nat]]
  BY DEF Zeroed
<1>3. NoReply \in [time  : Nat,
                   words : [Device -> SUBSET Word],
                   value : [Device -> [Word -> Nat]]]
  BY <1>1, <1>2 DEF NoReply
<1> QED BY <1>1, <1>2, <1>3, OperatorFacts DEF Init, TypeOK

LEMMA NextTypeOK == TypeOK /\ [Next]_vars => TypeOK'
<1> SUFFICES ASSUME TypeOK, [Next]_vars PROVE TypeOK'
  OBVIOUS
<1> USE ConstantsAssumption
<1>1. CASE UNCHANGED vars
  BY <1>1 DEF vars, TypeOK
<1>2. CASE ProbeDevice
  <2>1. mi \in Device /\ mi + 1 \in 0 .. DevCount
    BY <1>2 DEF ProbeDevice, TypeOK, Device
  <2> PICK answered, stored :
          /\ support' = [support EXCEPT ![mi] = Detected(answered)]
          /\ reading' = [reading EXCEPT ![mi] = Fill(@, stored, pass)]
    BY <1>2 DEF ProbeDevice
  <2>2. support' \in [Device -> SUBSET Feature]
    BY OperatorFacts DEF TypeOK
  <2>3. \A a : Fill(reading[mi], a, pass) \in [Word -> Nat]
    BY <2>1 DEF Fill, TypeOK
  <2>4. reading' \in [Device -> [Word -> Nat]]
    BY <2>3 DEF TypeOK
  <2> QED BY <1>2, <2>1, <2>2, <2>4 DEF ProbeDevice, clientVars, TypeOK
<1>3. CASE StartServer
  BY <1>3 DEF StartServer, clientVars, TypeOK
<1>4. CASE BeginPass
  BY <1>4, OperatorFacts DEF BeginPass, clientVars, TypeOK
<1>5. CASE Refresh
  <2>1. mq + 1 \in 1 .. Len(UpdateOrder) + 1
    BY <1>5, OperatorFacts DEF Refresh, AtQuery, TypeOK
  <2>2. mi \in Device
    BY <1>5 DEF Refresh, AtQuery, TypeOK, Device
  <2>3. \A a : Fill(reading[mi], a, pass) \in [Word -> Nat]
    BY <2>2 DEF Fill, TypeOK
  <2>4. reading' \in [Device -> [Word -> Nat]]
    BY <1>5, <2>3 DEF Refresh, TypeOK
  <2> QED BY <1>5, <2>1, <2>4 DEF Refresh, NextQuery, clientVars, TypeOK
<1>6. CASE RefreshFails \/ SkipQuery
  <2>1. mq + 1 \in 1 .. Len(UpdateOrder) + 1
    BY <1>6, OperatorFacts DEF RefreshFails, SkipQuery, AtQuery, TypeOK
  <2> QED BY <1>6, <2>1 DEF RefreshFails, SkipQuery, NextQuery, clientVars, TypeOK
<1>7. CASE NextDevice
  BY <1>7, OperatorFacts DEF NextDevice, clientVars, TypeOK
<1>8. CASE EndPass
  BY <1>8 DEF EndPass, clientVars, TypeOK
<1>9. ASSUME NEW c \in Client, NEW uri \in {"init", "update"}, BeginRequest(c, uri)
      PROVE  TypeOK'
  BY <1>9 DEF BeginRequest, monitorVars, TypeOK
<1>10. ASSUME NEW c \in Client, SendFeatures(c)
       PROVE  TypeOK'
  <2>1. ci[c] \in Device /\ ci[c] + 1 \in 0 .. DevCount
    BY <1>10 DEF SendFeatures, TypeOK, Device
  <2> QED BY <1>10, <2>1 DEF SendFeatures, monitorVars, TypeOK
<1>11. ASSUME NEW c \in Client, EndInit(c)
       PROVE  TypeOK'
  BY <1>11 DEF EndInit, monitorVars, TypeOK, Zeroed
<1>12. ASSUME NEW c \in Client, NEW w \in Word, CopyWord(c, w)
       PROVE  TypeOK'
  <2>1. ci[c] \in Device
    BY <1>12 DEF CopyWord, TypeOK, Device
  <2>2. copied' \in [Client -> [Device -> SUBSET Word]]
    BY <1>12, <2>1 DEF CopyWord, TypeOK
  <2>3. got' \in [Client -> [Device -> [Word -> Nat]]]
    BY <1>12, <2>1 DEF CopyWord, TypeOK
  <2> QED BY <1>12, <2>2, <2>3 DEF CopyWord, monitorVars, TypeOK
<1>13. ASSUME NEW c \in Client, NextCopy(c)
       PROVE  TypeOK'
  BY <1>13 DEF NextCopy, monitorVars, TypeOK
<1>14. ASSUME NEW c \in Client, EndUpdate(c)
       PROVE  TypeOK'
  <2>1. NoWords \in [Device -> SUBSET Word] /\ Zeroed \in [Device -> [Word -> Nat]]
    BY DEF NoWords, Zeroed
  <2> QED BY <1>14, <2>1 DEF EndUpdate, monitorVars, TypeOK
<1> QED
  BY <1>1, <1>2, <1>3, <1>4, <1>5, <1>6, <1>7, <1>8, <1>9, <1>10, <1>11, <1>12,
     <1>13, <1>14 DEF Next, Monitor, Handler

\* Every variable keeps its type, for every value of the constants.
THEOREM TypeCorrect == Spec => []TypeOK
<1>1. Init => TypeOK
  BY InitTypeOK
<1>2. TypeOK /\ [Next]_vars => TypeOK'
  BY NextTypeOK
<1> QED BY <1>1, <1>2, PTL DEF Spec
-----------------------------------------------------------------------------
(***************************************************************************)
(* The inductive invariant.  WithinRequest and TimeCoversReply relate a    *)
(* reply to the live structure, and the live structure to last_update:     *)
(* what the induction needs beyond them is how far the pass counter, the   *)
(* timestamp and the readings can be apart, and that the features of a     *)
(* device are settled before the server listens.                           *)
(***************************************************************************)

\* The timestamp trails the pass under way by at most one.
PassInv ==
  /\ lastUpdate <= pass
  /\ pass <= lastUpdate + 1
  /\ mpc = "probe" => pass = 1
  /\ mpc = "between" => lastUpdate = pass
  /\ mpc # "probe" => lastUpdate >= 1

\* No reading is from a pass that has not begun.
ReadingInv == \A d \in Device, w \in Word : reading[d][w] <= pass

\* Before the server listens no client has asked or heard anything.
QuietInv ==
  mpc = "probe" =>
    \A c \in Client : /\ cpc[c] = "idle"
                      /\ known[c] = NoWords
                      /\ seen[c] = NoReply

\* Only a handler of /ajax/update holds copies.
IdleInv == \A c \in Client : cpc[c] # "update" => copied[c] = NoWords

\* The live readings have only grown since the request arrived.
FloorInv ==
  \A c \in Client, d \in Device, w \in Word : floor[c][d][w] <= reading[d][w]

\* The handler copies what the features call for, and all of it before it
\* goes to the next device.
CopyInv ==
  \A c \in Client, d \in Device :
    /\ copied[c][d] \subseteq PrintedWords(support[d])
    /\ cpc[c] = "update" /\ d < ci[c] =>
         PrintedWords(support[d]) \subseteq copied[c][d]

\* A reply the client holds covers the features of every device, and is not
\* newer than the structures a later request will be served from.
SeenInv ==
  \A c \in Client :
    /\ seen[c].time <= lastUpdate
    /\ \A d \in Device :
         /\ seen[c].time > 0 => seen[c].words[d] = PrintedWords(support[d])
         /\ seen[c].time = 0 => seen[c].words[d] = {}
         /\ \A w \in seen[c].words[d] :
              /\ seen[c].value[d][w] <= reading[d][w]
              /\ cpc[c] = "update" => seen[c].value[d][w] <= floor[c][d][w]

\* What init told a client is the features as they are.
KnownInv ==
  \A c \in Client, d \in Device : known[c][d] \in {{}, support[d]}

IInv ==
  /\ TypeOK
  /\ PassInv /\ ReadingInv /\ QuietInv /\ IdleInv /\ FloorInv
  /\ CopyInv /\ SeenInv /\ KnownInv
  /\ WithinRequest /\ TimeCoversReply

-----------------------------------------------------------------------------
LEMMA InitInv == Init => IInv
<1> SUFFICES ASSUME Init PROVE IInv
  OBVIOUS
<1>1. TypeOK
  BY InitTypeOK
<1>2. PassInv /\ ReadingInv /\ QuietInv /\ IdleInv
  BY DEF Init, PassInv, ReadingInv, QuietInv, IdleInv, Zeroed
<1>3. FloorInv /\ CopyInv /\ SeenInv /\ KnownInv
  BY DEF Init, FloorInv, CopyInv, SeenInv, KnownInv, Zeroed, NoWords, NoReply
<1>4. WithinRequest /\ TimeCoversReply
  BY DEF Init, WithinRequest, TimeCoversReply, Zeroed, NoWords, NoReply
<1> QED BY <1>1, <1>2, <1>3, <1>4 DEF IInv

(***************************************************************************)
(* The steps of the monitor once it probed all devices: no client moves,   *)
(* the features stay, readings and timestamp only grow.                    *)
(***************************************************************************)
Advance ==
  /\ UNCHANGED support
  /\ UNCHANGED clientVars
  /\ \A d \in Device, w \in Word : reading[d][w] <= reading'[d][w]
  /\ lastUpdate <= lastUpdate'

LEMMA AdvanceKeeps ==
  ASSUME IInv, TypeOK', Advance, mpc' = "probe" => mpc = "probe",
         PassInv', ReadingInv'
  PROVE  IInv'
<1> USE DEF IInv, Advance, clientVars
<1>1. QuietInv' /\ IdleInv' /\ KnownInv'
  BY DEF QuietInv, IdleInv, KnownInv
<1>2. FloorInv'
  <2> SUFFICES ASSUME NEW c \in Client, NEW d \in Device, NEW w \in Word
               PROVE  floor[c][d][w] <= reading'[d][w]
    BY DEF FloorInv
  <2>1. floor[c][d][w] <= reading[d][w] /\ reading[d][w] <= reading'[d][w]
    BY DEF FloorInv
  <2>2. floor[c][d][w] \in Nat /\ reading[d][w] \in Nat /\ reading'[d][w] \in Nat
    BY DEF TypeOK
  <2> QED BY <2>1, <2>2
<1>3. CopyInv'
  BY DEF CopyInv
<1>4. SeenInv'
  <2> SUFFICES ASSUME NEW c \in Client
               PROVE  /\ seen[c].time <= lastUpdate'
                      /\ \A d \in Device, w \in Word :
                           w \in seen[c].words[d] =>
                             seen[c].value[d][w] <= reading'[d][w]
    BY DEF SeenInv, TypeOK
  <2>1. seen[c].time <= lastUpdate'
    BY DEF SeenInv, TypeOK
  <2>2. ASSUME NEW d \in Device, NEW w \in Word, w \in seen[c].words[d]
        PROVE  seen[c].value[d][w] <= reading'[d][w]
    <3>1. seen[c].value[d][w] <= reading[d][w] /\ reading[d][w] <= reading'[d][w]
      BY <2>2 DEF SeenInv
    <3>2. /\ seen[c].value[d][w] \in Nat
          /\ reading[d][w] \in Nat /\ reading'[d][w] \in Nat
      BY DEF TypeOK
    <3> QED BY <3>1, <3>2
  <2> QED BY <2>1, <2>2
<1>5. WithinRequest'
  <2> SUFFICES ASSUME NEW c \in Client, NEW d \in Device, NEW w \in copied[c][d]
               PROVE  /\ floor[c][d][w] <= got[c][d][w]
                      /\ got[c][d][w] <= reading'[d][w]
    BY DEF WithinRequest
  <2>1. w \in Word
    BY DEF TypeOK
  <2>2. /\ floor[c][d][w] <= got[c][d][w] /\ got[c][d][w] <= reading[d][w]
        /\ reading[d][w] <= reading'[d][w]
    BY <2>1 DEF WithinRequest
  <2>3. got[c][d][w] \in Nat /\ reading[d][w] \in Nat /\ reading'[d][w] \in Nat
    BY <2>1 DEF TypeOK
  <2> QED BY <2>2, <2>3
<1>6. TimeCoversReply'
  BY DEF TimeCoversReply
<1> QED BY <1>1, <1>2, <1>3, <1>4, <1>5, <1>6

\* What NVML stores for a device only raises its readings, up to the pass under
\* way.
LEMMA StoreGrows ==
  ASSUME TypeOK, ReadingInv, mi \in Device, NEW stored,
         reading' = [reading EXCEPT ![mi] = Fill(@, stored, pass)]
  PROVE  \A d \in Device, w \in Word :
           reading[d][w] <= reading'[d][w] /\ reading'[d][w] <= pass
<1> SUFFICES ASSUME NEW d \in Device, NEW w \in Word
             PROVE  reading[d][w] <= reading'[d][w] /\ reading'[d][w] <= pass
  OBVIOUS
<1>1. reading[mi] \in [Word -> Nat] /\ pass \in Nat /\ reading[d][w] \in Nat
  BY DEF TypeOK
<1>2. \A v \in Word : reading[mi][v] <= pass
  BY DEF ReadingInv
<1>3. \A v \in Word : /\ reading[mi][v] <= Fill(reading[mi], stored, pass)[v]
                      /\ Fill(reading[mi], stored, pass)[v] <= pass
  BY <1>1, <1>2, FillFacts
<1>4. CASE d = mi
  BY <1>3, <1>4 DEF TypeOK
<1>5. CASE d # mi
  BY <1>1, <1>5 DEF TypeOK, ReadingInv
<1> QED BY <1>4, <1>5

LEMMA ProbeKeeps == IInv /\ ProbeDevice => IInv'
<1> SUFFICES ASSUME IInv, ProbeDevice PROVE IInv'
  OBVIOUS
<1> USE DEF IInv
<1>1. TypeOK'
  BY NextTypeOK DEF Next, Monitor
<1>2. mi \in Device /\ mpc = "probe"
  BY ConstantsAssumption DEF ProbeDevice, TypeOK, Device
<1>3. UNCHANGED <<lastUpdate, pass, mpc>> /\ UNCHANGED clientVars
  BY DEF ProbeDevice
<1> PICK answered, stored :
        /\ support' = [support EXCEPT ![mi] = Detected(answered)]
        /\ reading' = [reading EXCEPT ![mi] = Fill(@, stored, pass)]
  BY DEF ProbeDevice
<1>4. \A d \in Device, w \in Word :
        reading[d][w] <= reading'[d][w] /\ reading'[d][w] <= pass
  BY <1>2, StoreGrows
<1>5. \A c \in Client :
        /\ cpc[c] = "idle" /\ known[c] = NoWords /\ seen[c] = NoReply
        /\ copied[c] = NoWords
  BY <1>2 DEF QuietInv, IdleInv
<1>6. PassInv' /\ ReadingInv'
  BY <1>3, <1>4 DEF PassInv, ReadingInv
<1>7. QuietInv' /\ IdleInv'
  BY <1>3, <1>5 DEF QuietInv, IdleInv, clientVars
<1>8. FloorInv'
  <2> SUFFICES ASSUME NEW c \in Client, NEW d \in Device, NEW w \in Word
               PROVE  floor[c][d][w] <= reading'[d][w]
    BY <1>3 DEF FloorInv, clientVars
  <2>1. floor[c][d][w] \in Nat /\ reading[d][w] \in Nat /\ reading'[d][w] \in Nat
    BY <1>1 DEF TypeOK
  <2>2. floor[c][d][w] <= reading[d][w]
    BY DEF FloorInv
  <2> QED BY <1>4, <2>1, <2>2
<1>9. CopyInv' /\ SeenInv' /\ KnownInv' /\ WithinRequest' /\ TimeCoversReply'
  <2>1. \A c \in Client :
          /\ cpc'[c] = "idle" /\ known'[c] = NoWords
          /\ copied'[c] = NoWords /\ seen'[c] = NoReply
    BY <1>3, <1>5 DEF clientVars
  <2>2. CopyInv' /\ KnownInv'
    BY <2>1 DEF CopyInv, KnownInv, NoWords
  <2>3. SeenInv'
    BY <2>1, <1>1 DEF SeenInv, NoReply, NoWords, TypeOK
  <2>4. WithinRequest' /\ TimeCoversReply'
    BY <2>1 DEF WithinRequest, TimeCoversReply, NoWords, NoReply
  <2> QED BY <2>2, <2>3, <2>4
<1> QED BY <1>1, <1>6, <1>7, <1>8, <1>9

LEMMA MonitorKeeps == IInv /\ Monitor => IInv'
<1> SUFFICES ASSUME IInv, Monitor PROVE IInv'
  OBVIOUS
<1>1. TypeOK /\ TypeOK' /\ lastUpdate \in Nat /\ pass \in Nat /\ pass >= 1
  BY NextTypeOK DEF Next, IInv, TypeOK
<1>2. PassInv /\ ReadingInv
  BY DEF IInv
<1>3. CASE ProbeDevice
  BY <1>3, ProbeKeeps
<1>4. CASE StartServer \/ EndPass
  <2>1. /\ lastUpdate' = pass /\ mpc' = "between"
        /\ UNCHANGED <<support, reading, pass>> /\ UNCHANGED clientVars
    BY <1>4 DEF StartServer, EndPass
  <2>2. Advance
    BY <1>1, <1>2, <2>1 DEF Advance, PassInv, TypeOK
  <2>3. PassInv'
    BY <1>1, <2>1 DEF PassInv
  <2>4. ReadingInv'
    BY <1>2, <2>1 DEF ReadingInv
  <2> QED BY <1>1, <2>1, <2>2, <2>3, <2>4, AdvanceKeeps
<1>5. CASE BeginPass
  <2>1. Advance
    BY <1>1, <1>5 DEF Advance, BeginPass, TypeOK
  <2>2. PassInv' /\ mpc' # "probe"
    BY <1>1, <1>2, <1>5 DEF BeginPass, PassInv, TypeOK
  <2>3. ReadingInv'
    BY <1>1, <1>2, <1>5 DEF BeginPass, ReadingInv, TypeOK
  <2> QED BY <1>1, <2>1, <2>2, <2>3, AdvanceKeeps
<1>6. CASE Refresh
  <2>1. mi \in Device
    BY <1>1, <1>6 DEF Refresh, AtQuery, TypeOK, Device
  <2> DEFINE stored == {UpdateOrder[mq]}
  <2>2. reading' = [reading EXCEPT ![mi] = Fill(@, stored, pass)]
    BY <1>6 DEF Refresh
  <2> HIDE DEF stored
  <2>3. \A d \in Device, w \in Word :
          reading[d][w] <= reading'[d][w] /\ reading'[d][w] <= pass
    BY <1>1, <1>2, <2>1, <2>2, StoreGrows
  <2>4. UNCHANGED <<support, lastUpdate, pass, mpc>> /\ UNCHANGED clientVars
    BY <1>6 DEF Refresh, NextQuery
  <2>5. Advance
    BY <1>1, <2>3, <2>4 DEF Advance
  <2>6. PassInv' /\ ReadingInv'
    BY <1>2, <2>3, <2>4 DEF PassInv, ReadingInv
  <2> QED BY <1>1, <2>4, <2>5, <2>6, AdvanceKeeps
<1>7. CASE RefreshFails \/ SkipQuery \/ NextDevice
  <2>1. UNCHANGED <<support, reading, lastUpdate, pass, mpc>> /\ UNCHANGED clientVars
    BY <1>7 DEF RefreshFails, SkipQuery, NextDevice, NextQuery
  <2>2. Advance
    BY <1>1, <2>1 DEF Advance, TypeOK
  <2>3. PassInv' /\ ReadingInv'
    BY <1>2, <2>1 DEF PassInv, ReadingInv
  <2> QED BY <1>1, <2>1, <2>2, <2>3, AdvanceKeeps
<1> QED BY <1>3, <1>4, <1>5, <1>6, <1>7 DEF Monitor

(***************************************************************************)
(* The steps of the clients leave the monitor's state alone; each disturbs *)
(* the record of one client.                                               *)
(***************************************************************************)
LEMMA LiveUnchanged ==
  ASSUME PassInv, ReadingInv, UNCHANGED monitorVars
  PROVE  PassInv' /\ ReadingInv'
BY DEF PassInv, ReadingInv, monitorVars

LEMMA BeginKeeps ==
  ASSUME IInv, NEW c \in Client, NEW uri \in {"init", "update"}, BeginRequest(c, uri)
  PROVE  IInv'
<1> USE DEF IInv, BeginRequest, monitorVars
<1>1. TypeOK'
  BY NextTypeOK DEF Next
<1>2. PassInv' /\ ReadingInv'
  BY LiveUnchanged
<1>3. QuietInv'
  BY DEF QuietInv
<1>4. copied[c] = NoWords /\ cpc'[c] = uri /\ floor'[c] = reading
  BY DEF IdleInv, TypeOK
<1>5. \A e \in Client : e # c => cpc'[e] = cpc[e] /\ ci'[e] = ci[e] /\ floor'[e] = floor[e]
  BY DEF TypeOK
<1>6. IdleInv'
  BY <1>4, <1>5 DEF IdleInv
<1>7. FloorInv'
  BY <1>4, <1>5 DEF FloorInv, TypeOK
<1>8. CopyInv'
  <2>1. ci'[c] = 0
    BY DEF TypeOK
  <2>2. \A d \in Device : ~(d < 0)
    BY DEF Device
  <2> QED BY <2>1, <2>2, <1>5 DEF CopyInv
<1>9. SeenInv'
  BY <1>4, <1>5 DEF SeenInv
<1>10. WithinRequest'
  <2>1. \A d \in Device : copied[c][d] = {}
    BY <1>4 DEF NoWords
  <2> QED BY <2>1, <1>5 DEF WithinRequest
<1>11. KnownInv' /\ TimeCoversReply'
  BY DEF KnownInv, TimeCoversReply
<1> QED BY <1>1, <1>2, <1>3, <1>6, <1>7, <1>8, <1>9, <1>10, <1>11

LEMMA SendFeaturesKeeps ==
  ASSUME IInv, NEW c \in Client, SendFeatures(c)
  PROVE  IInv'
<1> USE DEF IInv, SendFeatures, monitorVars
<1>1. TypeOK'
  BY NextTypeOK DEF Next, Handler
<1>2. PassInv' /\ ReadingInv'
  BY LiveUnchanged
<1>3. mpc # "probe"
  BY DEF QuietInv
<1>4. ci[c] \in Device
  BY ConstantsAssumption DEF TypeOK, Device
<1>5. KnownInv'
  BY <1>4 DEF KnownInv, TypeOK
<1>6. QuietInv' /\ IdleInv' /\ FloorInv' /\ SeenInv'
  BY <1>3 DEF QuietInv, IdleInv, FloorInv, SeenInv
<1>7. CopyInv'
  BY DEF CopyInv, TypeOK
<1>8. WithinRequest' /\ TimeCoversReply'
  BY DEF WithinRequest, TimeCoversReply
<1> QED BY <1>1, <1>2, <1>5, <1>6, <1>7, <1>8

LEMMA EndInitKeeps ==
  ASSUME IInv, NEW c \in Client, EndInit(c)
  PROVE  IInv'
<1> USE DEF IInv, EndInit, monitorVars
<1>1. TypeOK'
  BY NextTypeOK DEF Next, Handler
<1>2. PassInv' /\ ReadingInv'
  BY LiveUnchanged
<1>3. /\ cpc'[c] = "idle" /\ floor'[c] = Zeroed /\ copied[c] = NoWords
      /\ \A e \in Client : e # c => cpc'[e] = cpc[e] /\ floor'[e] = floor[e]
  BY DEF IdleInv, TypeOK
<1>4. QuietInv' /\ IdleInv'
  BY <1>3 DEF QuietInv, IdleInv
<1>5. FloorInv'
  BY <1>3 DEF FloorInv, Zeroed, TypeOK
<1>6. CopyInv' /\ SeenInv'
  BY <1>3 DEF CopyInv, SeenInv
<1>7. WithinRequest'
  BY <1>3 DEF WithinRequest, NoWords
<1>8. KnownInv' /\ TimeCoversReply'
  BY DEF KnownInv, TimeCoversReply
<1> QED BY <1>1, <1>2, <1>4, <1>5, <1>6, <1>7, <1>8

LEMMA CopyWordKeeps ==
  ASSUME IInv, NEW c \in Client, NEW w \in Word, CopyWord(c, w)
  PROVE  IInv'
<1> USE DEF IInv, monitorVars
<1> DEFINE d == ci[c]
<1>1. TypeOK'
  BY NextTypeOK DEF Next, Handler
<1>2. PassInv' /\ ReadingInv' /\ UNCHANGED monitorVars
  BY LiveUnchanged DEF CopyWord
<1>3. d \in Device
  BY ConstantsAssumption DEF CopyWord, TypeOK, Device
<1>4. /\ cpc[c] = "update" /\ w \in PrintedWords(support[d])
      /\ copied' = [copied EXCEPT ![c][d] = @ \union {w}]
      /\ got' = [got EXCEPT ![c][d][w] = reading[d][w]]
      /\ UNCHANGED <<cpc, ci, floor, known, seen>>
  BY DEF CopyWord
<1> HIDE DEF d
<1>5. \A e \in Client, b \in Device :
        copied'[e][b] = IF e = c /\ b = d THEN copied[e][b] \union {w}
                                        ELSE copied[e][b]
  BY <1>3, <1>4 DEF TypeOK
<1>6. \A e \in Client, b \in Device, v \in Word :
        got'[e][b][v] = IF e = c /\ b = d /\ v = w THEN reading[d][w]
                                                  ELSE got[e][b][v]
  <2>1. got \in [Client -> [Device -> [Word -> Nat]]]
    BY DEF TypeOK
  <2>2. /\ \A e \in Client : e # c => got'[e] = got[e]
        /\ got'[c] = [got[c] EXCEPT ![d][w] = reading[d][w]]
    BY <1>4, <2>1
  <2>3. got[c] \in [Device -> [Word -> Nat]]
    BY <2>1
  <2>4. /\ \A b \in Device : b # d => got'[c][b] = got[c][b]
        /\ got'[c][d] = [got[c][d] EXCEPT ![w] = reading[d][w]]
    BY <1>3, <2>2, <2>3
  <2>5. got[c][d] \in [Word -> Nat]
    BY <1>3, <2>3
  <2>6. \A v \in Word : got'[c][d][v] = IF v = w THEN reading[d][w] ELSE got[c][d][v]
    BY <2>4, <2>5
  <2> QED BY <2>2, <2>4, <2>6
<1>7. QuietInv' /\ FloorInv'
  BY <1>2, <1>4 DEF QuietInv, FloorInv
<1>8. KnownInv' /\ TimeCoversReply'
  BY <1>2, <1>4 DEF KnownInv, TimeCoversReply
<1>9. SeenInv'
  BY <1>2, <1>4 DEF SeenInv
<1>10. IdleInv'
  <2>1. \A e \in Client : e # c => copied'[e] = copied[e]
    BY <1>4 DEF TypeOK
  <2> QED BY <1>4, <2>1 DEF IdleInv
<1>11. CopyInv'
  BY <1>2, <1>4, <1>5 DEF CopyInv
<1>12. WithinRequest'
  <2> SUFFICES ASSUME NEW e \in Client, NEW b \in Device, NEW v \in copied'[e][b]
               PROVE  /\ floor[e][b][v] <= got'[e][b][v]
                      /\ got'[e][b][v] <= reading[b][v]
    BY <1>2, <1>4 DEF WithinRequest
  <2>1. v \in Word
    BY <1>1 DEF TypeOK
  <2>2. CASE e = c /\ b = d /\ v = w
    BY <1>6, <2>1, <2>2 DEF FloorInv, TypeOK
  <2>3. CASE ~(e = c /\ b = d /\ v = w)
    <3>1. v \in copied[e][b]
      BY <1>5, <2>3
    <3>2. got'[e][b][v] = got[e][b][v]
      BY <1>6, <2>1, <2>3
    <3> QED BY <3>1, <3>2 DEF WithinRequest
  <2> QED BY <2>2, <2>3
<1> QED BY <1>1, <1>2, <1>7, <1>8, <1>9, <1>10, <1>11, <1>12

LEMMA NextCopyKeeps ==
  ASSUME IInv, NEW c \in Client, NextCopy(c)
  PROVE  IInv'
<1> USE DEF IInv, monitorVars
<1>1. TypeOK'
  BY NextTypeOK DEF Next, Handler
<1>2. PassInv' /\ ReadingInv'
  BY LiveUnchanged DEF NextCopy
<1>3. QuietInv' /\ IdleInv' /\ FloorInv' /\ SeenInv' /\ KnownInv'
  BY DEF NextCopy, QuietInv, IdleInv, FloorInv, SeenInv, KnownInv
<1>4. WithinRequest' /\ TimeCoversReply'
  BY DEF NextCopy, WithinRequest, TimeCoversReply
<1>5. CopyInv'
  <2> SUFFICES ASSUME NEW e \in Client, NEW d \in Device,
                      cpc[e] = "update", d < ci'[e]
               PROVE  PrintedWords(support[d]) \subseteq copied[e][d]
    BY DEF NextCopy, CopyInv
  <2>1. CASE e = c /\ d = ci[c]
    BY <2>1 DEF NextCopy
  <2>2. CASE ~(e = c /\ d = ci[c])
    <3>1. d < ci[e]
      BY <2>2, ConstantsAssumption DEF NextCopy, TypeOK, Device
    <3> QED BY <3>1 DEF CopyInv
  <2> QED BY <2>1, <2>2
<1> QED BY <1>1, <1>2, <1>3, <1>4, <1>5

\* What the last step of ajax_send_update sees: the copies are complete.
LEMMA CompleteCopies ==
  ASSUME IInv, NEW c \in Client, cpc[c] = "update", ci[c] = DevCount
  PROVE  \A d \in Device : copied[c][d] = PrintedWords(support[d])
<1> SUFFICES ASSUME NEW d \in Device
             PROVE  copied[c][d] = PrintedWords(support[d])
  OBVIOUS
<1>1. d < ci[c]
  BY ConstantsAssumption DEF Device
<1> QED BY <1>1 DEF IInv, CopyInv

LEMMA EndUpdateKeeps ==
  ASSUME IInv, NEW c \in Client, EndUpdate(c)
  PROVE  IInv'
<1> USE DEF IInv, monitorVars
<1>1. TypeOK'
  BY NextTypeOK DEF Next, Handler
<1>2. PassInv' /\ ReadingInv' /\ UNCHANGED monitorVars /\ UNCHANGED <<ci, known>>
  BY LiveUnchanged DEF EndUpdate
<1>3. cpc[c] = "update" /\ mpc # "probe" /\ lastUpdate >= 1
  BY DEF EndUpdate, QuietInv, PassInv
<1>4. \A d \in Device : copied[c][d] = PrintedWords(support[d])
  BY CompleteCopies DEF EndUpdate
<1>5. /\ cpc'[c] = "idle" /\ copied'[c] = NoWords /\ floor'[c] = Zeroed
      /\ seen'[c] = [time |-> lastUpdate, words |-> copied[c], value |-> got[c]]
  BY DEF EndUpdate, TypeOK
<1>6. \A e \in Client : e # c =>
        /\ cpc'[e] = cpc[e] /\ copied'[e] = copied[e] /\ got'[e] = got[e]
        /\ floor'[e] = floor[e] /\ seen'[e] = seen[e]
  BY DEF EndUpdate, TypeOK
<1>7. QuietInv'
  BY <1>2, <1>3 DEF QuietInv
<1>8. IdleInv' /\ KnownInv'
  BY <1>2, <1>5, <1>6 DEF IdleInv, KnownInv
<1>9. FloorInv'
  <2> SUFFICES ASSUME NEW e \in Client, NEW d \in Device, NEW w \in Word
               PROVE  floor'[e][d][w] <= reading[d][w]
    BY <1>2 DEF FloorInv
  <2>1. CASE e = c
    BY <1>5, <2>1 DEF Zeroed, TypeOK
  <2>2. CASE e # c
    BY <1>6, <2>2 DEF FloorInv
  <2> QED BY <2>1, <2>2
<1>10. CopyInv'
  BY <1>2, <1>5, <1>6 DEF CopyInv, NoWords
<1>11. SeenInv'
  <2>1. ASSUME NEW d \in Device, NEW w \in copied[c][d]
        PROVE  got[c][d][w] <= reading[d][w]
    BY DEF WithinRequest
  <2>2. lastUpdate \in Nat
    BY DEF TypeOK
  <2> SUFFICES ASSUME NEW e \in Client
               PROVE  SeenInv!(e)'
    BY DEF SeenInv
  <2>3. CASE e = c
    BY <1>2, <1>3, <1>4, <1>5, <2>1, <2>2, <2>3
  <2>4. CASE e # c
    BY <1>2, <1>6, <2>4 DEF SeenInv
  <2> QED BY <2>3, <2>4
<1>12. WithinRequest'
  BY <1>2, <1>5, <1>6 DEF WithinRequest, NoWords
<1>13. TimeCoversReply'
  <2> SUFFICES ASSUME NEW e \in Client, NEW d \in Device, NEW w \in seen'[e].words[d]
               PROVE  seen'[e].value[d][w] <= seen'[e].time + 1
    BY DEF TimeCoversReply
  <2>1. CASE e = c
    <3>1. w \in copied[c][d] /\ w \in Word
      BY <1>5, <2>1 DEF TypeOK
    <3>2. /\ got[c][d][w] <= reading[d][w] /\ reading[d][w] <= pass
          /\ pass <= lastUpdate + 1
      BY <3>1 DEF WithinRequest, ReadingInv, PassInv
    <3>3. /\ got[c][d][w] \in Nat /\ reading[d][w] \in Nat
          /\ pass \in Nat /\ lastUpdate \in Nat
      BY <3>1 DEF TypeOK
    <3> QED BY <1>5, <2>1, <3>2, <3>3
  <2>2. CASE e # c
    BY <1>6, <2>2 DEF TimeCoversReply
  <2> QED BY <2>1, <2>2
<1> QED BY <1>1, <1>2, <1>7, <1>8, <1>9, <1>10, <1>11, <1>12, <1>13

LEMMA StutterKeeps == IInv /\ UNCHANGED vars => IInv'
BY NextTypeOK
   DEF IInv, vars, PassInv, ReadingInv, QuietInv, IdleInv, FloorInv, CopyInv,
       SeenInv, KnownInv, WithinRequest, TimeCoversReply

LEMMA NextInv == IInv /\ [Next]_vars => IInv'
<1> SUFFICES ASSUME IInv, [Next]_vars PROVE IInv'
  OBVIOUS
<1>1. CASE UNCHANGED vars
  BY <1>1, StutterKeeps
<1>2. CASE Monitor
  BY <1>2, MonitorKeeps
<1>3. ASSUME NEW c \in Client, NEW uri \in {"init", "update"}, BeginRequest(c, uri)
      PROVE  IInv'
  BY <1>3, BeginKeeps
<1>4. ASSUME NEW c \in Client, Handler(c)
      PROVE  IInv'
  BY <1>4, SendFeaturesKeeps, EndInitKeeps, CopyWordKeeps, NextCopyKeeps,
     EndUpdateKeeps DEF Handler
<1> QED BY <1>1, <1>2, <1>3, <1>4 DEF Next

-----------------------------------------------------------------------------
(* The theorems. *)

LEMMA Invariance == Spec => []IInv
<1>1. Init => IInv
  BY InitInv
<1>2. IInv /\ [Next]_vars => IInv'
  BY NextInv
<1> QED BY <1>1, <1>2, PTL DEF Spec

\* Whatever the interleaving of the copy with the refresh, and whatever queries
\* fail, a reply under construction holds only values the device had since the
\* request arrived.
THEOREM RepliesWithinRequest == Spec => []WithinRequest
<1>1. IInv => WithinRequest
  BY DEF IInv
<1> QED BY <1>1, Invariance, PTL

\* The timestamp of a reply is at most one pass behind its values, because
\* ajax_send_update reads last_update after the devices.
THEOREM TimestampsCoverReplies == Spec => []TimeCoversReply
<1>1. IInv => TimeCoversReply
  BY DEF IInv
<1> QED BY <1>1, Invariance, PTL

\* The init reply and every update reply agree on what a device reports,
\* because the features do not change once the server listens.
THEOREM KeysAlwaysMatch == Spec => []KeysMatchInit
<1>1. IInv => KeysMatchInit
  BY DEF IInv, KnownInv, SeenInv, KeysMatchInit
<1> QED BY <1>1, Invariance, PTL

\* A client that asks again after it has the answer never sees a value or the
\* timestamp go back, and never loses a key.
THEOREM RepliesAreMonotonic == Spec => MonotonicReplies
<1>1. IInv /\ [Next]_vars => [\A c \in Client : NotBack(seen[c], seen'[c])]_vars
  <2> SUFFICES ASSUME IInv, Next, NEW c \in Client
               PROVE  NotBack(seen[c], seen'[c])
    OBVIOUS
  <2> USE DEF NotBack
  <2>1. TypeOK /\ SeenInv /\ WithinRequest
    BY DEF IInv
  <2>2. CASE seen'[c] = seen[c]
    <3>1. seen[c].time \in Nat
      BY <2>1 DEF TypeOK
    <3>2. ASSUME NEW d \in Device, NEW w \in seen[c].words[d]
          PROVE  seen[c].value[d][w] \in Nat
      BY <2>1 DEF TypeOK
    <3> QED BY <2>2, <3>1, <3>2
  <2>3. CASE EndUpdate(c)
    <3>1. seen'[c] = [time |-> lastUpdate, words |-> copied[c], value |-> got[c]]
      BY <2>1, <2>3 DEF EndUpdate, TypeOK
    <3>2. seen[c].time <= lastUpdate /\ seen[c].time \in Nat /\ lastUpdate \in Nat
      BY <2>1 DEF SeenInv, TypeOK
    <3>3. \A d \in Device : copied[c][d] = PrintedWords(support[d])
      BY <2>3, CompleteCopies DEF EndUpdate
    <3>4. ASSUME NEW d \in Device, NEW w \in seen[c].words[d]
          PROVE  w \in copied[c][d] /\ got[c][d][w] >= seen[c].value[d][w]
      <4>1. w \in copied[c][d] /\ w \in Word
        <5>1. seen[c].time # 0
          BY <2>1, <3>4 DEF SeenInv
        <5>2. w \in PrintedWords(support[d])
          BY <2>1, <3>2, <3>4, <5>1 DEF SeenInv
        <5> QED BY <2>1, <3>3, <5>2 DEF TypeOK
      <4>2. seen[c].value[d][w] <= floor[c][d][w] /\ floor[c][d][w] <= got[c][d][w]
        BY <2>1, <2>3, <3>4, <4>1 DEF SeenInv, WithinRequest, EndUpdate
      <4>3. /\ seen[c].value[d][w] \in Nat /\ floor[c][d][w] \in Nat
            /\ got[c][d][w] \in Nat
        BY <2>1, <4>1 DEF TypeOK
      <4> QED BY <4>1, <4>2, <4>3
    <3> QED BY <3>1, <3>2, <3>4
  <2>4. seen'[c] = seen[c] \/ EndUpdate(c)
    <3>1. CASE Monitor
      BY <3>1 DEF Monitor, ProbeDevice, StartServer, BeginPass, Refresh,
         RefreshFails, SkipQuery, NextDevice, EndPass, NextQuery, clientVars
    <3>2. ASSUME NEW e \in Client, NEW uri \in {"init", "update"}, BeginRequest(e, uri)
          PROVE  seen'[c] = seen[c]
      BY <3>2 DEF BeginRequest
    <3>3. ASSUME NEW e \in Client, Handler(e), ~EndUpdate(e)
          PROVE  seen'[c] = seen[c]
      BY <3>3 DEF Handler, SendFeatures, EndInit, CopyWord, NextCopy
    <3>4. ASSUME NEW e \in Client, EndUpdate(e), e # c
          PROVE  seen'[c] = seen[c]
      BY <2>1, <3>4 DEF EndUpdate, TypeOK
    <3> QED BY <3>1, <3>2, <3>3, <3>4 DEF Next
  <2> QED BY <2>2, <2>3, <2>4
<1> QED BY <1>1, Invariance, PTL DEF Spec, MonotonicReplies
-----------------------------------------------------------------------------
(* Nothing is printed that was never read. *)

\* A feature the probe detects prints only words that the answered queries fill,
\* but for the memory clock where NVML takes NVML_CLOCK_COUNT.
LEMMA EvidenceFills ==
  ASSUME NEW answered \in SUBSET Query,
         NEW f \in Detected(answered), NEW w \in Printed[f]
  PROVE  \/ \E q \in answered : w \in Fills[q]
         \/ w = "clock_mem" /\ "count" \in answered
<1>1. f \in DOMAIN Evidence /\ Evidence[f] \subseteq answered
  BY DEF Detected
<1>2. CASE f = "TEMPERATURE"
  BY <1>1, <1>2 DEF Evidence, Printed, Fills
<1>3. CASE f = "MEMORY_INFO"
  BY <1>1, <1>3 DEF Evidence, Printed, Fills
<1>4. CASE f = "POWER_USAGE"
  BY <1>1, <1>4 DEF Evidence, Printed, Fills
<1>5. CASE f = "CLOCK_INFO"
  BY <1>1, <1>5 DEF Evidence, Printed, Fills
<1>6. CASE f = "FAN_INFO"
  BY <1>1, <1>6 DEF Evidence, Printed, Fills
<1>7. CASE f = "UTILIZATION_INFO"
  BY <1>1, <1>7 DEF Evidence, Printed, Fills
<1>8. f \in {"TEMPERATURE", "MEMORY_INFO", "POWER_USAGE", "CLOCK_INFO",
             "FAN_INFO", "UTILIZATION_INFO"}
  BY <1>1 DEF Evidence
<1> QED BY <1>2, <1>3, <1>4, <1>5, <1>6, <1>7, <1>8

\* What a reply could print has been read, from the moment a bit announces it.
ReadInv ==
  \A d \in Device : \A w \in PrintedWords(support[d]) : reading[d][w] > 0

LEMMA ReadSteps ==
  ASSUME CountClockAccepted = FALSE, IInv, ReadInv, [Next]_vars
  PROVE  ReadInv'
<1>1. TypeOK /\ TypeOK'
  BY NextTypeOK DEF IInv
<1>2. CASE support' = support /\ \A d \in Device, w \in Word :
             reading'[d][w] = reading[d][w] \/ reading'[d][w] = pass
  <2> SUFFICES ASSUME NEW d \in Device, NEW w \in PrintedWords(support[d])
               PROVE  reading'[d][w] > 0
    BY <1>2 DEF ReadInv
  <2>1. w \in Word
    BY <1>1, PrintedAreWords DEF TypeOK
  <2>2. reading[d][w] > 0 /\ pass > 0
    BY <1>1 DEF ReadInv, TypeOK
  <2> QED BY <1>2, <2>1, <2>2
<1>3. CASE ProbeDevice
  <2>1. mi \in Device
    BY <1>1, <1>3, ConstantsAssumption DEF ProbeDevice, TypeOK, Device
  <2>2. PICK answered \in ProbeOutcome(mi), early \in ProbeOutcome(mi) :
          /\ support' = [support EXCEPT ![mi] = Detected(answered)]
          /\ reading' = [reading EXCEPT ![mi] =
                           Fill(@, answered \union (early \cap {"memory"}), pass)]
    BY <1>3 DEF ProbeDevice
  <2>3. answered \in SUBSET Query /\ "count" \notin answered
    BY DEF ProbeOutcome, CanAnswer, Query, Fills
  <2> SUFFICES ASSUME NEW d \in Device, NEW w \in PrintedWords(support'[d])
               PROVE  reading'[d][w] > 0
    BY DEF ReadInv
  <2>4. w \in Word /\ pass > 0
    <3>1. PICK s \in SUBSET Feature : s = support'[d]
      BY <1>1 DEF TypeOK
    <3>2. w \in PrintedWords(s)
      BY <3>1
    <3>3. w \in Word
      BY <3>2, PrintedAreWords
    <3> QED BY <1>1, <3>3 DEF TypeOK
  <2>5. CASE d = mi
    <3>1. w \in PrintedWords(Detected(answered))
      BY <1>1, <2>1, <2>2, <2>5 DEF TypeOK
    <3>2. PICK f \in Detected(answered) : w \in Printed[f]
      BY <3>1 DEF PrintedWords
    <3>3. \E q \in answered : w \in Fills[q]
      BY <2>3, <3>2, EvidenceFills
    <3>4. reading'[d][w] = pass
      BY <1>1, <2>1, <2>2, <2>4, <2>5, <3>3 DEF Fill, TypeOK
    <3> QED BY <2>4, <3>4
  <2>6. CASE d # mi
    BY <1>1, <2>1, <2>2, <2>6 DEF TypeOK, ReadInv
  <2> QED BY <2>5, <2>6
<1>4. CASE Refresh
  <2>1. support' = support
    BY <1>4 DEF Refresh, NextQuery
  <2>2. \A d \in Device, w \in Word :
          reading'[d][w] = reading[d][w] \/ reading'[d][w] = pass
    BY <1>1, <1>4 DEF Refresh, AtQuery, Device, TypeOK, Fill
  <2> QED BY <1>2, <2>1, <2>2
<1>5. CASE UNCHANGED <<support, reading>>
  BY <1>2, <1>5
<1>6. CASE StartServer \/ BeginPass \/ RefreshFails \/ SkipQuery \/ NextDevice \/ EndPass
  BY <1>5, <1>6
  DEF StartServer, BeginPass, RefreshFails, SkipQuery, NextQuery, NextDevice, EndPass
<1>7. CASE \E c \in Client : \/ \E uri \in {"init", "update"} : BeginRequest(c, uri)
                             \/ Handler(c)
  BY <1>5, <1>7 DEF BeginRequest, Handler, SendFeatures, EndInit, CopyWord,
                    NextCopy, EndUpdate, monitorVars
<1> QED BY <1>3, <1>4, <1>5, <1>6, <1>7 DEF Next, Monitor, vars

LEMMA CopiesSteps ==
  ASSUME IInv, ReadInv, PrintsOnlyRead, [Next]_vars
  PROVE  PrintsOnlyRead'
<1> SUFFICES ASSUME NEW c \in Client, NEW d \in Device, NEW w \in copied'[c][d]
             PROVE  got'[c][d][w] > 0
  BY DEF PrintsOnlyRead
<1>1. TypeOK
  BY DEF IInv
<1>2. CASE UNCHANGED <<copied, got>>
  BY <1>2 DEF PrintsOnlyRead
<1>3. CASE Monitor \/ UNCHANGED vars
  BY <1>2, <1>3
  DEF Monitor, ProbeDevice, StartServer, BeginPass, Refresh, RefreshFails, SkipQuery,
      NextQuery, NextDevice, EndPass, clientVars, vars
<1>4. ASSUME NEW e \in Client, NEW v \in Word, CopyWord(e, v)
      PROVE  got'[c][d][w] > 0
  <2>1. /\ ci[e] \in Device /\ v \in PrintedWords(support[ci[e]])
        /\ copied' = [copied EXCEPT ![e][ci[e]] = @ \union {v}]
        /\ got' = [got EXCEPT ![e][ci[e]][v] = reading[ci[e]][v]]
    BY <1>1, <1>4, ConstantsAssumption DEF CopyWord, TypeOK, Device
  <2>2. CASE c = e /\ d = ci[e] /\ w = v
    <3>1. got'[e][ci[e]][v] = reading[ci[e]][v]
      <4>1. got'[e] = [got[e] EXCEPT ![ci[e]][v] = reading[ci[e]][v]]
        BY <1>1, <2>1 DEF TypeOK
      <4>2. got'[e][ci[e]] = [got[e][ci[e]] EXCEPT ![v] = reading[ci[e]][v]]
        BY <1>1, <2>1, <4>1 DEF TypeOK
      <4> QED BY <1>1, <2>1, <4>2 DEF TypeOK
    <3>2. reading[ci[e]][v] > 0
      BY <2>1 DEF ReadInv
    <3> QED BY <2>2, <3>1, <3>2
  <2>3. CASE ~(c = e /\ d = ci[e] /\ w = v)
    <3>1. w \in copied[c][d]
      <4>1. copied'[e] = [copied[e] EXCEPT ![ci[e]] = @ \union {v}]
        BY <1>1, <2>1 DEF TypeOK
      <4>2. CASE c # e
        BY <1>1, <2>1, <4>2 DEF TypeOK
      <4>3. CASE c = e /\ d # ci[e]
        BY <1>1, <2>1, <4>1, <4>3 DEF TypeOK
      <4>4. CASE c = e /\ d = ci[e] /\ w # v
        <5>1. copied'[e][ci[e]] = copied[e][ci[e]] \union {v}
          BY <1>1, <2>1, <4>1 DEF TypeOK
        <5> QED BY <4>4, <5>1
      <4> QED BY <2>3, <4>2, <4>3, <4>4
    <3>2. CASE c # e
      BY <1>1, <2>1, <3>1, <3>2 DEF TypeOK, PrintsOnlyRead
    <3>3. CASE c = e /\ d # ci[e]
      BY <1>1, <2>1, <3>1, <3>3 DEF TypeOK, PrintsOnlyRead
    <3>4. CASE c = e /\ d = ci[e] /\ w # v
      BY <1>1, <2>1, <3>1, <3>4 DEF TypeOK, PrintsOnlyRead
    <3> QED BY <2>3, <3>2, <3>3, <3>4
  <2> QED BY <2>2, <2>3
<1>5. ASSUME NEW e \in Client, EndUpdate(e)
      PROVE  got'[c][d][w] > 0
  <2>1. c # e
    BY <1>1, <1>5 DEF EndUpdate, NoWords, TypeOK
  <2> QED BY <1>1, <1>5, <2>1 DEF EndUpdate, TypeOK, PrintsOnlyRead
<1>6. ASSUME NEW e \in Client,
             \/ \E uri \in {"init", "update"} : BeginRequest(e, uri)
             \/ SendFeatures(e) \/ EndInit(e) \/ NextCopy(e)
      PROVE  got'[c][d][w] > 0
  BY <1>2, <1>6 DEF BeginRequest, SendFeatures, EndInit, NextCopy
<1> QED BY <1>3, <1>4, <1>5, <1>6 DEF Next, Handler

\* With an NVML that refuses NVML_CLOCK_COUNT, as its header has it, every word
\* a handler copies was filled by a query that succeeded: the bits that
\* get_device_features sets cover what ajax_send_update prints.
THEOREM RepliesWereRead ==
  ASSUME CountClockAccepted = FALSE
  PROVE  Spec => []PrintsOnlyRead
<1>1. Init => ReadInv /\ PrintsOnlyRead
  BY DEF Init, ReadInv, PrintsOnlyRead, NoWords, PrintedWords
<1>2. IInv /\ ReadInv /\ PrintsOnlyRead /\ [Next]_vars => (ReadInv /\ PrintsOnlyRead)'
  BY ReadSteps, CopiesSteps
<1> QED BY <1>1, <1>2, Invariance, PTL DEF Spec
-----------------------------------------------------------------------------
(* What a reply is worth while no query fails. *)

\* With an NVML that accepts NVML_CLOCK_COUNT the clock bit does not vouch for
\* the memory clock: the device has to answer for that one too.
NoFailures ==
  /\ Flaky = {}
  /\ \A d \in Device :
       (\A q \in {"graphics", "sm", "count"} : CanAnswer(d, q)) => CanAnswer(d, "mem")

\* update_device_info reaches every live word, and the bit that guards a query
\* is the one under which its words are printed.
LEMMA OrderFacts ==
  /\ \A w \in LiveWord : \E i \in 1 .. 7 : w \in Fills[UpdateOrder[i]]
  /\ \A s \in SUBSET Feature : \A i \in 1 .. 7 : \A w \in Fills[UpdateOrder[i]] :
       w \in PrintedWords(s) => Guard[UpdateOrder[i]] \in s
<1> USE DEF UpdateOrder, Fills
<1>1. \A w \in LiveWord : \E i \in 1 .. 7 : w \in Fills[UpdateOrder[i]]
  BY DEF LiveWord, Word, Query, Printed
<1>2. ASSUME NEW s \in SUBSET Feature, NEW i \in 1 .. 7,
             NEW w \in Fills[UpdateOrder[i]], w \in PrintedWords(s)
      PROVE  Guard[UpdateOrder[i]] \in s
  <2>1. PICK f \in s : w \in Printed[f]
    BY <1>2 DEF PrintedWords
  <2>2. i \in {1, 2, 3, 4, 5, 6, 7}
    OBVIOUS
  <2> QED BY <1>2, <2>1, <2>2 DEF Printed, Feature, Guard
<1> QED BY <1>1, <1>2

\* The words of a device that replies carry and passes refresh.
Live(d) == PrintedWords(support[d]) \cap LiveWord

\* Has the pass under way, or the last one, dealt with word w of device d?
Done(d, w) ==
  \/ mpc # "update"
  \/ d < mi
  \/ d = mi /\ \E i \in 1 .. mq - 1 : w \in Fills[UpdateOrder[i]]

\* No reading is older than the pass before, and only those the pass has not
\* reached are.  Pass 1 leaves a memory clock it has to deal with at zero.
FreshInv ==
  /\ \A d \in Device, i \in 1 .. 7 :
       Guard[UpdateOrder[i]] \in support[d] => CanAnswer(d, UpdateOrder[i])
  /\ \A d \in Device : \A w \in Live(d) : LET k == DealtWith(w, reading[d][w]) IN
       k = pass \/ (~Done(d, w) /\ k = pass - 1)

\* A query that guards a feature the probe detected is one the probe made, or
\* the memory clock's.
LEMMA DetectedCanAnswer ==
  ASSUME NoFailures, NEW d \in Device, NEW answered,
         \A q \in answered : CanAnswer(d, q), NEW i \in 1 .. 7,
         Guard[UpdateOrder[i]] \in Detected(answered)
  PROVE  CanAnswer(d, UpdateOrder[i])
<1>1. i \in {1, 2, 3, 4, 5, 6, 7}
  OBVIOUS
<1>2. CASE i = 6
  <2>1. {"graphics", "sm", "count"} \subseteq answered /\ UpdateOrder[i] = "mem"
    BY <1>2 DEF Guard, UpdateOrder, Detected, Evidence
  <2> QED BY <2>1 DEF NoFailures
<1>3. CASE i # 6
  <2>1. UpdateOrder[i] \in answered
    BY <1>1, <1>3 DEF Guard, UpdateOrder, Detected, Evidence
  <2> QED BY <2>1
<1> QED BY <1>2, <1>3

LEMMA AtQueryFacts ==
  ASSUME TypeOK, AtQuery
  PROVE  mi \in Device /\ mq \in 1 .. 7 /\ mpc = "update"
<1>1. DevCount \in Nat /\ Len(UpdateOrder) = 7
  BY ConstantsAssumption, OperatorFacts
<1> QED BY <1>1 DEF TypeOK, AtQuery, Device

LEMMA FreshSteps ==
  ASSUME NoFailures, IInv, FreshInv, [Next]_vars
  PROVE  FreshInv'
<1>0. TypeOK /\ TypeOK' /\ ReadingInv
  BY NextTypeOK DEF IInv
<1>q. \A d, q : MayFail(d, q) <=> ~CanAnswer(d, q)
  BY DEF NoFailures, MayFail
<1>1. CASE ProbeDevice
  <2>1. mi \in Device /\ mpc = "probe" /\ mpc' = "probe" /\ pass' = pass
    BY <1>0, <1>1, ConstantsAssumption DEF ProbeDevice, TypeOK, Device
  <2>2. PICK answered \in ProbeOutcome(mi), early \in ProbeOutcome(mi) :
          /\ support' = [support EXCEPT ![mi] = Detected(answered)]
          /\ reading' = [reading EXCEPT ![mi] =
                           Fill(@, answered \union (early \cap {"memory"}), pass)]
    BY <1>1 DEF ProbeDevice
  <2>3. answered \in SUBSET Query /\ \A q \in answered : CanAnswer(mi, q)
    BY DEF ProbeOutcome
  <2>p. pass = 1 /\ \A d \in Device, w \in Word :
                     reading[d][w] \in Nat /\ reading[d][w] <= pass
    BY <1>0, <2>1 DEF IInv, PassInv, ReadingInv, TypeOK
  <2>4. ASSUME NEW d \in Device, NEW i \in 1 .. 7,
               Guard[UpdateOrder[i]] \in support'[d]
        PROVE  CanAnswer(d, UpdateOrder[i])
    <3>1. CASE d = mi
      <4>1. Guard[UpdateOrder[i]] \in Detected(answered)
        BY <1>0, <2>1, <2>2, <2>4, <3>1 DEF TypeOK
      <4> QED BY <2>1, <2>3, <3>1, <4>1, DetectedCanAnswer
    <3>2. CASE d # mi
      BY <1>0, <2>1, <2>2, <2>4, <3>2 DEF TypeOK, FreshInv
    <3> QED BY <3>1, <3>2
  <2>5. ASSUME NEW d \in Device, NEW w \in Word, w \in PrintedWords(support'[d]),
               w \in LiveWord
        PROVE  DealtWith(w, reading'[d][w]) = pass
    <3>1. CASE d = mi
      <4>1. PICK f \in Detected(answered) : w \in Printed[f]
        BY <1>0, <2>1, <2>2, <2>5, <3>1 DEF PrintedWords, TypeOK
      <4>2. (\E q \in answered : w \in Fills[q]) \/ w = "clock_mem"
        BY <2>3, <4>1, EvidenceFills
      <4>3. reading'[d][w] = pass \/ (w = "clock_mem" /\ reading'[d][w] = reading[d][w])
        BY <1>0, <2>1, <2>2, <2>5, <3>1, <4>2 DEF Fill, TypeOK
      <4> QED BY <2>p, <4>3 DEF DealtWith
    <3>2. CASE d # mi
      <4>1. support'[d] = support[d] /\ reading'[d] = reading[d]
        BY <1>0, <2>1, <2>2, <3>2 DEF TypeOK
      <4> QED BY <2>1, <2>5, <4>1 DEF FreshInv, Live, Done
    <3> QED BY <3>1, <3>2
  <2>6. \A d \in Device : \A w \in Live(d)' : DealtWith(w, reading'[d][w]) = pass'
    BY <2>1, <2>5 DEF Live, LiveWord
  <2> QED BY <2>4, <2>6 DEF FreshInv
<1>2. ASSUME UNCHANGED <<support, reading>>,
             \A d \in Device : \A w \in Live(d) :
               LET k == DealtWith(w, reading[d][w]) IN
               k = pass' \/ (~Done(d, w)' /\ k = pass' - 1)
      PROVE  FreshInv'
  BY <1>2 DEF FreshInv, Live
<1>3. CASE UNCHANGED monitorVars
  BY <1>2, <1>3 DEF FreshInv, Done, monitorVars
<1>4. CASE StartServer
  BY <1>2, <1>4 DEF StartServer, FreshInv, Done
<1>5. CASE BeginPass
  <2>1. \A d \in Device, w \in Word : ~Done(d, w)'
    BY <1>5 DEF BeginPass, Done, Device
  <2>2. \A d \in Device : \A w \in Live(d) : w \in Word /\ Done(d, w)
    BY <1>5 DEF BeginPass, Done, Live, LiveWord
  <2>3. pass \in Nat /\ pass' = pass + 1
    BY <1>0, <1>5 DEF BeginPass, TypeOK
  <2> QED BY <1>2, <1>5, <2>1, <2>2, <2>3 DEF BeginPass, FreshInv
<1>6. CASE Refresh
  <2>1. /\ mi \in Device /\ mq \in 1 .. 7 /\ mpc = "update" /\ mpc' = "update"
        /\ mi' = mi /\ mq' = mq + 1 /\ pass' = pass /\ support' = support
        /\ reading' = [reading EXCEPT ![mi] = Fill(@, {UpdateOrder[mq]}, pass)]
    <3>1. mi \in Device /\ mq \in 1 .. 7 /\ mpc = "update"
      BY <1>0, <1>6, AtQueryFacts DEF Refresh
    <3> QED BY <1>6, <3>1 DEF Refresh, NextQuery
  <2>2. ASSUME NEW d \in Device, NEW w \in Live(d)
        PROVE  LET k == DealtWith(w, reading'[d][w]) IN
               k = pass \/ (~Done(d, w)' /\ k = pass - 1)
    <3>1. w \in Word
      BY DEF Live, LiveWord
    <3>2. CASE d = mi /\ w \in Fills[UpdateOrder[mq]]
      <4>1. reading'[d][w] = pass /\ pass > 0
        BY <1>0, <2>1, <3>1, <3>2 DEF Fill, TypeOK
      <4> QED BY <4>1 DEF DealtWith
    <3>3. CASE ~(d = mi /\ w \in Fills[UpdateOrder[mq]])
      <4>1. reading'[d][w] = reading[d][w]
        BY <1>0, <2>1, <3>1, <3>3 DEF Fill, TypeOK
      <4>2. Done(d, w)' => Done(d, w)
        BY <2>1, <3>3 DEF Done
      <4> QED BY <4>1, <4>2 DEF FreshInv
    <3> QED BY <3>2, <3>3
  <2> QED BY <2>1, <2>2 DEF FreshInv, Live
<1>7. CASE RefreshFails
  <2>1. mi \in Device /\ mq \in 1 .. 7
    BY <1>0, <1>7, AtQueryFacts DEF RefreshFails
  <2>2. Guard[UpdateOrder[mq]] \in support[mi] /\ MayFail(mi, UpdateOrder[mq])
    BY <1>7 DEF RefreshFails
  <2>3. ~CanAnswer(mi, UpdateOrder[mq])
    BY <1>q, <2>2, Zenon
  <2> QED BY <2>1, <2>2, <2>3 DEF FreshInv
<1>8. CASE SkipQuery
  <2>1. /\ mi \in Device /\ mq \in 1 .. 7 /\ mpc = "update" /\ mpc' = "update"
        /\ mi' = mi /\ mq' = mq + 1 /\ pass' = pass
        /\ UNCHANGED <<support, reading>>
        /\ Guard[UpdateOrder[mq]] \notin support[mi]
    <3>1. mi \in Device /\ mq \in 1 .. 7 /\ mpc = "update"
      BY <1>0, <1>8, AtQueryFacts DEF SkipQuery
    <3> QED BY <1>8, <3>1 DEF SkipQuery, NextQuery
  <2>2. ASSUME NEW d \in Device, NEW w \in Live(d), Done(d, w)'
        PROVE  Done(d, w)
    <3>1. ~(d = mi /\ w \in Fills[UpdateOrder[mq]])
      BY <1>0, <2>1, OrderFacts DEF Live, TypeOK
    <3> QED BY <2>1, <2>2, <3>1 DEF Done
  <2> QED BY <1>2, <2>1, <2>2 DEF FreshInv
<1>9. CASE NextDevice
  <2>1. /\ mi \in Device /\ mpc = "update" /\ mpc' = "update" /\ mi' = mi + 1
        /\ mq = 8 /\ mq' = 1 /\ pass' = pass /\ UNCHANGED <<support, reading>>
    <3>1. DevCount \in Nat /\ Len(UpdateOrder) = 7
      BY ConstantsAssumption, OperatorFacts
    <3>2. mi \in Device /\ mq = 8
      BY <1>0, <1>9, <3>1 DEF NextDevice, TypeOK, Device
    <3> QED BY <1>9, <3>2 DEF NextDevice
  <2>2. ASSUME NEW d \in Device, NEW w \in Live(d), Done(d, w)'
        PROVE  Done(d, w)
    <3>1. d < mi \/ d = mi
      BY <2>1, <2>2 DEF Done, Device
    <3>2. w \in LiveWord
      BY DEF Live
    <3>3. \E i \in 1 .. 7 : w \in Fills[UpdateOrder[i]]
      BY <3>2, OrderFacts
    <3> QED BY <2>1, <3>1, <3>3 DEF Done
  <2> QED BY <1>2, <2>1, <2>2 DEF FreshInv
<1>10. CASE EndPass
  <2>1. \A d \in Device, w \in Word : Done(d, w)
    BY <1>10, ConstantsAssumption DEF EndPass, Done, Device
  <2>2. \A d \in Device : \A w \in Live(d) : DealtWith(w, reading[d][w]) = pass
    BY <2>1 DEF FreshInv, Live, LiveWord
  <2> QED BY <1>2, <1>10, <2>2 DEF EndPass
<1>11. CASE \E c \in Client : \/ \E uri \in {"init", "update"} : BeginRequest(c, uri)
                              \/ Handler(c)
  BY <1>3, <1>11 DEF BeginRequest, Handler, SendFeatures, EndInit, CopyWord,
                     NextCopy, EndUpdate
<1> QED BY <1>1, <1>3, <1>4, <1>5, <1>6, <1>7, <1>8, <1>9, <1>10, <1>11
        DEF Next, Monitor, vars, monitorVars

LEMMA FreshInit == Init => FreshInv
  BY DEF Init, FreshInv, Live, PrintedWords, NoWords

\* While no query fails, whether or not NVML takes NVML_CLOCK_COUNT, after every
\* pass but the first all readings that passes refresh date from it: the features
\* detected are queries NVML answers, and update_device_info makes each of them
\* for each device.
THEOREM LastUpdateIsTrue ==
  ASSUME NoFailures
  PROVE  Spec => []LastUpdateDatesReadings
<1>1. IInv /\ FreshInv => LastUpdateDatesReadings
  BY DEF IInv, PassInv, FreshInv, LastUpdateDatesReadings, Live, Done, DealtWith
<1> QED BY <1>1, FreshInit, FreshSteps, Invariance, PTL DEF Spec
\* A handler has copied nothing of the devices above its index; what it copied
\* is at most a pass ahead of everything still to copy, and of what it copied
\* of the devices after.
SkewInv ==
  /\ \A c \in Client, d \in Device :
       cpc[c] = "update" /\ ci[c] < d => copied[c][d] = {}
  /\ \A c \in Client, d, e \in Device :
       \A v \in copied[c][d] \cap LiveWord, w \in Live(e) :
         got[c][d][v] <= DealtWith(w, reading[e][w]) + 1
  /\ \A c \in Client, d, e \in Device :
       d < e => \A v \in copied[c][d] \cap LiveWord, w \in copied[c][e] \cap LiveWord :
                  got[c][d][v] <= DealtWith(w, got[c][e][w]) + 1
  /\ SkewBound

\* The steps that leave copies and replies alone, once replies exist.
LEMMA SkewQuiet ==
  ASSUME TypeOK, TypeOK', SkewInv, UNCHANGED <<support, copied, got, seen>>,
         \A d \in Device, w \in Word : reading[d][w] <= reading'[d][w],
         \A c \in Client : cpc'[c] = "update" =>
           \/ cpc[c] = "update" /\ ci'[c] >= ci[c]
           \/ copied[c] = NoWords
  PROVE  SkewInv'
<1>1. ASSUME NEW c \in Client, NEW d \in Device, cpc'[c] = "update", ci'[c] < d
      PROVE  copied'[c][d] = {}
  <2>1. ci[c] \in Nat /\ ci'[c] \in Nat /\ d \in Nat
    BY ConstantsAssumption DEF TypeOK, Device
  <2>2. CASE cpc[c] = "update" /\ ci'[c] >= ci[c]
    <3>1. ci[c] < d
      BY <1>1, <2>1, <2>2
    <3> QED BY <2>2, <3>1 DEF SkewInv
  <2>3. CASE copied[c] = NoWords
    BY <2>3 DEF NoWords
  <2> QED BY <1>1, <2>2, <2>3
<1>2. ASSUME NEW c \in Client, NEW d \in Device, NEW e \in Device,
             NEW v \in copied'[c][d] \cap LiveWord, NEW w \in Live(e)'
      PROVE  got'[c][d][v] <= DealtWith(w, reading'[e][w]) + 1
  <2>1. v \in copied[c][d] \cap LiveWord /\ w \in Live(e) /\ v \in Word /\ w \in Word
    BY DEF Live, LiveWord
  <2>2. got[c][d][v] <= DealtWith(w, reading[e][w]) + 1 /\ reading[e][w] <= reading'[e][w]
    BY <2>1 DEF SkewInv
  <2>3. got[c][d][v] \in Nat /\ reading[e][w] \in Nat /\ reading'[e][w] \in Nat
    BY <2>1 DEF TypeOK
  <2> QED BY <2>2, <2>3 DEF DealtWith
<1>3. SkewBound'
  BY DEF SkewInv, SkewBound
<1> QED BY <1>1, <1>2, <1>3 DEF SkewInv

LEMMA SkewSteps ==
  ASSUME IInv, FreshInv, SkewInv, [Next]_vars
  PROVE  SkewInv'
<1>0. TypeOK /\ TypeOK' /\ DevCount \in Nat
  BY NextTypeOK, ConstantsAssumption DEF IInv
<1>r. \A d \in Device, w \in Word : reading[d][w] \in Nat /\ reading'[d][w] \in Nat
  BY <1>0 DEF TypeOK
<1>1. CASE ProbeDevice
  <2>1. \A c \in Client : /\ cpc'[c] = "idle" /\ copied'[c] = NoWords
                          /\ seen'[c] = NoReply
    BY <1>1 DEF ProbeDevice, clientVars, IInv, QuietInv, IdleInv
  <2> QED BY <2>1 DEF SkewInv, SkewBound, NoWords, NoReply
<1>2. CASE Refresh
  <2>1. mi \in Device /\ mq \in 1 .. 7
    BY <1>0, <1>2, AtQueryFacts DEF Refresh
  <2>2. reading' = [reading EXCEPT ![mi] = Fill(@, {UpdateOrder[mq]}, pass)]
    BY <1>2 DEF Refresh
  <2>3. \A d \in Device, w \in Word : reading[d][w] <= reading'[d][w]
    <3> SUFFICES ASSUME NEW d \in Device, NEW w \in Word
                 PROVE  reading[d][w] <= reading'[d][w]
      OBVIOUS
    <3>1. reading'[d][w] = reading[d][w] \/ reading'[d][w] = pass
      BY <1>0, <2>1, <2>2 DEF Fill, TypeOK
    <3>2. reading[d][w] <= pass
      BY DEF IInv, ReadingInv
    <3> QED BY <1>r, <3>1, <3>2
  <2>4. UNCHANGED <<support, copied, got, seen, cpc, ci>>
    BY <1>2 DEF Refresh, NextQuery, clientVars
  <2>5. \A c \in Client : ci[c] \in Nat
    BY <1>0 DEF TypeOK
  <2> QED BY <1>0, <2>3, <2>4, <2>5, SkewQuiet
<1>3. ASSUME UNCHANGED <<support, reading, copied, got, seen>>,
             \A c \in Client : cpc'[c] = "update" =>
               \/ cpc[c] = "update" /\ ci'[c] >= ci[c]
               \/ copied[c] = NoWords
      PROVE  SkewInv'
  BY <1>0, <1>3, <1>r, SkewQuiet
<1>4. CASE UNCHANGED <<support, reading>> /\ UNCHANGED clientVars
  <2>1. \A c \in Client : ci[c] \in Nat
    BY <1>0 DEF TypeOK
  <2> QED BY <1>3, <1>4, <2>1 DEF clientVars
<1>5. CASE StartServer \/ BeginPass \/ RefreshFails \/ SkipQuery \/ NextDevice \/ EndPass
  BY <1>4, <1>5
  DEF StartServer, BeginPass, RefreshFails, SkipQuery, NextQuery, NextDevice, EndPass
<1>6. ASSUME NEW c \in Client, NEW uri \in {"init", "update"}, BeginRequest(c, uri)
      PROVE  SkewInv'
  <2>1. copied[c] = NoWords
    BY <1>6 DEF BeginRequest, IInv, IdleInv
  <2>2. \A a \in Client : a # c => cpc'[a] = cpc[a] /\ ci'[a] = ci[a] /\ ci[a] \in Nat
    BY <1>0, <1>6 DEF BeginRequest, TypeOK
  <2> QED BY <1>3, <1>6, <2>1, <2>2 DEF BeginRequest, monitorVars
<1>7. ASSUME NEW c \in Client, SendFeatures(c) \/ EndInit(c)
      PROVE  SkewInv'
  <2>1. cpc'[c] # "update"
    BY <1>0, <1>7 DEF SendFeatures, EndInit, TypeOK
  <2>2. \A a \in Client : a # c => cpc'[a] = cpc[a] /\ ci'[a] = ci[a] /\ ci[a] \in Nat
    BY <1>0, <1>7 DEF SendFeatures, EndInit, TypeOK
  <2> QED BY <1>3, <1>7, <2>1, <2>2 DEF SendFeatures, EndInit, monitorVars
<1>8. ASSUME NEW c \in Client, NextCopy(c)
      PROVE  SkewInv'
  <2>1. \A a \in Client : cpc'[a] = cpc[a] /\ ci'[a] >= ci[a]
    BY <1>0, <1>8 DEF NextCopy, TypeOK
  <2> QED BY <1>3, <1>8, <2>1 DEF NextCopy, monitorVars
<1>9. ASSUME NEW c \in Client, NEW w \in Word, CopyWord(c, w)
      PROVE  SkewInv'
  <2> DEFINE d == ci[c]
  <2>1. /\ d \in Device /\ cpc[c] = "update" /\ w \in PrintedWords(support[d])
        /\ copied' = [copied EXCEPT ![c][d] = @ \union {w}]
        /\ got' = [got EXCEPT ![c][d][w] = reading[d][w]]
        /\ UNCHANGED <<support, reading, cpc, ci, seen>>
    BY <1>0, <1>9 DEF CopyWord, TypeOK, Device, monitorVars
  <2> HIDE DEF d
  <2>2. /\ copied'[c][d] = copied[c][d] \union {w}
        /\ got'[c][d][w] = reading[d][w]
        /\ \A x \in Word : x # w => got'[c][d][x] = got[c][d][x]
    <3>1. /\ copied'[c] = [copied[c] EXCEPT ![d] = @ \union {w}]
          /\ got'[c] = [got[c] EXCEPT ![d][w] = reading[d][w]]
      BY <1>0, <2>1 DEF TypeOK
    <3>2. got'[c][d] = [got[c][d] EXCEPT ![w] = reading[d][w]]
      BY <1>0, <2>1, <3>1 DEF TypeOK
    <3> QED BY <1>0, <2>1, <3>1, <3>2 DEF TypeOK
  <2>3. \A a \in Client, e \in Device :
          a # c \/ e # d => copied'[a][e] = copied[a][e] /\ got'[a][e] = got[a][e]
    <3>1. \A a \in Client : a # c => copied'[a] = copied[a] /\ got'[a] = got[a]
      BY <1>0, <2>1 DEF TypeOK
    <3>2. /\ copied'[c] = [copied[c] EXCEPT ![d] = @ \union {w}]
          /\ got'[c] = [got[c] EXCEPT ![d][w] = reading[d][w]]
      BY <1>0, <2>1 DEF TypeOK
    <3>3. \A e \in Device : e # d =>
            copied'[c][e] = copied[c][e] /\ got'[c][e] = got[c][e]
      BY <1>0, <2>1, <3>2 DEF TypeOK
    <3> QED BY <3>1, <3>3
  <2>4. \A e \in Device : \A x \in Live(e) : pass <= DealtWith(x, reading[e][x]) + 1
    <3> SUFFICES ASSUME NEW e \in Device, NEW x \in Live(e)
                 PROVE  pass <= DealtWith(x, reading[e][x]) + 1
      OBVIOUS
    <3>1. /\ pass \in Nat
          /\ LET k == DealtWith(x, reading[e][x]) IN k = pass \/ k = pass - 1
      BY <1>0 DEF FreshInv, TypeOK
    <3> QED BY <3>1
  <2>5. reading[d][w] <= pass /\ pass \in Nat
    BY <1>0, <2>1 DEF IInv, ReadingInv, TypeOK
  <2>6. \A a \in Client, e \in Device :
          \A x \in copied[a][e] \union copied'[a][e] :
            x \in Word /\ got[a][e][x] \in Nat /\ got'[a][e][x] \in Nat
    <3>1. \A a \in Client, e \in Device :
            /\ copied[a][e] \subseteq Word /\ copied'[a][e] \subseteq Word
            /\ got[a][e] \in [Word -> Nat] /\ got'[a][e] \in [Word -> Nat]
      <4>1. /\ copied \in [Client -> [Device -> SUBSET Word]]
            /\ got \in [Client -> [Device -> [Word -> Nat]]]
        BY <1>0 DEF TypeOK
      <4>2. /\ copied' \in [Client -> [Device -> SUBSET Word]]
            /\ got' \in [Client -> [Device -> [Word -> Nat]]]
        BY <1>0 DEF TypeOK
      <4> QED BY <4>1, <4>2
    <3> QED BY <3>1
  <2>7. ASSUME NEW a \in Client, NEW e \in Device, cpc'[a] = "update", ci'[a] < e
        PROVE  copied'[a][e] = {}
    <3>1. a # c \/ e # d
      BY <1>0, <2>1, <2>7 DEF d, Device
    <3> QED BY <2>1, <2>3, <2>7, <3>1 DEF SkewInv
  <2>8. ASSUME NEW a \in Client, NEW e \in Device, NEW f \in Device,
               NEW v \in copied'[a][e] \cap LiveWord, NEW x \in Live(f)'
        PROVE  got'[a][e][v] <= DealtWith(x, reading'[f][x]) + 1
    <3>1. x \in Live(f) /\ x \in Word /\ reading' = reading
      BY <2>1, <2>8 DEF Live, LiveWord
    <3>2. CASE a = c /\ e = d /\ v = w
      <4>1. reading[d][w] \in Nat /\ reading[f][x] \in Nat
        BY <1>r, <2>1, <3>1
      <4>2. pass <= DealtWith(x, reading[f][x]) + 1 /\ DealtWith(x, reading[f][x]) \in Nat
        BY <2>4, <3>1, <4>1 DEF DealtWith
      <4> QED BY <2>2, <2>5, <3>1, <3>2, <4>1, <4>2
    <3>3. CASE ~(a = c /\ e = d /\ v = w)
      <4>1. v \in copied[a][e] \cap LiveWord /\ got'[a][e][v] = got[a][e][v]
        BY <2>2, <2>3, <2>6, <3>3
      <4> QED BY <3>1, <4>1 DEF SkewInv
    <3> QED BY <3>2, <3>3
  <2>9. ASSUME NEW a \in Client, NEW e \in Device, NEW f \in Device, e < f,
               NEW v \in copied'[a][e] \cap LiveWord,
               NEW x \in copied'[a][f] \cap LiveWord
        PROVE  got'[a][e][v] <= DealtWith(x, got'[a][f][x]) + 1
    <3>1. CASE a = c /\ e = d
      <4>1. copied'[a][f] = copied[a][f] /\ copied[a][f] = {}
        BY <2>1, <2>3, <2>9, <3>1, <1>0 DEF SkewInv, d, Device
      <4> QED BY <4>1
    <3>2. CASE a = c /\ f = d /\ x = w
      <4>1. copied'[a][e] = copied[a][e] /\ got'[a][e] = got[a][e]
        BY <1>0, <2>3, <2>9, <3>2 DEF Device
      <4>2. x \in Live(f) /\ got'[a][f][x] = reading[f][x]
        BY <2>1, <2>2, <2>9, <3>2 DEF Live
      <4> QED BY <2>9, <4>1, <4>2 DEF SkewInv
    <3>3. CASE ~(a = c /\ e = d) /\ ~(a = c /\ f = d /\ x = w)
      <4>1. /\ v \in copied[a][e] \cap LiveWord /\ got'[a][e][v] = got[a][e][v]
            /\ x \in copied[a][f] \cap LiveWord /\ got'[a][f][x] = got[a][f][x]
        BY <2>2, <2>3, <2>6, <3>3
      <4> QED BY <2>9, <4>1 DEF SkewInv
    <3> QED BY <3>1, <3>2, <3>3
  <2>10. SkewBound'
    BY <2>1 DEF SkewInv, SkewBound
  <2> QED BY <2>7, <2>8, <2>9, <2>10 DEF SkewInv
<1>10. ASSUME NEW c \in Client, EndUpdate(c)
       PROVE  SkewInv'
  <2>1. /\ seen'[c].words = copied[c] /\ seen'[c].value = got[c]
        /\ copied'[c] = NoWords /\ cpc'[c] = "idle"
        /\ UNCHANGED <<support, reading>>
    BY <1>0, <1>10 DEF EndUpdate, monitorVars, TypeOK
  <2>2. \A a \in Client : a # c =>
          /\ seen'[a] = seen[a] /\ copied'[a] = copied[a] /\ got'[a] = got[a]
          /\ cpc'[a] = cpc[a] /\ ci'[a] = ci[a]
    BY <1>0, <1>10 DEF EndUpdate, TypeOK
  <2>3. SkewBound'
    BY <2>1, <2>2 DEF SkewInv, SkewBound
  <2>4. \A a \in Client, d \in Device : \A v \in copied'[a][d] : a # c
    BY <2>1 DEF NoWords
  <2>5. \A a \in Client, d \in Device :
          cpc'[a] = "update" /\ ci'[a] < d => copied'[a][d] = {}
    BY <2>1, <2>2 DEF SkewInv
  <2> QED BY <2>1, <2>2, <2>3, <2>4, <2>5 DEF SkewInv, Live
<1> QED BY <1>1, <1>2, <1>4, <1>5, <1>6, <1>7, <1>8, <1>9, <1>10
        DEF Next, Monitor, Handler, vars, clientVars

\* While no query fails, whether or not NVML takes NVML_CLOCK_COUNT, a device
\* printed later in a reply is at most one pass behind a device printed earlier,
\* for any number of devices, whatever each of them can answer, and however long
\* the handler takes from one to the other.  Where NVML takes it, a memory clock
\* that only pass 1 has dealt with is still the memset's zero.
THEOREM DevicesAreClose ==
  ASSUME NoFailures
  PROVE  Spec => []SkewBound
<1>1. Init => SkewInv
  BY DEF Init, SkewInv, SkewBound, NoWords, NoReply
<1>2. SkewInv => SkewBound
  BY DEF SkewInv
<1> QED BY <1>1, <1>2, FreshInit, FreshSteps, SkewSteps, Invariance, PTL DEF Spec
-----------------------------------------------------------------------------
(***************************************************************************)
(* Telemetry implements Registers.  A reply is made in as many steps as it *)
(* has words, while the monitor goes on; all but the last are stutters.    *)
(* IInv says that what they have put together is, at the last one, a reply *)
(* that Registers could have made in that step.                            *)
(***************************************************************************)

\* What the monitor does to the registers.
LEMMA MonitorGrows ==
  ASSUME IInv, Monitor
  PROVE  /\ UNCHANGED clientVars /\ lastUpdate <= lastUpdate'
         /\ \A d \in Device, w \in Word : reading[d][w] <= reading'[d][w]
         /\ mpc # "probe" => mpc' # "probe" /\ UNCHANGED support
<1>1. TypeOK /\ ReadingInv /\ PassInv /\ pass \in Nat /\ lastUpdate \in Nat
  BY DEF IInv, TypeOK
<1>2. CASE ProbeDevice
  <2>1. mi \in Device
    BY <1>1, <1>2, ConstantsAssumption DEF ProbeDevice, TypeOK, Device
  <2>2. PICK stored : reading' = [reading EXCEPT ![mi] = Fill(@, stored, pass)]
    BY <1>2 DEF ProbeDevice
  <2>3. \A d \in Device, w \in Word : reading[d][w] <= reading'[d][w]
    BY <1>1, <2>1, <2>2, StoreGrows
  <2>4. UNCHANGED <<lastUpdate, mpc>> /\ UNCHANGED clientVars /\ mpc = "probe"
    BY <1>2 DEF ProbeDevice
  <2> QED BY <1>1, <2>3, <2>4
<1>3. CASE Refresh
  <2>1. mi \in Device
    BY <1>1, <1>3, ConstantsAssumption DEF Refresh, AtQuery, TypeOK, Device
  <2>2. PICK stored : reading' = [reading EXCEPT ![mi] = Fill(@, stored, pass)]
    BY <1>3 DEF Refresh
  <2>3. \A d \in Device, w \in Word : reading[d][w] <= reading'[d][w]
    BY <1>1, <2>1, <2>2, StoreGrows
  <2>4. UNCHANGED <<lastUpdate, mpc, support>> /\ UNCHANGED clientVars
    BY <1>3 DEF Refresh, NextQuery
  <2> QED BY <1>1, <2>3, <2>4
<1>4. CASE UNCHANGED reading /\ Monitor /\ ~ProbeDevice /\ ~Refresh
  <2>1. \A d \in Device, w \in Word : reading[d][w] <= reading'[d][w]
    BY <1>1, <1>4 DEF TypeOK
  <2>2. /\ UNCHANGED clientVars /\ UNCHANGED support
        /\ mpc # "probe" => mpc' # "probe"
        /\ lastUpdate' = lastUpdate \/ lastUpdate' = pass
    BY <1>4 DEF Monitor, StartServer, BeginPass, RefreshFails, SkipQuery, NextDevice,
         EndPass, AtQuery, NextQuery
  <2> QED BY <1>1, <2>1, <2>2 DEF PassInv
<1>5. Monitor /\ ~ProbeDevice /\ ~Refresh => UNCHANGED reading
  BY DEF Monitor, StartServer, BeginPass, RefreshFails, SkipQuery, NextDevice,
     EndPass, NextQuery
<1> QED BY <1>2, <1>3, <1>4, <1>5

LEMMA InitRefines == Init => Reg!Init
<1> SUFFICES ASSUME Init PROVE Reg!Init
  OBVIOUS
<1>1. PrintedWords({}) = {}
  BY DEF PrintedWords
<1>2. mpc = "probe" /\ support = NoWords /\ reading = Zeroed /\ lastUpdate = 0
  BY DEF Init
<1>3. \A c \in Client : /\ cpc[c] = "idle" /\ known[c] = NoWords
                        /\ \A d \in Device : known[c][d] = {}
  BY DEF Init, NoWords
<1>4. seen = [c \in Client |-> NoReply]
  BY DEF Init
<1>5. [d \in Device |-> PrintedWords(support[d])] = [d \in Device |-> {}]
  BY <1>1, <1>2 DEF NoWords
<1>6. [c \in Client |-> [d \in Device |-> PrintedWords(known[c][d])]]
        = [c \in Client |-> [d \in Device |-> {}]]
  BY <1>1, <1>3
<1>7. /\ {c \in Client : cpc[c] = "update"} = {}
      /\ [c \in Client |-> IF cpc[c] = "update" THEN floor[c] ELSE Zeroed]
           = [c \in Client |-> Zeroed]
  BY <1>3
<1> QED BY <1>2, <1>4, <1>5, <1>6, <1>7
        DEF Reg!Init, Reg!Zero, Reg!Nothing, Zeroed, NoWords, NoReply

LEMMA MonitorRefines ==
  ASSUME IInv, IInv', Monitor
  PROVE  Reg!Prepare \/ Reg!Measure
<1>1. /\ UNCHANGED clientVars /\ lastUpdate <= lastUpdate'
      /\ \A d \in Device, w \in Word : reading[d][w] <= reading'[d][w]
      /\ mpc # "probe" => mpc' # "probe" /\ UNCHANGED support
  BY MonitorGrows
<1>2. TypeOK /\ TypeOK' /\ ReadingInv' /\ PassInv'
  BY DEF IInv
<1>3. Reg!Grow
  <2>1. reading' \in Reg!Values /\ lastUpdate' \in Nat /\ lastUpdate \in Nat
    BY <1>2 DEF TypeOK, Reg!Values
  <2>2. ASSUME NEW d \in Device, NEW w \in Word
        PROVE  reading'[d][w] \in reading[d][w] .. lastUpdate' + 1
    <3>1. /\ reading[d][w] \in Nat /\ reading'[d][w] \in Nat
          /\ pass' \in Nat /\ lastUpdate' \in Nat
      BY <1>2 DEF TypeOK
    <3>2. reading'[d][w] <= pass' /\ pass' <= lastUpdate' + 1
      BY <1>2 DEF ReadingInv, PassInv
    <3>3. reading[d][w] <= reading'[d][w]
      BY <1>1
    <3>4. ASSUME NEW a \in Nat, NEW b \in Nat, NEW p \in Nat, NEW t \in Nat,
                 a <= b, b <= p, p <= t + 1
          PROVE  b \in a .. t + 1
      BY <3>4
    <3> QED BY <3>1, <3>2, <3>3, <3>4
  <2>3. lastUpdate' >= lastUpdate
    BY <1>1, <2>1
  <2> QED BY <2>1, <2>2, <2>3 DEF Reg!Grow
<1>4. UNCHANGED Reg!polling
  BY <1>1 DEF clientVars, Reg!polling
<1>5. CASE mpc = "probe"
  <2>1. [d \in Device |-> PrintedWords(support[d])]' \in Reg!Keys
    BY <1>2, PrintedAreWords DEF TypeOK, Reg!Keys
  <2> QED BY <1>3, <1>4, <1>5, <2>1 DEF Reg!Prepare
<1>6. CASE mpc # "probe"
  BY <1>1, <1>3, <1>4, <1>6 DEF Reg!Measure, Reg!settled
<1> QED BY <1>5, <1>6

\* The steps of the handler of one client: a request that begins or ends is one
\* of the registers, what lies between is none.
LEMMA BeginRefines ==
  ASSUME IInv, NEW c \in Client, NEW uri \in {"init", "update"}, BeginRequest(c, uri)
  PROVE  Reg!Ask(c) \/ UNCHANGED Reg!registerVars
<1> DEFINE asking == {e \in Client : cpc[e] = "update"}
<1> DEFINE mask   == [e \in Client |-> IF cpc[e] = "update" THEN floor[e] ELSE Zeroed]
<1>1. TypeOK
  BY DEF IInv
<1>2. /\ mpc # "probe" /\ cpc[c] = "idle"
      /\ UNCHANGED <<known, seen>> /\ UNCHANGED monitorVars
  BY DEF BeginRequest
<1>3. /\ cpc'[c] = uri /\ floor'[c] = reading
      /\ \A e \in Client \ {c} : cpc'[e] = cpc[e] /\ floor'[e] = floor[e]
  BY <1>1 DEF BeginRequest, TypeOK
<1>4. CASE uri = "update"
  <2>1. c \notin asking /\ asking' = asking \union {c}
    BY <1>2, <1>3, <1>4
  <2>2. mask' = [mask EXCEPT ![c] = reading]
    BY <1>3, <1>4
  <2> QED BY <1>2, <2>1, <2>2 DEF Reg!Ask, Reg!settled, Reg!live, monitorVars
<1>5. CASE uri = "init"
  <2>1. asking' = asking
    BY <1>2, <1>3, <1>5
  <2>2. mask' = mask
    BY <1>2, <1>3, <1>5
  <2> QED BY <1>2, <2>1, <2>2 DEF Reg!registerVars, monitorVars
<1> QED BY <1>4, <1>5

LEMMA SendFeaturesRefines ==
  ASSUME IInv, NEW c \in Client, SendFeatures(c)
  PROVE  Reg!Tell(c, ci[c])
<1> DEFINE told == [e \in Client |-> [d \in Device |-> PrintedWords(known[e][d])]]
<1> DEFINE shown == [d \in Device |-> PrintedWords(support[d])]
<1>1. TypeOK /\ ci[c] \in Device
  <2>1. TypeOK /\ ci[c] < DevCount
    BY DEF IInv, SendFeatures
  <2>2. ci[c] \in 0 .. DevCount /\ DevCount \in Nat
    BY <2>1, ConstantsAssumption DEF TypeOK
  <2> QED BY <2>1, <2>2 DEF Device
<1>2. /\ cpc[c] = "init" /\ mpc # "probe"
      /\ UNCHANGED <<cpc, floor, seen>> /\ UNCHANGED monitorVars
  BY DEF SendFeatures, IInv, QuietInv
<1>3. known' = [known EXCEPT ![c] = [known[c] EXCEPT ![ci[c]] = support[ci[c]]]]
  BY DEF SendFeatures
<1>4. told' = [told EXCEPT ![c] = [told[c] EXCEPT ![ci[c]] = shown[ci[c]]]]
  BY <1>1, <1>3 DEF TypeOK
<1> QED BY <1>2, <1>4 DEF Reg!Tell, Reg!settled, Reg!live, monitorVars

LEMMA QuietRefines ==
  ASSUME IInv, NEW c \in Client,
         EndInit(c) \/ (\E w \in Word : CopyWord(c, w)) \/ NextCopy(c)
  PROVE  UNCHANGED Reg!registerVars
<1> DEFINE asking == {e \in Client : cpc[e] = "update"}
<1> DEFINE mask   == [e \in Client |-> IF cpc[e] = "update" THEN floor[e] ELSE Zeroed]
<1>1. /\ UNCHANGED <<known, seen>> /\ UNCHANGED monitorVars
      /\ UNCHANGED <<cpc, floor>> \/ EndInit(c)
  BY DEF EndInit, CopyWord, NextCopy
<1>2. asking' = asking /\ mask' = mask
  <2>1. CASE UNCHANGED <<cpc, floor>>
    BY <2>1
  <2>2. CASE EndInit(c)
    <3>1. /\ cpc[c] = "init" /\ cpc'[c] = "idle"
          /\ \A e \in Client \ {c} : cpc'[e] = cpc[e] /\ floor'[e] = floor[e]
      BY <2>2 DEF EndInit, IInv, TypeOK
    <3> QED BY <3>1
  <2> QED BY <1>1, <2>1, <2>2
<1> QED BY <1>1, <1>2 DEF Reg!registerVars, monitorVars

LEMMA EndUpdateRefines ==
  ASSUME IInv, NEW c \in Client, EndUpdate(c)
  PROVE  Reg!Reply(c)
<1> DEFINE asking == {e \in Client : cpc[e] = "update"}
<1> DEFINE mask   == [e \in Client |-> IF cpc[e] = "update" THEN floor[e] ELSE Zeroed]
<1> DEFINE shown  == [d \in Device |-> PrintedWords(support[d])]
<1>1. TypeOK /\ WithinRequest
  BY DEF IInv
<1>2. cpc[c] = "update" /\ UNCHANGED known /\ UNCHANGED monitorVars
  BY DEF EndUpdate
<1>3. /\ cpc'[c] = "idle" /\ floor'[c] = Zeroed
      /\ \A e \in Client \ {c} : cpc'[e] = cpc[e] /\ floor'[e] = floor[e]
  BY <1>1 DEF EndUpdate, TypeOK
<1>4. c \in asking /\ asking' = asking \ {c} /\ mask' = [mask EXCEPT ![c] = Zeroed]
  BY <1>2, <1>3
<1>5. copied[c] = shown
  <2>1. \A d \in Device : copied[c][d] = PrintedWords(support[d])
    BY CompleteCopies DEF EndUpdate
  <2> QED BY <1>1, <2>1 DEF TypeOK
<1>6. /\ seen'[c] = [time |-> lastUpdate, words |-> shown, value |-> got[c]]
      /\ seen' = [seen EXCEPT ![c] = seen'[c]]
  BY <1>1, <1>5 DEF EndUpdate, TypeOK
<1>7. seen'[c] \in Reg!Answers(c)
  <2>1. got[c] \in Reg!Values /\ mask[c] = floor[c]
    BY <1>1, <1>2 DEF TypeOK, Reg!Values
  <2>2. ASSUME NEW d \in Device, NEW w \in shown[d]
        PROVE  got[c][d][w] \in mask[c][d][w] .. reading[d][w]
    <3>1. w \in copied[c][d] /\ w \in Word
      BY <1>1, <1>5, <2>2 DEF TypeOK
    <3>2. /\ floor[c][d][w] <= got[c][d][w] /\ got[c][d][w] <= reading[d][w]
          /\ floor[c][d][w] \in Nat /\ got[c][d][w] \in Nat /\ reading[d][w] \in Nat
      BY <1>1, <3>1 DEF WithinRequest, TypeOK
    <3> QED BY <2>1, <3>2
  <2> QED BY <1>6, <2>1, <2>2 DEF Reg!Answers
<1>8. Reg!Zero = Zeroed
  BY DEF Reg!Zero, Zeroed
<1> QED BY <1>2, <1>4, <1>6, <1>7, <1>8
        DEF Reg!Reply, Reg!settled, Reg!live, monitorVars

\* The monitor and the handlers implement Registers, for any devices, clients and
\* failures: each reply that ajax_send_update puts together word by word, while the
\* monitor goes on, could have been made in one step.
THEOREM TelemetryImplementsRegisters == Spec => ImplementsRegisters
<1>1. Init => Reg!Init
  BY InitRefines
<1>2. IInv /\ IInv' /\ [Next]_vars => [Reg!Next]_(Reg!registerVars)
  <2> SUFFICES ASSUME IInv, IInv', [Next]_vars
               PROVE  Reg!Next \/ UNCHANGED Reg!registerVars
    OBVIOUS
  <2>1. CASE UNCHANGED vars
    BY <2>1 DEF vars, Reg!registerVars
  <2>2. CASE Monitor
    BY <2>2, MonitorRefines DEF Reg!Next
  <2>3. ASSUME NEW c \in Client, NEW uri \in {"init", "update"}, BeginRequest(c, uri)
        PROVE  Reg!Next \/ UNCHANGED Reg!registerVars
    BY <2>3, BeginRefines DEF Reg!Next
  <2>4. ASSUME NEW c \in Client, Handler(c)
        PROVE  Reg!Next \/ UNCHANGED Reg!registerVars
    <3>1. CASE SendFeatures(c)
      <4>1. ci[c] \in Device
        BY <3>1, ConstantsAssumption DEF IInv, TypeOK, SendFeatures, Device
      <4> QED BY <3>1, <4>1, SendFeaturesRefines DEF Reg!Next
    <3>2. CASE EndUpdate(c)
      BY <3>2, EndUpdateRefines DEF Reg!Next
    <3>3. CASE EndInit(c) \/ (\E w \in Word : CopyWord(c, w)) \/ NextCopy(c)
      BY <3>3, QuietRefines
    <3> QED BY <2>4, <3>1, <3>2, <3>3 DEF Handler
  <2> QED BY <2>1, <2>2, <2>3, <2>4 DEF Next
<1> QED BY <1>1, <1>2, Invariance, PTL DEF Spec, ImplementsRegisters, Reg!Spec
=============================================================================
