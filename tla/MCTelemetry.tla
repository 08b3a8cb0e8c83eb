---------------------------- MODULE MCTelemetry ----------------------------
(***************************************************************************)
(* Instances of Telemetry for TLC: two devices that differ in what they    *)
(* can answer.                                                             *)
(***************************************************************************)
EXTENDS Telemetry, TLC

\* Device 0 reports memory (three words); device 1 utilization and
\* temperature.
MixedCapable == 0 :> {"memory"} @@ 1 :> {"temperature", "util"}

\* Device 0 reports its fan and its temperature, device 1 all clock domains: a
\* handler can copy device 1 before pass 2 reads its memory clock.
ClockCapable == 0 :> {"fan", "temperature"} @@ 1 :> {"graphics", "sm", "mem", "count"}
=============================================================================
