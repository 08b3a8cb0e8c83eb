------------------------------ MODULE MCClient ------------------------------
(***************************************************************************)
(* Instances of Client for TLC: a daemon of one device, of two, and of two *)
(* of which the first has nothing to draw.                                 *)
(***************************************************************************)
EXTENDS Client, TLC

MCFleets ==
  { 0 :> {"memory"},
    0 :> {"memory"} @@ 1 :> {"memory", "fan"},
    0 :> {} @@ 1 :> {"fan"} }
=============================================================================
