---------------------------- MODULE MCNavCycles ----------------------------
(***************************************************************************)
(* The periods scaled down, keeping the tie between SERVICER and P22; the  *)
(* longer ones of P02 and P23 are one longer period.                       *)
(***************************************************************************)
EXTENDS NavCycles

MCPeriod == [t \in Tasks |-> IF t \in {"p02", "p23"} THEN 2 ELSE 1]

MCDelays == {MCPeriod[t] : t \in Tasks}
=============================================================================
