----------------------------- MODULE MCObsStore -----------------------------
(***************************************************************************)
(* ObsStore for TLC: calm weather, a gust from elsewhere, a gust that only *)
(* changes direction, and one that does not change it.                     *)
(***************************************************************************)
EXTENDS ObsStore

Reading(S) == [f \in Fields |-> IF f \in S THEN 1 ELSE 0]

MCReadings == {Reading({}),
               Reading({"GUST", "GUSTDIR", "RAINRATE", "DEWOUT"}),
               Reading({"GUSTDIR", "DEWIN"})}

MCSteadyReadings == {Reading({}), Reading({"GUST", "RAINRATE"})}
=============================================================================
