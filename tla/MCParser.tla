------------------------------ MODULE MCParser ------------------------------
(***************************************************************************)
(* Parser for TLC.                                                         *)
(***************************************************************************)
EXTENDS Parser

Wind(g, d, a, e, c) == [h |-> HCF, v |-> [GUST |-> g, GUSTDIR |-> d, WAVG |-> a,
                                          WAVGDIR |-> e, WCHILL |-> c]]
Rain(r, t) == [h |-> HBF, v |-> [RAINRATE |-> r, RAINTOT |-> t]]
Hum(i, o) == [h |-> H8F, v |-> [HUMIN |-> i, HUMOUT |-> o]]
Temp(i, o) == [h |-> H9F, v |-> [TEMPIN |-> i, TEMPOUT |-> o]]
Dew(i, o, p) == [h |-> HAF, v |-> [DEWIN |-> i, DEWOUT |-> o, BARO |-> p]]

MCMeasured == {Hum(470, 880), Temp(213, -124), Temp(-560, 99), Dew(90, 30, 10087),
               Rain(20, 1230), Wind(54, 2730, 38, 450, -70)}

\* None of them looks like the start of another inside.
ASSUME MCAssumption == NoLookalikes

MCNoise == {0, H8F, HBF}

\* A table with corrections of its own, its last row being the one that counts.
MCCal == [f \in Fields |->
             CASE f \in Directions -> [mul |-> 1, offs |-> -3600]
               [] f \in {"RAINRATE", "RAINTOT"} -> [mul |-> 2, offs |-> 30]
               [] f = "GUST" -> [mul |-> 1, offs |-> 5]
               [] OTHER -> SaneCal[f]]
MCCalTables == {<<MCCal, SaneCal>>, <<SaneCal, MCCal>>}
=============================================================================
