--------------------------- MODULE MCMeterDrivers ---------------------------
(***************************************************************************)
(* MeterDrivers for TLC: one meter of each driver's kinds, or none, and a  *)
(* list of three registers, the second of them fast.                       *)
(***************************************************************************)
EXTENDS MeterDrivers

MCAttached == {"nothing", "DEM4A", "SDM72V1", "SDM72V2", "SDM630",
               "DSZ15DZMOD", "DSZ16DZE", "WM3M4"}
MCFastRead == <<FALSE, TRUE, FALSE>>
=============================================================================
