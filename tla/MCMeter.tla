------------------------------ MODULE MCMeter ------------------------------
(* The instances of MeterGeneric that TLC explores: see MCMeter*.cfg.      *)
EXTENDS MeterGeneric

\* A list of three registers, the second of them fast.
MCFastRead  == <<FALSE, TRUE, FALSE>>
=============================================================================
