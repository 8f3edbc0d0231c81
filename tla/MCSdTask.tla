------------------------------ MODULE MCSdTask ------------------------------
(* The instances of SdTask that TLC explores: see MCSdTask*.cfg.           *)
EXTENDS SdTask
=============================================================================
