------------------------------ MODULE MCTngUsb ------------------------------
(* The instance of TngUsb that TLC explores: see MCTngUsb*.cfg.            *)
EXTENDS TngUsb

\* Four requests, the second of them in two transfers.
MCLENGTH == <<1, 2, 1, 1>>
=============================================================================
