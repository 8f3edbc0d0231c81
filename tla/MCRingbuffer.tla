---------------------------- MODULE MCRingbuffer ----------------------------
(* The instance of Ringbuffer that TLC explores: see MCRingbuffer.cfg. *)
EXTENDS Ringbuffer
=============================================================================
