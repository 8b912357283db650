-------------------------------- MODULE MCRing --------------------------------
(***************************************************************************)
(* An instance of the ring for TLC.                                        *)
(***************************************************************************)
EXTENDS RingQueue
===============================================================================
