-------------------------------- MODULE MCWire --------------------------------
(* Names for the processes of Wire.                                        *)
EXTENDS Wire

CONSTANTS c1, c2
=============================================================================
