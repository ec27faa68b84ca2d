------------------------------- MODULE MCTxnLog -------------------------------
(* Values for the constants of TxnLog.                                     *)
EXTENDS TxnLog

CONSTANT a

MCClen == [id \in Chunks |-> 1]

MCThreshold == [v \in 1 .. NumVolumes |-> 9]
=============================================================================
