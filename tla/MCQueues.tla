------------------------------ MODULE MCQueues ------------------------------
(* Queues for TLC: the constants satisfy what the theorems assume.         *)
EXTENDS Queues

ASSUME T!LfAssumption /\ T!TickerAssumption /\ C!ChannelAssumption
=============================================================================
