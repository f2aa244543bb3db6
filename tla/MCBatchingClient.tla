-------------------------- MODULE MCBatchingClient --------------------------
(* A small instance of BatchingClient: four calls, which fill the channel,  *)
(* one to four batches, with different gas.                                 *)
EXTENDS BatchingClient

MCCalls == 1 .. 4
MCGas == <<1, 2, 4, 8>>
=============================================================================
