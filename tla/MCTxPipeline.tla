---------------------------- MODULE MCTxPipeline ----------------------------
(* Instantiates TxPipeline for TLC: two coroutines for one wallet, the    *)
(* account_number 5 of the spec's scenario, one caller retry.             *)
EXTENDS TxPipeline

CONSTANTS c1, c2

MCCalls == {c1, c2}

=============================================================================
