---------------------------- MODULE MCGrpcChannel ---------------------------
(* Instantiates GrpcChannel for TLC: four coroutines on one client, so    *)
(* that a health check or a stream can wait on a channel that a close()   *)
(* closes and a later query replaces, while a fourth call runs.          *)
EXTENDS GrpcChannel

CONSTANTS w1, w2, w3, w4

MCWorkers4 == {w1, w2, w3, w4}

=============================================================================
