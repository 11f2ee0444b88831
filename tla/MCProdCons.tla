---------------------------- MODULE MCProdCons ----------------------------
(* ProdCons.tla for TLC: a two-slot ring and three items, so the ring    *)
(* wraps and the producer can fill it and block on empty; three slots    *)
(* in the table, one per semaphore.                                      *)
EXTENDS ProdCons

MCNSEM == 3
MCBufferSize == 2
MCNumItems == 3

=============================================================================
