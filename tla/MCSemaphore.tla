---------------------------- MODULE MCSemaphore ----------------------------
(* Semaphore.tla for TLC: two slots, so the table can fill up and a scan *)
(* can pass a slot; handles one below and one above the table for the    *)
(* range checks.                                                         *)
EXTENDS Semaphore

MCNSEM == 2
MCStartValues == {-1, 1}
MCHandles == {-1, 0, 1, 2}
MCMaxValue == 2

\* sem_init takes any int; a caller may pass a negative start count

=============================================================================
