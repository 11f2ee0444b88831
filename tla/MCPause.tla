------------------------------ MODULE MCPause ------------------------------
(* sys_pause with a 3-bit tick counter, so ticks wraps within a pause; the *)
(* arguments are a negative one, zero and pauses of up to 3 ticks.        *)
EXTENDS Pause

MCArgs == {-1, 0, 1, 3}

\* settickets with a negative count, zero and a count above the default
MCTicketArgs == {-1, 0, 2}
=============================================================================
