----------------------------- MODULE MCSemTest -----------------------------
(* Two semtest processes and six slots, exactly the three each needs, so  *)
(* sem_init never fails for want of a slot, and every slot one process   *)
(* destroys can be taken by the other.                                    *)
EXTENDS SemTest

MCNSEM == 6
=============================================================================
