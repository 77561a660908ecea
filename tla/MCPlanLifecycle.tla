--------------------------- MODULE MCPlanLifecycle --------------------------
(* Each unit is a LOT of its own.                                           *)
EXTENDS PlanLifecycle, TLC

CONSTANTS s1, s2, u1, u2

OwnLot == [u \in Units |-> u]
AnySession == Permutations(Sessions)

(* Without what no action reads any more: a session's last answer, and the    *)
(* instant of its snapshot once it has been compared.                       *)
Compared(s) == pc[s] \in Reading \ {"parent", "plan", "clock"}
Kept == [s \in Sessions |-> IF Compared(s) THEN <<req[s].parent, req[s].candidate>> ELSE <<req[s]>>]
Unread == <<shop, plans, pc, Kept, seen>>
=============================================================================
