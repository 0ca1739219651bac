----------------------- MODULE MCSchedulePublication -----------------------
(* SchedulePublication on small instances: what it promises, as invariants, *)
(* properties of steps and one property of liveness.                        *)
EXTENDS SchedulePublication
=============================================================================
