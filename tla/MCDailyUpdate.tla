--------------------------- MODULE MCDailyUpdate ---------------------------
(* Instances of DailyUpdate for TLC: every constant is given in the cfgs.  *)
EXTENDS DailyUpdate
=============================================================================
