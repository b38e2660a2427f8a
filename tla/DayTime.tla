------------------------------- MODULE DayTime ---------------------------------
(* The day as the alarm sees it: so many hours of so many minutes.              *)
EXTENDS Naturals

CONSTANTS Hours, Minutes   \* an hour's and a minute's values: 0 .. n - 1

ASSUME DayAssumption == Hours \in Nat \ {0} /\ Minutes \in Nat \ {0}

Times == (0 .. Hours - 1) \X (0 .. Minutes - 1)
===============================================================================
