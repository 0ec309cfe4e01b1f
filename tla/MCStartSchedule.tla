---- MODULE MCStartSchedule ----
(* The window's picture of the queue and the scheduled start, on small instances: *)
(* two attempts that count bytes when no plan can be made any more, or one        *)
(* attempt that counts none, with plans.                                          *)
EXTENDS StartSchedule

MCMaxAttempts == [n \in Sizes |-> IF n = 0 THEN 1 ELSE 2]
MCInit == Init /\ (ctl.size = 0 \/ clock = MaxTime)
MCSpec == MCInit /\ [][Next]_vars
====
