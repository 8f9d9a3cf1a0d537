---------------------------- MODULE MCCPUCharges ----------------------------
(* Hours of one unit and days of two: the two readings of the clock are the  *)
(* hour and the day in which the slots are activated, and the next ones.     *)
(* Three revisions of the slots: a limited session, a gap that interrupts it *)
(* and a session that closes the gap, or any other order of three of these.  *)
EXTENDS CPUCharges

\* Nothing is charged; sessions alone; with the limit of an hour or with both.
MCProfiles ==
  {[tracking |-> FALSE, hour |-> 0, day |-> 0],
   [tracking |-> TRUE, hour |-> 0, day |-> 0],
   [tracking |-> TRUE, hour |-> 1, day |-> 0],
   [tracking |-> TRUE, hour |-> 1, day |-> 2]}
=============================================================================
